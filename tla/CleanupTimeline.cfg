SPECIFICATION Spec
CONSTANTS
  Num = {1, 2, 3, 4, 5}
  MaxTime = 8
  Algorithms = {"timeline"}
  MinAge = 1
  Limit = 1
  Unit <- Calendar
  UnitLimit <- OneEach
  Kind <- TimelineKinds
  Others = {}
INVARIANT TimelineKeeps
INVARIANT TimelineBounded
INVARIANT Idempotent
