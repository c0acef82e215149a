SPECIFICATION Spec
CONSTANTS
  Num = {1, 2}
  MaxTime = 1
  Algorithms = {"empty-pre-post"}
  MinAge = 1
  Limit = 1
  Unit <- Calendar
  UnitLimit <- OneEach
  Kind <- PairKinds
  Others = {}
INVARIANT EmptyPairsDeleted
