SPECIFICATION FairSpec
CONSTANTS
  Num = {1, 2, 3}
  MaxTime = 1
  Algorithms = {"number", "empty-pre-post"}
  MinAge = 1
  Limit = 1
  Unit <- Calendar
  UnitLimit <- OneEach
  Kind <- NumberKinds
  Others = {"delete", "hold"}
INVARIANT TypeOK
INVARIANT PairsWhole
INVARIANT NumberSpares
PROPERTY BlocksNotForever
