SPECIFICATION Spec
CONSTANTS
  Path <- ShortPaths
  Ignored <- OneIgnored
  Ino <- ThreeInodes
  Name <- TwoNames
  Pairs <- SomePairs
  Edits <- SomeEdits
  Fault = {"mkdir", "write", "unlink", "chmod"}
  MaxTrouble = 1
INVARIANT StreamExact
INVARIANT UndoRestores
PROPERTY OkMeansRestored
PROPERTY StepKeepsOthers
