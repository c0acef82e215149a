SPECIFICATION Spec
CONSTANTS
  Path <- ShortPaths
  Ignored <- OneIgnored
  Ino <- ThreeInodes
  Name <- TwoNames
  Pairs <- LinkReplaced
  Edits <- SomeEdits
  Fault = {}
  MaxTrouble = 0
INVARIANT UnchangedStays
