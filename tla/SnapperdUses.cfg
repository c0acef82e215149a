SPECIFICATION Spec
CONSTANTS
  n1 = n1
  n2 = n2
  n3 = n3
  c1 = c1
  c2 = c2
  Client <- TwoClients
  Config <- OneConfig
  Num = {1, 2}
  Addr = {1, 2}
  Pair <- ComparePairs
  Method = {"CreatePreSnapshot", "CreatePostSnapshot", "CreateComparison", "DeleteComparison", "DeleteSnapshots", "DeleteConfig", "MountSnapshot"}
  Root <- TwoClients
  Allowed <- Everyone
  Background <- OneConfig
  Fault = {"crash", "io"}
  MaxTasks = 2
  MaxMounts = 1
SYMMETRY ClientSymmetry
INVARIANT TypeOK
INVARIANT UseCountExact
INVARIANT NoDanglingReference
INVARIANT IdleMeansFree
