SPECIFICATION FairSpec
CONSTANTS
  n1 = n1
  n2 = n2
  n3 = n3
  c1 = c1
  c2 = c2
  Client <- TwoClients
  Config <- OneConfig
  Num = {1, 2}
  Addr = {1}
  Pair <- OnePair
  Method = {"CreatePreSnapshot", "CreatePostSnapshot", "CreateComparison", "DeleteComparison", "MountSnapshot", "UmountSnapshot", "DeleteSnapshots"}
  Root <- TwoClients
  Allowed <- Everyone
  Background <- OneConfig
  Fault = {"crash"}
  MaxTasks = 1
  MaxMounts = 1
INVARIANT MountsResolve
PROPERTY ZombieReaped
PROPERTY UsesReturn
PROPERTY Quiesces
