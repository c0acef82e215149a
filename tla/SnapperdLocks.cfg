SPECIFICATION Spec
CONSTANTS
  n1 = n1
  n2 = n2
  n3 = n3
  c1 = c1
  c2 = c2
  Client <- ThreeClients
  Config <- OneConfig
  Num = {1, 2, 3}
  Addr = {1}
  Pair <- ComparePairs
  Method = {"LockConfig", "UnlockConfig", "CreateConfig", "DeleteConfig", "CreatePreSnapshot", "CreatePostSnapshot", "DeleteSnapshots"}
  Root <- TwoClients
  Allowed <- Everyone
  Background <- NoConfig
  Fault = {"delete_config", "io", "crash"}
  MaxTasks = 1
  MaxMounts = 1
INVARIANT PairingOK
PROPERTY LockRespected
