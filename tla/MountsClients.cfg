SPECIFICATION FairSpec
CONSTANTS
  n1 = n1
  n2 = n2
  Client <- TwoClients
  Bg = bg
  Main = main
  Nobody = nobody
  Op = {"mount", "umount", "user_mount", "user_umount"}
  Fault = {}
  Quick = TRUE
  Width = 8
  MaxMounts = 2
INVARIANT CountExact
INVARIANT InUseStaysMounted
PROPERTY LeftoverUnmounted
