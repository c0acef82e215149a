SPECIFICATION Spec
CONSTANTS
  n1 = n1
  n2 = n2
  Client <- OneClient
  Bg = bg
  Main = main
  Nobody = nobody
  Op = {"mount", "umount", "user_mount", "user_umount", "compare"}
  Fault = {"mount", "interrupt", "stray"}
  Quick = FALSE
  Width = 4
  MaxMounts = 2
INVARIANT TypeOK
INVARIANT UserMountKept
