SPECIFICATION ConfigSpec
CONSTANTS
  Num = {1, 2}
  BackEnds = {"btrfs", "lvm"}
  Fault = {"fail", "crash"}
  MaxFaults = 1
  MaxBirths = 2
INVARIANT ConfigTypeOK
INVARIANT ListMatchesDisk
INVARIANT FileListsFresh
INVARIANT Tidy
INVARIANT ConfigWhole
INVARIANT WipedClean
INVARIANT OthersKept
PROPERTY ImplementsSet
