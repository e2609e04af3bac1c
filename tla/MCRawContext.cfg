SPECIFICATION Spec
CONSTANTS
  Platforms = {"linux", "macos", "windows"}
  Configs <- MCConfigs
  Frames <- MCFrames
  EarlyFrames = {"udp4", "ssm6"}
  Datalink <- MCDatalink
  InitialLinks <- MCInitialLinks
  FilterBudget = 2
  MaxSubscriptions = 2
  MaxId = 2
  MaxArrivals = 2
  MaxQueue = 2
  MaxMoves = 1
INVARIANTS
  ScanInRange
  ValidatedConverts
  ReceivedExact
  StateMatchesKernel
  CaptureFollowsMembership
PROPERTY
  ReceiveProgresses
CHECK_DEADLOCK FALSE
