SPECIFICATION Spec
CONSTANTS
  g1 = g1
  g2 = g2
  s1 = s1
  if1 = if1
  p1 = p1
  p2 = p2
  AnySource = AnySource
  NoAddress = NoAddress
  Interfaces = {if1}
  Ipv4Interfaces = {if1}
  Indexes = {1, 2}
  Configs <- MixedConfigs
  ExistingSockets <- MixedSockets
  Datagrams <- MixedDatagrams
  FilterBudget = 2
  BatchSizes = {2}
  MaxId = 2
  MaxArrivals = 3
CHECK_DEADLOCK FALSE
INVARIANTS
  ReceivedExact
  MetricsAgree
  StateMatchesKernel
  ScanInRange
  BoundedOvertaking
PROPERTIES
  ScanProgresses
