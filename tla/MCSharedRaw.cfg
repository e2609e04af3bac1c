SPECIFICATION Spec
CONSTANTS
  g1 = g1
  s1 = s1
  s2 = s2
  addr = addr
  index = index
  k1 = k1
  k2 = k2
  AnySource = AnySource
  Groups = {g1}
  Sources = {s1, s2}
  Selectors = {addr, index}
  Keys = {k1, k2}
  Configs <- MCConfigs
  Resolutions <- MCResolutions
  MaxSubscriptions = 2
  MaxPendingPackets = 2
  CounterMax = 2
  FilterBudget = 2
  BatchSizes = {3}
  MaxId = 3
  MaxArrivals = 2
  MaxQueue = 2
INVARIANTS
  MembershipCounts
  TypeOK
  PendingNamesJoined
  ReceiveBounded
  CaptureFifo
  MetricsAgree
  SharedStateExact
  CaptureOrderInSync
PROPERTIES
  LeaveIsolated
  ReceiveProgresses
  SubscriptionsIndependent
