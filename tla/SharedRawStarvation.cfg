SPECIFICATION PollSpec
CONSTANTS
  g1 = g1
  s1 = s1
  v4 = v4
  v6 = v6
  k1 = k1
  k2 = k2
  AnySource = AnySource
  Groups = {g1}
  Sources = {s1}
  Selectors = {v4, v6}
  Keys = {k1, k2}
  Configs <- MCConfigs
  Resolutions <- MCResolutions
  MaxSubscriptions = 2
  MaxPendingPackets = 2
  CounterMax = 0
  FilterBudget = 2
  BatchSizes = {3}
  MaxId = 2
  MaxArrivals = 0
  MaxQueue = 1
PROPERTIES
  EveryCaptureServed
