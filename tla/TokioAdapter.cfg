SPECIFICATION FairSpec
CONSTANTS
  Builds = {"unix", "other"}
  FilterBudget = 4
  MaxArrivals = 4
CHECK_DEADLOCK FALSE
PROPERTIES
  RecvReturns
