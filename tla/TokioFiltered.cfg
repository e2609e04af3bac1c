SPECIFICATION FairSpec
CONSTANTS
  Builds = {"unix"}
  FilterBudget = 2
  MaxArrivals = 4
CHECK_DEADLOCK FALSE
PROPERTIES
  RecvReturns
