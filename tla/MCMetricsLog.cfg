SPECIFICATION Spec
CONSTANTS
  p1 = p1
  p2 = p2
  Processes = {p1, p2}
  InterfaceIndex <- MCInterfaces
  CommandLines <- MCCommandLines
  Environments <- MCEnvironments
  OtherFlags <- MCOtherFlags
  MaxRuns = 2
  MaxWrites = 4
  MaxCount = 1
  MaxTime = 1
SYMMETRY MCSymmetry
CHECK_DEADLOCK FALSE
INVARIANTS
  HeaderFirst
  DamageBounded
  PairConsistent
  RestartAccepted
  DeltasAddUp
  LogOfOneReceiver
