SPECIFICATION Spec
CONSTANTS
  a1 = a1
  a2 = a2
  Apps = {a1, a2}
  CallbackOps = {"start", "stop", "free", "subscribe"}
  MaxGeneration = 3
  MaxPackets = 2
  MaxPoll = 2
SYMMETRY AppSymmetry
CHECK_DEADLOCK FALSE
INVARIANTS
  WorkersAccountedFor
  ReplacedWorkerIsDone
  FreeEndsDelivery
PROPERTIES
  ReplacementUndisturbed
