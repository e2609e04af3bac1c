SPECIFICATION Spec
CONSTANTS
  a1 = a1
  a2 = a2
  Apps = {a1}
  CallbackOps = {}
  MaxGeneration = 3
  MaxPackets = 2
  MaxPoll = 2
CHECK_DEADLOCK FALSE
INVARIANTS
  StopIsPrompt
