SPECIFICATION FairSpec
CONSTANTS
  a1 = a1
  a2 = a2
  Apps = {a1}
  CallbackOps = {"free"}
  MaxGeneration = 2
  MaxPackets = 2
  MaxPoll = 2
CHECK_DEADLOCK FALSE
PROPERTIES
  CallsReturn
