SPECIFICATION FairSpec
CONSTANTS
  v1 = v1
  v2 = v2
  Texts = {v1, v2}
  NoText = NoText
  MaxRetries = 2
  Hazards = {"handoff"}
  MaxFaults = 1
PROPERTIES
  AwaitingImageCompletes
CHECK_DEADLOCK FALSE
