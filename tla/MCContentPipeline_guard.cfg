SPECIFICATION Spec
CONSTANTS
  v1 = v1
  v2 = v2
  Texts = {v1, v2}
  NoText = NoText
  MaxRetries = 2
  Hazards = {"resubmit"}
  MaxFaults = 1
PROPERTIES
  ArtworkGuard
SYMMETRY Symmetry
CHECK_DEADLOCK FALSE
