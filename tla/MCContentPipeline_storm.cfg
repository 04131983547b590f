SPECIFICATION Spec
CONSTANTS
  v1 = v1
  v2 = v2
  Texts = {v1, v2}
  NoText = NoText
  MaxRetries = 1
  Hazards = {"crash", "outage", "handoff", "resubmit"}
  MaxFaults = 2
INVARIANTS
  CompletedHasArtwork
SYMMETRY Symmetry
CHECK_DEADLOCK FALSE
