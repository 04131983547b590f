SPECIFICATION Spec
CONSTANTS
  q1 = q1
  q2 = q2
  Calls = {q1, q2}
  Items = {1, 2, 3}
  Stamp <- Stamps
  Limit = 1
  Kind = "recent"
  Disturbances = {}
  MaxFaults = 0
INVARIANT
  PagesAdvance
CHECK_DEADLOCK FALSE
