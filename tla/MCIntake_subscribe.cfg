SPECIFICATION Spec
CONSTANTS
  p1 = p1
  f1 = f1
  Plain = {p1}
  Feeds = {f1}
  Scrapes = {}
  NoRow = NoRow
  MaxTries = 2
  Disturbances = {}
  MaxFaults = 0
PROPERTIES
  SubscriptionKept
CHECK_DEADLOCK FALSE
