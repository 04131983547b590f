SPECIFICATION Spec
CONSTANTS
  Tasks = {t1, t2}
  Workers = {w1}
  NoTask = NoTask
  NoWorker = NoWorker
  Keys = {k1}
  NoKey = NoKey
  MaxRetries = 1
  LeaseTicks = 2
  BeatTicks = 1
  Delays = {0,1}
  StaleTicks = 1
  Hazards = {"crash", "dberror", "beatdeath", "pause", "watchdog", "manual"}
  MaxFaults = 2
INVARIANTS
  ActiveKeyUnique
SYMMETRY Symmetry
