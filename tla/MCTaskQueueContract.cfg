SPECIFICATION Spec
CONSTANTS
  Tasks = {t1, t2}
  Workers = {w1, w2}
  NoTask = NoTask
  NoWorker = NoWorker
  Keys = {k1}
  NoKey = NoKey
  MaxRetries = 2
  LeaseTicks = 3
  BeatTicks = 1
  Delays = {0,1}
  StaleTicks = 0
  Hazards = {"crash", "dberror"}
  MaxFaults = 2
INVARIANTS
  TypeOK
  ExclusiveExecution
PROPERTIES
  TerminalIsFinal
  ImplementsContract
SYMMETRY Symmetry
