SPECIFICATION ChatSpec
CONSTANTS
  Requests = {p1, p2, p3}
  Kinds = {"agent", "assistant", "research", "queued"}
  Disturbances = {"restart", "worker", "database"}
  MaxFaults = 1
  Faults <- SceneFaults
  NumPersonas = 2
  FollowUps = {m1}
  NoStart = NoStart
  NoBranch = NoBranch
  Starts = {s1}
  Retries = {q1, q2}
  StormStarts = {s1, s2}
  StormRetries = {q1}
  AppRequests = {q1, q2}
  Launch = s1
  MaxPairs = 3
  Items = {1, 2, 3}
  Stamp <- Stamps
  Limit = 1
  PageCalls = {q1, q2}
INVARIANTS
  NothingAbandoned
  ContextSound
  BoundedRepeats
  CouncilRowSound
  AnsweredBranchShownOnce
  NothingHidden
PROPERTIES
  AnswerStays
  SessionKept
SYMMETRY Symmetry
CHECK_DEADLOCK FALSE
