SPECIFICATION LiveSpec
CONSTANTS
  t1 = t1
  t2 = t2
  w1 = w1
  w2 = w2
  noTask = noTask
  NoWorker = NoWorker
  d1 = d1
  NoKey = NoKey
  r1 = r1
  r2 = r2
  i1 = i1
  i2 = i2
  NoItem = NoItem
  p1 = p1
  p2 = p2
  f1 = f1
  s1 = s1
  noRow = noRow
  v1 = v1
  v2 = v2
  Texts = {v1, v2}
  NoText = NoText
  MaxRetries = 2
  Hazards = {"outage"}
  MaxFaults = 2
INVARIANTS
  NeverOrphaned
  ImageOnItsWay
PROPERTIES
  AwaitingImageCompletes
  ArticleSettles
  ImplementsLifecycle
  TasksSettle
  IntakeSettles
  BookmarksArrive
CHECK_DEADLOCK FALSE
