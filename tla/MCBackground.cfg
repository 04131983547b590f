SPECIFICATION BackgroundSpec
CONSTANTS
  w1 = w1
  w2 = w2
  MaxRetries = 3
  Faults <- SceneFaults
  Tasks = {t1}
  QueueWorkers = {w1, w2}
  Keys = {k1}
  QueueRetries = 1
  LeaseTicks = 2
  BeatTicks = 1
  Delays = {0, 1}
  StaleTicks = 0
  NoTask = NoTask
  NoWorker = NoWorker
  NoKey = NoKey
  Items = {i1, i2, i3}
  Pressed = {i1, i2}
  Story <- OneStory
  Drainer = n1
  Drainers = {n1, n2}
  NoItem = NoItem
  Handlers = {h1, h2}
  Texts = {1, 2}
  NoText = NoText
  Saved = {1}
  Shelved = {1, 2}
  Calls = {h1, h2}
  Caller = h1
  Names = {1, 2}
INVARIANTS
  SteadyRotation
  BoundedOvershoot
  Reclaimable
  NoNewsLost
  OneRepresentative
  LibraryRepaired
PROPERTIES
  MetadataKept
  BodyStays
SYMMETRY Symmetry
