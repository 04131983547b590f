SPECIFICATION ServicesSpec
CONSTANTS
  Faults <- SceneFaults
  Threads = {w1, w2}
  Order <- OneProvider
  Tokened = {"spotify"}
  Threshold = 2
  Cooldown = 2
  Ttl = 1
  MaxTime = 5
  Posts = 4
  Window = 2
  MaxGrants = 3
  Agent = w1
  Agents = {w1, w2}
  GrantPosts = 2
  GrantMax = 2
  Approvals = {a1, a2, a3}
  Plain = {p1, p2}
  Subscriptions = {f1}
  Scrapes = {s1}
  NoRow = NoRow
  MaxTries = 2
  MediaRetries = 2
  Discoveries = {1, 2}
  Sources = {f1, p1}
  Defaults = {f1}
  FirstTries = 1
  Feeds = {f1}
  Tasks = {1, 2}
  Runs = {1, 2, 3}
  WeekRetries = 1
  AnswerFeeds = {f1, p1}
  AnswerTasks = {1}
  AnswerRuns = {1, 2}
  m1 = m1
  m2 = m2
  k1 = k1
  k2 = k2
  Handlers = {m1, m2}
  Keys = {k1, k2}
  Absent = Absent
  Values = {1, 2}
  Touches <- Touched
  Preserved = {k2}
  Wholesale = {m1}
INVARIANTS
  NothingStranded
  ProviderIsSpared
  ConnectionFollowsUser
  NothingPassedOver
  LinkedWithKey
  HeardAndSummarized
  OnboardedWithSources
  OneWeeklySession
  SubscribedHasFeed
  NothingLost
CHECK_DEADLOCK FALSE
