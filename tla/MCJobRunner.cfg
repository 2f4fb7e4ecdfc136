SPECIFICATION FairSpec
CONSTANTS
  encora = encora
  images = images
  noArgs = noArgs
  w1 = w1
  w2 = w2
  c1 = c1
  Names <- TwoJobs
  Keys <- TwoJobKeys
  JobOf <- MCJobOf
  DefaultKey <- MCDefaultKey
  Interval <- EveryTick
  StartupJobs = {images}
  FanOutJobs = {encora}
  Workers = {w1, w2}
  Clients = {c1}
  Sched = Sched
  NoKey = NoKey
  QueueCapacity = 2
  StoreMayFail = FALSE
  MaxRuns = 2
  MaxTime = 1
  MaxCrashes = 0
INVARIANTS
  TypeOK
  SingleFlight
  SchedulerNeverPanics
  RecordHonest
PROPERTIES
  AcceptedRunsLeave
  ShutdownCompletes
