SPECIFICATION Spec
CONSTANTS
  encora = encora
  images = images
  noArgs = noArgs
  w1 = w1
  w2 = w2
  c1 = c1
  Names <- TwoJobs
  Keys <- TwoJobKeys
  JobOf <- MCJobOf
  DefaultKey <- MCDefaultKey
  Interval <- EveryTick
  StartupJobs = {images}
  FanOutJobs = {encora}
  Workers = {w1}
  Clients = {c1}
  Sched = Sched
  NoKey = NoKey
  QueueCapacity = 1
  StoreMayFail = TRUE
  MaxRuns = 3
  MaxTime = 0
  MaxCrashes = 1
INVARIANTS
  ActiveIffHeld
PROPERTIES
  RowMovesForward
  ImplementsLedger
