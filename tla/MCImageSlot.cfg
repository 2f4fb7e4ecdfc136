SPECIFICATION Spec
CONSTANTS
  up = up
  frame = frame
  job = job
  forced = forced
  Old = Old
  None = None
  Requests = {up, frame, job, forced}
  KindOf <- MCKindOf
  Blocks <- MCBlocks
  MayFail = TRUE
  MaxInFlight = 1
  MaxCrashes = 2
INVARIANTS TypeOK PublishedIsWhole
PROPERTIES OkIsServed
