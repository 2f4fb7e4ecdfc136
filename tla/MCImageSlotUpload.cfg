SPECIFICATION Spec
CONSTANTS
  up = up
  frame = frame
  job = job
  forced = forced
  Old = Old
  None = None
  Requests = {up, job}
  KindOf <- MCKindOf
  Blocks <- MCBlocks
  MayFail = FALSE
  MaxInFlight = 2
  MaxCrashes = 0
PROPERTY UploadsSurviveRefresh
