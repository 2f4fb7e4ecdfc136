SPECIFICATION FairSpec
CONSTANTS
  f1 = f1
  f2 = f2
  add = add
  remove = remove
  want = want
  unwant = unwant
  apply = apply
  detail = detail
  NotIn = NotIn
  NoFile = NoFile
  Recs = {1, 2}
  Formats = {f1}
  LocalFormat <- MCLocalFormat
  Syncs = {"s1"}
  Handlers = {detail}
  KindOf <- MCKindOf
  Target <- MCTarget
  PageSize = 1
  Budget = 6
  BurstReserve = 1
  MayFail = FALSE
  MaxEdits = 1
  MaxCrashes = 1
INVARIANTS
  TypeOK
  CompleteSyncMirrors
  FloorSpares429
PROPERTIES
  EventuallyMirrored
