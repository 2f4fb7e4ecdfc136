SPECIFICATION Spec
CONSTANTS
  f1 = f1
  f2 = f2
  add = add
  remove = remove
  want = want
  unwant = unwant
  apply = apply
  detail = detail
  NotIn = NotIn
  NoFile = NoFile
  Recs = {1}
  Formats = {f1, f2}
  LocalFormat <- MCLocalFormat
  Syncs = {"s1"}
  Handlers = {apply, unwant, detail}
  KindOf <- MCKindOf
  Target <- MCTarget
  PageSize = 1
  Budget = 2
  BurstReserve = 0
  MayFail = TRUE
  MaxEdits = 1
  MaxCrashes = 0
INVARIANTS
  RowsComeFromUpstream
