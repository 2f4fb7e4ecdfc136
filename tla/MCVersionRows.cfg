SPECIFICATION Spec
CONSTANTS
    vob1 = vob1  vob2 = vob2  f1 = f1  f2 = f2  up = up  mkv1 = mkv1  mkv2 = mkv2
    a1 = a1  a2 = a2
    Files = {vob1, vob2, f1, f2, up, mkv1, mkv2}
    Paths <- MCPaths
    Canon <- MCCanon
    MkvPath <- MCMkvPath
    PartOf <- MCPartOf
    Mkv <- MCMkv
    DriftDirs = {"ext1", "ext2"}
    Starts <- MCStarts
    Actors = {a1}
    MaxInFlight = 1
    MaxOps = 4
    MaxEdits = 2
    MaxFaults = 2
    Nothing = Nothing  NoRow = NoRow
INVARIANTS TypeOK RowsTrueWhenQuiet NeverHalfSwapped PartsKeepTheirFile
PROPERTIES RefreshHeals
