SPECIFICATION FairSpec
CONSTANTS
    d1 = d1  d2 = d2
    p1 = p1  p2 = p2  x1 = x1  v2 = v2  x2 = x2
    r1 = r1  r2 = r2  q1 = q1  q2 = q2
    Drops = {d1, d2}
    Files = {p1, p2, x1, v2}
    DropOf <- MCDropOf
    Candidates = {p1, p2, v2}
    Rank <- MCRank
    PartNo <- MCPartNo
    Size <- MCSize
    Name <- NamesApart
    Recs = {r1, r2}
    Requests = {q1, q2}
    RecOf <- EachItsOwn
    Starts <- MCStarts
    Overlap = FALSE
    MaxCalls = 2
    MaxInFlight = 2
    MaxFaults = 1
    Coming = Coming  Gone = Gone  Never = Never
    NoRow = NoRow  NoFile = NoFile
INVARIANTS TypeOK NothingLost RowsDescribeTheirFile
PROPERTIES PassIsExact ArrivalsSurface
