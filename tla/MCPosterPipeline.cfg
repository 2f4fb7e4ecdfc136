SPECIFICATION FairSpec
CONSTANTS
    i1 = i1  i2 = i2  t1 = t1  l1 = l1  a1 = a1  a2 = a2
    Images = {i1, i2}
    Own = {i2}
    Texts = {t1}
    Layouts = {l1}
    Starts <- MCStarts
    Actors = {a1, a2}
    MaxInFlight = 2
    MaxOps = 2
    MaxFaults = 1
    MaxClock = 2
    None = None  Derived = Derived  Raw = Raw  Torn = Torn
INVARIANTS TypeOK PosterIsCurrent NfoIsCurrent
PROPERTIES MissingPosterIsFilled
