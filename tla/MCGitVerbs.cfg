SPECIFICATION GitSpec
CONSTANTS
    k1 = k1
    k2 = k2
    e1 = e1
    e2 = e2
    o1 = o1
    o2 = o2
    m = m
    f = f
    g = g
    None = None
    Callers <- Two
    Length = 2
    MaxCrashes = 1
    PollsFirst = FALSE
    Mine <- MyEdits
    Theirs <- TheirEdits
    FileOf <- FileNames
    Markers = m
    Retries = 3
    MaxTheirs = 1
    MaxMishaps = 1
CHECK_DEADLOCK FALSE
INVARIANT RunsOnce
PROPERTIES PollingEnds PushedMeansLanded CommittedStays Delivers
