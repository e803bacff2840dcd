SPECIFICATION GitSpec
CONSTANTS
    k1 = k1
    k2 = k2
    e1 = e1
    e2 = e2
    o1 = o1
    o2 = o2
    m = m
    f = f
    g = g
    None = None
    Callers = {k1}
    Length = 1
    MaxCrashes = 0
    PollsFirst = FALSE
    Mine = {e1}
    Theirs = {o2}
    FileOf <- FileNames
    Markers = m
    Retries = 3
    MaxTheirs = 1
    MaxMishaps = 0
CHECK_DEADLOCK FALSE
INVARIANT MarkerVouches
