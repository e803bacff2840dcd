SPECIFICATION Spec
CONSTANTS
    specify = specify
    decide = decide
    complete = complete
    review = review
    p1 = p1
    p2 = p2
    p3 = p3
    h1 = h1
    h2 = h2
    g1 = g1
    g2 = g2
    d1 = d1
    d2 = d2
    None = None
    Absent = Absent
    Malformed = Malformed
    KnownPredicates = {p1, p2, p3}
    RefusedPredicate = p3
    HookFiles = {h1}
    CompiledDefault <- Default
    Phases <- AllPhases
    GateNames <- AllGates
    Locals <- LocalFiles
    Repos <- RepoFiles
    Dispatchers = {d1, d2}
    Verbs <- AllVerbs
    Settings <- AloneAndPair
    MaxHistory = 2
INVARIANT CanFinish
PROPERTIES MovesKeepWalks 
