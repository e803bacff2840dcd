SPECIFICATION StoresSpec
CONSTANTS
    a = a
    b = b
    na = na
    nb = nb
    nx = nx
    Texts = {a, b}
    Names = {na, nb, nx}
    Canon <- CanonDef
    Spelled <- SpelledDef
    Scenarios <- AllMemories
    RekeyMax = 1
    ExportMax = 1
    None = None
    Bad = Bad
    Partial = Partial
    p = p
    q = q
    x = x
    y = y
    z = z
    gen1 = gen1
    gen2 = gen2
    Paths = {p, q}
    Place <- Places
    Contents <- Sources
    Size <- Bulk
    MaxSize = 9
    FileLimit = 2
    DigestMax = 2
    Generations = {gen1, gen2}
    Width <- Widths
    c1 = c1
    c2 = c2
    c3 = c3
    Commits = {c1, c2, c3}
    Unembeddable = {c2}
    MinEmbeds = 1
    MaxRun = 2
    Main = Main
    Rival = Rival
    CacheKeys = {k1, k2, k3}
    Users = {u1, u2}
    vs = vs
    vb = vb
    vh = vh
    Values = {vs, vb, vh}
    Bytes <- Weight
    MaxValueBytes = 3
    MaxCacheEntries = 2
    MaxCacheBytes = 3
    Always = Always
    Forever = Always
    MaxPuts = 3
    Uses <- UsesDef
INVARIANT NoMemoryLost
INVARIANT FreshMeansIndexed
INVARIANT EvictsTheExcess
PROPERTY IndexConverges
PROPERTY ChunksConverge
PROPERTY CommitsConverge
