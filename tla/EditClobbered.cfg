SPECIFICATION KernelSpec
CONSTANTS
    h1 = h1
    h2 = h2
    def = def
    dp = dp
    da = da
    db = db
    de = de
    dc = dc
    r1 = r1
    r2 = r2
    k0 = k0
    kx = kx
    ka = ka
    kb = kb
    rm = rm
    None = None
    Callers = {h1, h2}
    Phases = {"VERIFY", "COMPLETE"}
    Terminal = "COMPLETE"
    Threshold = 2
    EscalateAfter = 2
    RepeatThreshold = 2
    MaxEntries = 2
    Settings <- ThreeSettings
    MaxContent = 2
    Ids <- TwoIds
    Urls <- ThreeUrls
    UrlOf <- Url
    Keys <- TwoKeys
    LocalRealm <- Local
    Versions = {"old", "new", "newer", "broken"}
    First = "old"
    Broken = {"broken"}
    Cycles <- ReloadsDef
    Lists <- ListsDef
    MaxCycles = 4
    Names <- Ring
    Default = def
    Caps = {k0, kx, ka, kb}
    Realms = {r1, r2}
    Requires <- RingRequires
    Provides <- RingProvides
    Realm <- RingRealm
    Isolation <- RingIsolation
    Plans <- OneRemoved
    Removers = {rm}
    Uses = {"disciplines"}
CHECK_DEADLOCK FALSE
PROPERTY NoEditIsClobbered
