SPECIFICATION RowsSpec
CONSTANTS
    a = a
    b = b
    w1 = w1
    w2 = w2
    c1 = c1
    c2 = c2
    None = None
    Ids <- MutableIds
    Kinds <- Typed
    ProveKinds <- Prove
    StateKinds <- State
    MaxRows = 3
    PrdIds <- IdPool
    Witnesses <- WitnessPool
    Comments <- CommentPool
    InitialRows <- UpToTwoOpen
    MaxDispatches = 4
    Requests <- AllRequests
    Settings <- TwoHosts
    Uses = {"prd", "mutables"}
CHECK_DEADLOCK FALSE
INVARIANTS
    NoCircularWait
    ReadyMeansWitnessable
    NoContentionFailure
    CommentsAccounted
    WitnessesDistinct
    MarkerVouches
PROPERTY ImplementsAtomicPrd
