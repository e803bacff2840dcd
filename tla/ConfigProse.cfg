SPECIFICATION Spec
CONSTANTS
    SchemaVersion = 1
    MinReadable = 1
    None = None
    Blank = Blank
    Malformed = Malformed
    Invalid = Invalid
    NoHome = NoHome
    k = k
    ours = ours
    theirs = theirs
    compiled = compiled
INVARIANT ReadsTheWinner
CHECK_DEADLOCK FALSE
