SPECIFICATION Spec
CONSTANTS
    p1 = p1
    p2 = p2
    None = None
    Absent = Absent
    Partial = Partial
    Blank = Blank
    Malformed = Malformed
    Invalid = Invalid
    NoHome = NoHome
    Procs <- Two
    MaxRevision = 3
    MaxRecords = 2
    MaxDeliveredTo = 2
    Settings <- ThreeSettings
INVARIANTS OneHolder GoodCopyKept ServedNeverOlder ChangesAnnounced ToldExactlyOnce
PROPERTIES ServesAgain
