CONSTANTS
    Files <- AllFiles
    SectorBytes = 2
    EntryBytes = 1
    MaxWord = 63
    MaxEntry = 15
    MaxGtes = 4
    MaxStreamGrain = 2
    MaxDescriptorFile = 6
    InFooter = 63
    ReadsMayFail = TRUE
SPECIFICATION Spec
INVARIANTS
    TypeOK
    PointersStayInGrains
    ProtectedIsExact
    EveryOffsetHasAnEntry
    WritableIsMaintainable
    FailedReadIsNoVerdict
