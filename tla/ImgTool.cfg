CONSTANTS
    p1 = p1
    p2 = p2
    a = a
    b = b
    FileA = FileA
    FileB = FileB
    Processes <- TwoProcesses
    Jobs <- AllJobs
    Dests <- TwoDests
    Inodes = {1, 2, 3, 4}
    Units <- SomeUnits
    ChunkUnits = 2
    Contents <- Disks
    Present <- OneFile
    OldFile <- Old
    Exclusive = TRUE
    Budgets <- FaultOrKill
CHECK_DEADLOCK FALSE
SPECIFICATION Spec
SYMMETRY Symmetry
INVARIANTS
    TypeOK
    FileIsWhole
    StdoutIsPrefix
    NothingRefusedLate
PROPERTIES
    OkIsDone
