CONSTANTS
    w1 = w1
    w2 = w2
    Old = Old
    Junk = Junk
    NoOne = NoOne
    Writers <- OneWriter
    Tables = 1
    EntriesPerTable = 2
    BlocksPerGrain = 2
    MaxCell = 7
    Ranges <- WholeOrPart
    Images <- VariousImages
    Budgets <- FaultAndCrash
    DirtyAt <- ButEntry
SPECIFICATION Spec
SYMMETRY Symmetry
INVARIANTS
    DistinctSpace
PROPERTIES
    ImplementsDisk
