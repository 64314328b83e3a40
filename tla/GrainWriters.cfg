CONSTANTS
    w1 = w1
    w2 = w2
    Old = Old
    Junk = Junk
    NoOne = NoOne
    Writers <- TwoWriters
    Tables = 2
    EntriesPerTable = 2
    BlocksPerGrain = 2
    MaxCell = 7
    Ranges <- AcrossTables
    Images <- TwinImages
    Budgets <- FaultOrCrash
    DirtyAt <- ButEntry
SPECIFICATION Spec
SYMMETRY Symmetry
INVARIANTS
    TypeOK
    CacheCoherent
    NoSharedSpace
    MergedIsComplete
PROPERTIES
    RedundantNeverBehind
    PublishedNeverMoves
    ImplementsDisk
