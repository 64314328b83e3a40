CONSTANTS
    w1 = w1
    w2 = w2
    Old = Old
    Junk = Junk
    NoOne = NoOne
    Writers <- OneWriter
    Tables = 1
    EntriesPerTable = 2
    BlocksPerGrain = 2
    MaxCell = 7
    Ranges <- AcrossGrains
    Images <- CompleteImages
    Budgets <- OneFault
    DirtyAt <- AtEntry
SPECIFICATION Spec
SYMMETRY Symmetry
PROPERTIES
    PublishedNeverMoves
