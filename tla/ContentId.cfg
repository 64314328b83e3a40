CONSTANTS
    Symbols <- Bytes
    Regions <- AllRegions
    RegionBytes = 12
    SectorBytes = 4
    CidDigits = 2
    Hex = {"0", "f"}
    Lowest = "0"
    Highest = "f"
    Budgets <- SomeTrouble
CHECK_DEADLOCK FALSE
SPECIFICATION Spec
INVARIANTS
    TypeOK
    RewriteIsConfined
    BumpedIsDurable
    DescriptorSurvives
PROPERTIES
    BumpKeepsTheRest
    BumpMovesTheCid
