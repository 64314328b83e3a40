CONSTANTS
    r1 = r1
    r2 = r2
    Readers <- TwoReaders
    GrainUnits = 2
    Images <- SomeImages
    MayFail = TRUE
SPECIFICATION Spec
INVARIANTS
    TypeOK
    OkReadIsTrue
    VerdictIsPerGrain
    RunsAreWhole
