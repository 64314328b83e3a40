CONSTANTS
    w1 = w1
    w2 = w2
    f1 = f1
    d1 = d1
    d2 = d2
    c1 = c1
    c2 = c2
    c3 = c3
    NoOne = NoOne
    Writers <- TwoWriters
    Flushers <- OneFlusher
    Data <- TwoContents
    Cids <- ThreeCids
    HasCid = TRUE
    MaxWrites = 2
    Faults <- ForgivingFaults
    Crashes = TRUE
SPECIFICATION Spec
SYMMETRY Symmetry
INVARIANTS
    TypeOK
    MarkerCoversWrites
    ContentIdMovesFirst
    EnvelopeIsApart
PROPERTIES
    FlushIsABarrier
    BumpedOnce
    FlushLowersMarker
