--------------------------- MODULE MCWriteSession ---------------------------
(***************************************************************************)
(* Small instances of WriteSession for TLC: two threads writing, one       *)
(* flushing, two contents, three content identifiers.                      *)
(***************************************************************************)
EXTENDS WriteSession, TLC

CONSTANTS w1, w2, f1, d1, d2, c1, c2, c3

TwoWriters == {w1, w2}
OneFlusher == {f1}
TwoContents == {d1, d2}
ThreeCids == {c1, c2, c3}

\* Every fault after which memory and device still agree about the bookkeeping.
ForgivingFaults == {"dataWrite", "dataFlush", "sync"}

\* The calls that lower the marker.
LowerFaults == {"lowerWrite", "lowerFlush"}

\* Contents and identifiers are only compared for equality, and threads are
\* told apart by nothing but their own state.
Symmetry ==
    Permutations({w1, w2}) \cup Permutations({d1, d2}) \cup Permutations({c1, c2, c3})
=============================================================================
