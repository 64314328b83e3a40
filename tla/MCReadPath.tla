------------------------------ MODULE MCReadPath ------------------------------
(***************************************************************************)
(* Images for ReadPath: grains of two units.                               *)
(***************************************************************************)
EXTENDS ReadPath

CONSTANTS r1, r2

TwoReaders == {r1, r2}

\* Four grains, the last one cut by the end of the disk: back to back, apart,
\* out of order, sharing a host grain, missing, refused, past the end of the
\* file. Readers of a sparse image share nothing, so one will do.
SparseImages ==
    {[size |-> 7, stream |-> FALSE, entry |-> e, limit |-> l, records |-> <<>>,
      readers |-> {r1}] :
        e \in [0 .. 3 -> {Hole, Bad, 10, 12, 14}], l \in {15, 20}}

\* Two grains and two records: each entry may name either record, the first of
\* which is any record a file may hold.
StreamImages ==
    {[size |-> 3, stream |-> TRUE, entry |-> e, limit |-> 20, readers |-> TwoReaders,
      records |-> 10 :> [names |-> n, inflates |-> i] @@ 12 :> [names |-> 2, inflates |-> 1]] :
        e \in [0 .. 1 -> {Hole, Bad, 10, 12}], n \in {0, 2}, i \in BadPayload .. GrainUnits}

SomeImages == SparseImages \cup StreamImages
=============================================================================
