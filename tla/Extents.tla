------------------------------- MODULE Extents -------------------------------
(***************************************************************************)
(* The sets of byte ranges an open image protects from grain pointers      *)
(* (struct Extents, src/src/reader.rs), as operators on sequences of       *)
(* half-open ranges <<start, end>>.                                        *)
(***************************************************************************)
EXTENDS Integers, Sequences, FiniteSetsExt

NoExtents == <<>>

\* Mutant of EndedBy: the other search's comparison.
EndedByOpen(x, at) == Cardinality({k \in DOMAIN x : x[k][2] < at})

\* slice::partition_point on a partitioned slice: how many ranges end by `at`.
EndedBefore(x, at) == Cardinality({k \in DOMAIN x : x[k][2] < at})
EndedBy(x, at) == Cardinality({k \in DOMAIN x : x[k][2] <= at})

\* What [start, end) has grown to once the ranges after i up to j have joined it.
Hull(x, i, j, start, end) ==
    <<Min({start} \cup {x[k][1] : k \in i + 1 .. j}), Max({end} \cup {x[k][2] : k \in i + 1 .. j})>>

\* Where insert's loop stops: at the end, or at a range that begins past the hull.
JoinedTo(x, i, start, end) ==
    Min({j \in i .. Len(x) : j = Len(x) \/ x[j + 1][1] > Hull(x, i, j, start, end)[2]})

Insert(x, start, end) ==
    LET i == EndedBefore(x, start)
        j == JoinedTo(x, i, start, end)
    IN IF start >= end THEN x
       ELSE SubSeq(x, 1, i) \o <<Hull(x, i, j, start, end)>> \o SubSeq(x, j + 1, Len(x))

\* Whether [start, end) shares a byte with the set.
Overlaps(x, start, end) ==
    LET i == EndedBy(x, start) IN i < Len(x) /\ x[i + 1][1] < end
=============================================================================
