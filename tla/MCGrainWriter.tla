---------------------------- MODULE MCGrainWriter ----------------------------
(***************************************************************************)
(* Small instances of GrainWriter for TLC: grains of two blocks, tables of *)
(* two entries, and the images worth opening.                              *)
(***************************************************************************)
EXTENDS GrainWriter, TLC

CONSTANTS w1, w2, Old, Junk

TwoWriters == {w1, w2}
OneWriter == {w1}

\* An image of the given length holding f, its tail unwritten.
Image(length, f) ==
    [l \in Locs |->
        CASE l = Length          -> length
          [] l \in DOMAIN f      -> f[l]
          [] l \notin DOMAIN f /\ l = Header -> [rgd |-> TRUE, zeroed |-> TRUE]
          [] l \notin DOMAIN f /\ l[1] = "cell" -> Junk
          [] OTHER               -> Unallocated]

\* Nothing allocated yet.
Empty == Image(1, <<>>)

\* Table 0 at cell 2 with old data in its slot 0 and `second` in its slot 1.
Primary0(second) ==
    Gd(0) :> 2 @@ At(2, 0) :> 4 @@ At(2, 1) :> second @@ At(4, 0) :> Old @@ At(4, 1) :> Old

\* The same with a redundant copy that is complete, behind or absent.
Used0(length, redundant, second) ==
    Image(length,
          Primary0(second)
          @@ Rgd(0) :> (IF redundant = "absent" THEN Unallocated ELSE 3)
          @@ At(3, 0) :> (IF redundant = "complete" THEN 4 ELSE Unallocated)
          @@ At(3, 1) :> (IF redundant = "complete" THEN second ELSE Unallocated))

CompleteImages == {Empty, Used0(4, "complete", Unallocated)}
PatchyImages == {Used0(4, "behind", ZeroedGrain), Used0(4, "absent", ZeroedGrain)}

\* Images with neither flag: no redundant directory, and an entry of 1 is a bad
\* pointer in them.
NoFlags == Header :> [rgd |-> FALSE, zeroed |-> FALSE]
PlainImages == {Image(1, NoFlags), Image(4, NoFlags @@ Primary0(Unallocated)),
                                   Image(4, NoFlags @@ Primary0(1))}

\* With two writers: a device with room for exactly what an empty image needs, so
\* that from a used one the last grain of a call finds no space left.
TwinImages == {Empty, Used0(4, "behind", ZeroedGrain)}
VariousImages == CompleteImages \cup PatchyImages \cup PlainImages

\* The file was cut off before its last grain, which the table still names.
TruncatedImages == {Used0(3, "complete", Unallocated)}

\* Ranges of blocks: the end of one grain and the start of the next; the same
\* across tables; a whole grain, or a part of one.
AcrossGrains == {<<1, 2>>}
AcrossTables == {<<3, 4>>}
WholeOrPart == {<<0, 1>>, <<3, 3>>}

\* What may go wrong: nothing, one fault, one fault or one crash, both.
NoTrouble == {<<0, 0>>}
OneFault == {<<1, 0>>}
FaultOrCrash == {<<1, 0>>, <<0, 1>>}
FaultAndCrash == {<<1, 1>>}

\* The device writes that may take effect and fail: none, all but the one of a
\* primary entry, that one.
Nowhere == {}
ButEntry == {"tableZero", "seedCopy", "rgdWrite", "gdWrite", "mergeWrite", "grainZero",
             "grainData", "entryRedundant", "through", "tableSpace", "grainSpace"}
AtEntry == {"entryPrimary"}

Symmetry == Permutations(Writers)
=============================================================================
