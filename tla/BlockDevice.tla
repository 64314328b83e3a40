----------------------------- MODULE BlockDevice -----------------------------
(***************************************************************************)
(* The host device a VMDK image lives on, as reader.rs uses it through     *)
(* fs_core::BlockDevice (an external crate): dev_write, dev_flush and      *)
(* dev_read over named locations, with a write-back cache.                 *)
(*                                                                         *)
(*   disk[l]   what dev_read returns for location l now                    *)
(*   media[l]  the values location l may hold after a crash                *)
(*                                                                         *)
(* A write is visible at once but may or may not survive a crash, in any   *)
(* order with other unflushed writes; a successful flush makes everything  *)
(* written before it durable; a failed flush promises nothing.             *)
(***************************************************************************)
EXTENDS FiniteSetsExt

VARIABLES disk, media

devVars == <<disk, media>>

\* The locations of the device.
Locations == DOMAIN disk

DevWrite(l, v) ==
    /\ disk' = [disk EXCEPT ![l] = v]
    /\ media' = [media EXCEPT ![l] = @ \cup {v}]

\* Several locations written by one dev_write: f maps each of them to its value.
DevWriteAll(f) ==
    /\ disk' = [l \in Locations |-> IF l \in DOMAIN f THEN f[l] ELSE disk[l]]
    /\ media' = [l \in Locations |->
                    IF l \in DOMAIN f THEN media[l] \cup {f[l]} ELSE media[l]]

DevFlush ==
    /\ disk' = disk
    /\ media' = [l \in Locations |-> {disk[l]}]

\* A write that returned an error: the device may or may not have taken it.
DevWriteFails(l, v) == DevWrite(l, v) \/ UNCHANGED devVars

\* A flush that returned an error: nothing is known to have become durable.
DevFlushFails == UNCHANGED devVars

\* Where the cache and the media may disagree.
Unsettled == {l \in Locations : media[l] # {disk[l]}}

\* Every choice of one value per unsettled location, built a location at a time.
Survivors ==
    FoldSet(LAMBDA l, fs : {[k \in DOMAIN f \cup {l} |-> IF k = l THEN v ELSE f[k]] :
                               f \in fs, v \in media[l]},
            {[l \in {} |-> {}]}, Unsettled)

\* What a crash may leave: each location independently one of its values.
CrashOutcomes ==
    {[l \in Locations |-> IF l \in Unsettled THEN c[l] ELSE disk[l]] : c \in Survivors}

DevCrash(c) ==
    /\ \A l \in Locations : c[l] \in media[l]
    /\ disk' = [l \in Locations |-> c[l]]
    /\ media' = [l \in Locations |-> {c[l]}]
=============================================================================
