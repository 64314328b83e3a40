---------------------------- MODULE ImgTool_proof ----------------------------
(***************************************************************************)
(* ImgTool is correct for any number of processes, any command lines, any  *)
(* contents and any chunk size, as long as commands that touch one file or *)
(* write the image are not run at once.                                    *)
(***************************************************************************)
EXTENDS ImgTool, SequenceTheorems, TLAPS

-----------------------------------------------------------------------------
(* The device *)

NameSet == {Whole(d) : d \in Dests} \cup {Partial(d) : d \in Dests}
Tables == [NameSet -> Inodes \cup {NoFile}]
Loc == {Names} \cup {Inode(i) : i \in Inodes}

\* What location l may hold.
Content(l) == IF l = Names THEN Tables ELSE Seq(Units)

DeviceOK ==
    /\ disk = [l \in Loc |-> disk[l]] /\ media = [l \in Loc |-> media[l]]
    /\ \A l \in Loc : /\ disk[l] \in media[l]
                      /\ \A v \in media[l] : v \in Content(l)

LEMMA Naming ==
    /\ Names \in Loc
    /\ \A i \in Inodes : Inode(i) \in Loc /\ Inode(i) # Names
    /\ \A i, j : Inode(i) = Inode(j) => i = j
    /\ \A d \in Dests : Whole(d) \in NameSet /\ Partial(d) \in NameSet
    /\ \A d, e : /\ Whole(d) # Partial(e)
                 /\ Whole(d) = Whole(e) => d = e
                 /\ Partial(d) = Partial(e) => d = e
    /\ \A n \in NameSet : \E d \in Dests : n = Whole(d) \/ n = Partial(d)
  BY DEF Names, Inode, Whole, Partial, NameSet, Loc

LEMMA WriteEffect ==
    ASSUME DeviceOK, NEW l \in Loc, NEW v \in Content(l), DevWrite(l, v)
    PROVE  /\ DeviceOK'
           /\ disk'[l] = v /\ media'[l] = media[l] \cup {v}
           /\ \A k \in Loc \ {l} : disk'[k] = disk[k] /\ media'[k] = media[k]
  <1>1. /\ disk'[l] = v /\ media'[l] = media[l] \cup {v}
        /\ \A k \in Loc \ {l} : disk'[k] = disk[k] /\ media'[k] = media[k]
        /\ disk' = [k \in Loc |-> disk'[k]] /\ media' = [k \in Loc |-> media'[k]]
    BY DEF DevWrite, DeviceOK
  <1>2. QED
    BY <1>1 DEF DeviceOK

LEMMA WriteAllEffect ==
    ASSUME DeviceOK, NEW f, DevWriteAll(f), DOMAIN f \subseteq Loc,
           \A l \in DOMAIN f : f[l] \in Content(l)
    PROVE  /\ DeviceOK'
           /\ \A k \in DOMAIN f : disk'[k] = f[k] /\ media'[k] = media[k] \cup {f[k]}
           /\ \A k \in Loc \ DOMAIN f : disk'[k] = disk[k] /\ media'[k] = media[k]
  <1>1. DOMAIN disk = Loc
    BY DEF DeviceOK
  <1>2. /\ \A k \in DOMAIN f : disk'[k] = f[k] /\ media'[k] = media[k] \cup {f[k]}
        /\ \A k \in Loc \ DOMAIN f : disk'[k] = disk[k] /\ media'[k] = media[k]
        /\ disk' = [k \in Loc |-> disk'[k]] /\ media' = [k \in Loc |-> media'[k]]
    BY <1>1 DEF DevWriteAll, Locations
  <1>3. QED
    BY <1>2 DEF DeviceOK

LEMMA FlushEffect ==
    ASSUME DeviceOK, DevFlush
    PROVE  DeviceOK' /\ disk' = disk /\ \A k \in Loc : media'[k] = {disk[k]}
  <1>1. DOMAIN disk = Loc
    BY DEF DeviceOK
  <1>2. disk' = disk /\ media' = [k \in Loc |-> {disk[k]}]
    BY <1>1 DEF DevFlush, Locations
  <1>3. QED
    BY <1>2 DEF DeviceOK

LEMMA CrashEffect ==
    ASSUME DeviceOK, NEW c, DevCrash(c)
    PROVE  /\ DeviceOK'
           /\ \A k \in Loc : disk'[k] = c[k] /\ media'[k] = {c[k]} /\ c[k] \in media[k]
  <1>1. DOMAIN disk = Loc
    BY DEF DeviceOK
  <1>2. /\ disk' = [k \in Loc |-> c[k]] /\ media' = [k \in Loc |-> {c[k]}]
        /\ \A k \in Loc : c[k] \in media[k]
    BY <1>1 DEF DevCrash, Locations
  <1>3. QED
    BY <1>2 DEF DeviceOK

-----------------------------------------------------------------------------
(* Sequences *)

\* Tables after a change of one name.
LEMMA Renaming ==
    ASSUME NEW t \in Tables, NEW n \in NameSet, NEW i \in Inodes \cup {NoFile}
    PROVE  /\ [t EXCEPT ![n] = i] \in Tables
           /\ [t EXCEPT ![n] = i][n] = i
           /\ \A k \in NameSet \ {n} : [t EXCEPT ![n] = i][k] = t[k]
  BY DEF Tables

LEMMA OverlayIs ==
    ASSUME NEW f \in Seq(Units), NEW at \in Nat, NEW u \in Seq(Units)
    PROVE  /\ Overlay(f, at, u) \in Seq(Units)
           /\ Len(f) <= at + Len(u) => Len(Overlay(f, at, u)) = at + Len(u)
           /\ Len(f) > at + Len(u) => Len(Overlay(f, at, u)) = Len(f)
           /\ \A k \in 1 .. Len(Overlay(f, at, u)) :
                 Overlay(f, at, u)[k] = IF k \in at + 1 .. at + Len(u) THEN u[k - at]
                                        ELSE IF k <= Len(f) THEN f[k] ELSE Zero
  <1> DEFINE n == IF Len(f) > at + Len(u) THEN Len(f) ELSE at + Len(u)
             e(k) == IF k \in at + 1 .. at + Len(u) THEN u[k - at]
                     ELSE IF k <= Len(f) THEN f[k] ELSE Zero
  <1>1. n \in Nat
    OBVIOUS
  <1>2. \A k \in 1 .. n : e(k) \in Units
    BY ImgAssumption
  <1>3. Overlay(f, at, u) = [k \in 1 .. n |-> e(k)]
    BY DEF Overlay
  <1> HIDE DEF n, e
  <1>4. Overlay(f, at, u) \in [1 .. n -> Units]
    BY <1>2, <1>3
  <1>5. /\ Overlay(f, at, u) \in Seq(Units) /\ Len(Overlay(f, at, u)) = n
        /\ \A k \in 1 .. n : Overlay(f, at, u)[k] = e(k)
    BY <1>1, <1>3, <1>4
  <1>6. QED
    BY <1>5 DEF n, e

LEMMA ResizedIs ==
    ASSUME NEW f \in Seq(Units), NEW n \in Nat
    PROVE  /\ Resized(f, n) \in Seq(Units) /\ Len(Resized(f, n)) = n
           /\ \A k \in 1 .. n : Resized(f, n)[k] = IF k <= Len(f) THEN f[k] ELSE Zero
  <1>1. Resized(f, n) \in [1 .. n -> Units]
    BY ImgAssumption DEF Resized
  <1>2. QED
    BY <1>1 DEF Resized

LEMMA PartIs ==
    ASSUME NEW s \in Seq(Units), NEW a \in Nat, NEW b \in Nat, a <= b, b <= Len(s)
    PROVE  /\ SubSeq(s, a + 1, b) \in Seq(Units) /\ Len(SubSeq(s, a + 1, b)) = b - a
           /\ \A k \in 1 .. b - a : SubSeq(s, a + 1, b)[k] = s[a + k]
  BY SubSeqProperties

LEMMA SameSeq ==
    ASSUME NEW s \in Seq(Units), NEW t \in Seq(Units), Len(s) = Len(t),
           \A k \in 1 .. Len(s) : s[k] = t[k]
    PROVE  s = t
  BY SeqEqual

-----------------------------------------------------------------------------
(* Types *)

Places == {"idle", "open", "emit", "create", "copy", "sync", "rename", "remove", "put"}
Results == {"none", "refused", "ok", "failed", "closed", "killed"}
Locals == [job : Jobs \cup {Idle.job}, at : Nat, end : Nat, file : Inodes \cup {NoFile},
           meant : Seq(Units), out : Seq(Units)]

\* Where process p is, its command and its locals agree.
PlaceOK(p) ==
    /\ pc[p] # "idle" => my[p].job \in Jobs /\ result[p] = "none"
    /\ pc[p] = "emit" => my[p].job.verb = "read" /\ my[p].job.to = Stdout
    /\ pc[p] \in {"create", "copy", "sync", "rename", "remove"} =>
          my[p].job.verb = "read" /\ my[p].job.to \in Dests
    /\ pc[p] = "put" => /\ my[p].job.verb = "write"
                        /\ my[p].end = my[p].job.offset + Takes(my[p].job)
    /\ pc[p] \in {"emit", "create", "copy", "sync", "rename", "put"} =>
          /\ my[p].job.offset <= my[p].at /\ my[p].at <= my[p].end /\ my[p].end <= Len(image)
          /\ Len(my[p].meant) = IF my[p].job.verb = "read" THEN my[p].end - my[p].job.offset
                                ELSE Len(image)
    /\ pc[p] = "create" => my[p].at = my[p].job.offset
    /\ pc[p] \in {"sync", "rename"} => my[p].at = my[p].end
    /\ pc[p] \in {"copy", "sync", "rename"} => my[p].file \in Inodes

Typed ==
    /\ image \in Seq(Units) /\ DeviceOK
    /\ pc \in [Processes -> Places] /\ my \in [Processes -> Locals]
    /\ result \in [Processes -> Results]
    /\ faults \in Nat /\ kills \in Nat /\ commands \in Nat
    /\ \A p \in Processes : PlaceOK(p)

LEMMA IdleIsTyped ==
    ASSUME NEW job \in Jobs
    PROVE  Idle \in Locals /\ [Idle EXCEPT !.job = job] \in Locals
                           /\ [Idle EXCEPT !.job = job].job = job
  <1>1. <<>> \in Seq(Units)
    OBVIOUS
  <1>2. Idle \in Locals
    BY <1>1 DEF Idle, Locals, NoFile
  <1>3. [Idle EXCEPT !.job = job] =
           [job |-> job, at |-> 0, end |-> 0, file |-> NoFile, meant |-> <<>>, out |-> <<>>]
    BY DEF Idle
  <1>4. QED
    BY <1>1, <1>2, <1>3 DEF Locals, NoFile

LEMMA JobIs ==
    ASSUME NEW job \in Jobs
    PROVE  /\ job.offset \in Nat
           /\ job.verb \in {"read", "write"}
           /\ job.verb = "read" => job.to \in Dests \cup {Stdout} /\ job.length \in Nat \cup {ToTheEnd}
           /\ job.verb = "write" => /\ job.to = Stdout /\ job.length \in Nat
                                    /\ job.input \in Seq(Units)
                                    /\ Takes(job) \in Nat
                                    /\ Takes(job) <= job.length /\ Takes(job) <= Len(job.input)
  <1>1. CASE job.verb = "write"
    <2>1. job.length \in Nat /\ job.input \in Seq(Units)
      BY <1>1, JobAssumption
    <2>2. Len(job.input) \in Nat
      BY <2>1
    <2>3. QED
      BY <1>1, <2>1, <2>2, JobAssumption DEF Takes, Lesser
  <1>2. CASE job.verb # "write"
    BY <1>2, JobAssumption
  <1>3. QED
    BY <1>1, <1>2

\* A chunk lies inside what is left of the range.
LEMMA ChunkIs ==
    ASSUME Typed, NEW p \in Processes, pc[p] \in {"emit", "create", "copy", "sync", "rename", "put"}
    PROVE  /\ ChunkLength(p) \in Nat /\ ChunkLength(p) <= ChunkUnits
           /\ my[p].at + ChunkLength(p) <= my[p].end
           /\ More(p) => ChunkLength(p) > 0
           /\ Len(image) \in Nat
           /\ ChunkUnitsRead(p) \in Seq(Units) /\ Len(ChunkUnitsRead(p)) = ChunkLength(p)
           /\ \A k \in 1 .. ChunkLength(p) : ChunkUnitsRead(p)[k] = image[my[p].at + k]
  <1>1. /\ my[p].at \in Nat /\ my[p].end \in Nat /\ my[p].at <= my[p].end
        /\ my[p].end <= Len(image) /\ Len(image) \in Nat
    BY DEF Typed, PlaceOK, Locals
  <1>2. /\ ChunkLength(p) \in Nat /\ ChunkLength(p) <= ChunkUnits
        /\ my[p].at + ChunkLength(p) <= my[p].end
        /\ More(p) => ChunkLength(p) > 0
    BY <1>1, ImgAssumption DEF ChunkLength, More, Lesser
  <1> DEFINE a == my[p].at
             b == my[p].at + ChunkLength(p)
  <1>3. image \in Seq(Units) /\ a \in Nat /\ b \in Nat /\ a <= b /\ b <= Len(image)
    BY <1>1, <1>2 DEF Typed
  <1>4. /\ SubSeq(image, a + 1, b) \in Seq(Units) /\ Len(SubSeq(image, a + 1, b)) = b - a
        /\ \A k \in 1 .. b - a : SubSeq(image, a + 1, b)[k] = image[a + k]
    BY ONLY <1>3, PartIs
  <1>5. b - a = ChunkLength(p) /\ ChunkUnitsRead(p) = SubSeq(image, a + 1, b)
    BY <1>1, <1>2 DEF ChunkUnitsRead
  <1>6. QED
    BY <1>1, <1>2, <1>4, <1>5

LEMMA TypedInit == Init => Typed
  <1> SUFFICES ASSUME Init PROVE Typed
    OBVIOUS
  <1>1. image \in Seq(Units)
    BY ImgAssumption DEF Init
  <1>2. DeviceOK
    <2> DEFINE names == [n \in NameSet |-> IF n[2] = "whole" THEN Present[n[1]] ELSE NoFile]
    <2>1. names \in Tables
      BY ImgAssumption DEF Tables, NameSet, Whole, Partial
    <2>2. disk = [l \in Loc |-> IF l = Names THEN names ELSE OldFile]
      BY DEF Init, Loc, NameSet
    <2>3. /\ disk = [l \in Loc |-> disk[l]] /\ DOMAIN disk = Loc
          /\ \A l \in Loc : disk[l] \in Content(l)
      BY <2>1, <2>2, ImgAssumption DEF Content
    <2>4. media = [l \in Loc |-> {disk[l]}]
      BY <2>3 DEF Init
    <2>5. QED
      BY <2>3, <2>4 DEF DeviceOK
  <1>3. faults \in Nat /\ kills \in Nat /\ commands \in Nat
    BY ImgAssumption DEF Init
  <1>4. my \in [Processes -> Locals]
    BY DEF Init, Idle, Locals, NoFile
  <1>5. QED
    BY <1>1, <1>2, <1>3, <1>4 DEF Init, Typed, PlaceOK, Places, Results

\* A step of p leaves the other processes where they are.
LEMMA TypedFrame ==
    ASSUME Typed, NEW p \in Processes,
           image' \in Seq(Units), Len(image') = Len(image), DeviceOK',
           pc' \in [Processes -> Places], my' \in [Processes -> Locals],
           result' \in [Processes -> Results],
           \A q \in Processes \ {p} : pc'[q] = pc[q] /\ my'[q] = my[q] /\ result'[q] = result[q],
           faults' \in Nat, kills' \in Nat, commands' \in Nat,
           PlaceOK(p)'
    PROVE  Typed'
  BY DEF Typed, PlaceOK

\* Steps that leave the device and the image alone and do not start a copy.
LEMMA TypedQuiet ==
    ASSUME Typed, NEW p \in Processes,
           \/ \E job \in Jobs : Start(p, job)
           \/ Emit(p) \/ EmitDone(p) \/ PipeCloses(p) \/ EmitFails(p) \/ PutDone(p) \/ Killed(p)
           \/ Sync(p)
    PROVE  Typed'
  <1> USE DEF Typed, Goto, Return, Places, Results, devVars, budget
  <1>1. image' = image => image' \in Seq(Units) /\ Len(image') = Len(image)
    OBVIOUS
  <1>2. UNCHANGED devVars => DeviceOK'
    BY DEF DeviceOK
  <1>3. ASSUME NEW job \in Jobs, Start(p, job) PROVE Typed'
    <2>1. my'[p].job = job /\ my' \in [Processes -> Locals]
      BY <1>3, IdleIsTyped DEF Start
    <2>2. PlaceOK(p)'
      BY <1>3, <2>1 DEF Start, PlaceOK
    <2>3. commands' \in Nat
      <3>1. commands \in Nat /\ commands > 0 /\ commands' = commands - 1
        BY <1>3 DEF Start
      <3>2. QED
        BY ONLY <3>1
    <2>4. /\ pc' \in [Processes -> Places] /\ result' \in [Processes -> Results]
          /\ UNCHANGED <<devVars, image, faults, kills>>
          /\ \A q \in Processes \ {p} : pc'[q] = pc[q] /\ my'[q] = my[q] /\ result'[q] = result[q]
      BY <1>3 DEF Start
    <2>5. QED
      BY <1>1, <1>2, <2>1, <2>2, <2>3, <2>4, TypedFrame
  <1>4. CASE Emit(p)
    <2>1. ChunkLength(p) \in Nat /\ my[p].at + ChunkLength(p) <= my[p].end
          /\ ChunkUnitsRead(p) \in Seq(Units)
      BY <1>4, ChunkIs DEF Emit
    <2>2. /\ my[p].out \o ChunkUnitsRead(p) \in Seq(Units)
          /\ my[p].at + ChunkLength(p) \in Nat
      BY <2>1, ConcatProperties DEF Locals
    <2>3. my' \in [Processes -> Locals] /\ my'[p].at = my[p].at + ChunkLength(p)
          /\ my'[p].job = my[p].job /\ my'[p].end = my[p].end /\ my'[p].meant = my[p].meant
      BY <1>4, <2>2 DEF Emit, Locals
    <2>4. PlaceOK(p)'
      <3>1. /\ pc[p] = "emit" /\ pc' = pc /\ result' = result /\ image' = image
            /\ PlaceOK(p) /\ my[p].at \in Nat /\ my[p].job.offset \in Nat
        BY <1>4, JobIs DEF Emit, PlaceOK, Locals
      <3>2. QED
        BY ONLY <3>1, <2>1, <2>3 DEF PlaceOK
    <2>5. QED
      BY <1>1, <1>2, <1>4, <2>3, <2>4, TypedFrame DEF Emit
  <1>5. CASE PipeCloses(p) \/ EmitFails(p)
    <2>0. PICK how \in {"closed", "failed"} : EmitStops(p, how)
      BY <1>5 DEF PipeCloses, EmitFails
    <2>1. PICK k \in 0 .. ChunkLength(p) :
             my' = [my EXCEPT ![p].out = @ \o SubSeq(ChunkUnitsRead(p), 1, k)]
      BY <2>0 DEF EmitStops
    <2>2. /\ ChunkLength(p) \in Nat /\ ChunkUnitsRead(p) \in Seq(Units)
          /\ Len(ChunkUnitsRead(p)) = ChunkLength(p)
      BY <2>0, ChunkIs DEF EmitStops
    <2>3. SubSeq(ChunkUnitsRead(p), 0 + 1, k) \in Seq(Units)
      BY <2>2, PartIs
    <2>4. my[p].out \o SubSeq(ChunkUnitsRead(p), 1, k) \in Seq(Units)
      BY <2>3, ConcatProperties DEF Locals
    <2>5. my' \in [Processes -> Locals]
      BY <2>1, <2>4 DEF Locals
    <2>6. faults' \in Nat
      <3>1. faults \in Nat /\ (faults' = faults \/ (faults > 0 /\ faults' = faults - 1))
        BY <1>5 DEF PipeCloses, EmitFails
      <3>2. QED
        BY ONLY <3>1
    <2>7. QED
      BY <1>1, <1>2, <2>0, <2>1, <2>5, <2>6, TypedFrame DEF EmitStops, PlaceOK
  <1>6. CASE EmitDone(p)
    BY <1>1, <1>2, <1>6, TypedFrame DEF EmitDone, PlaceOK
  <1>7. CASE PutDone(p)
    BY <1>1, <1>2, <1>7, TypedFrame DEF PutDone, PlaceOK
  <1>9. CASE Killed(p)
    BY <1>1, <1>2, <1>9, TypedFrame DEF Killed, PlaceOK
  <1>10. CASE Sync(p)
    <2>1. Inode(my[p].file) \in Loc
      BY <1>10, Naming DEF Sync, PlaceOK
    <2>2. DeviceOK'
      BY <1>10, <2>1 DEF Sync, DeviceOK
    <2>3. PlaceOK(p)'
      BY <1>10 DEF Sync, PlaceOK
    <2>4. QED
      BY <1>1, <1>10, <2>2, <2>3, TypedFrame DEF Sync
  <1>11. QED
    BY <1>3, <1>4, <1>5, <1>6, <1>7, <1>9, <1>10

\* What a command that is not refused sets out to do.
LEMMA CheckIs ==
    ASSUME Typed, NEW p \in Processes, Check(p), pc'[p] # "idle"
    PROVE  LET job == my[p].job
               end == my'[p].end
           IN
           /\ my' \in [Processes -> Locals]
           /\ my'[p].job = job /\ my'[p].at = job.offset /\ job \in Jobs
           /\ my'[p].out = my[p].out
           /\ job.offset \in Nat /\ job.offset <= end /\ end <= Len(image)
           /\ pc'[p] = "put" => /\ job.verb = "write" /\ end = job.offset + Takes(job)
                                /\ Len(my'[p].meant) = Len(image)
                                /\ \A k \in 1 .. Len(image) : my'[p].meant[k] =
                                      IF k \in job.offset + 1 .. end THEN job.input[k - job.offset]
                                      ELSE image[k]
           /\ pc'[p] # "put" => /\ job.verb = "read" /\ Len(my'[p].meant) = end - job.offset
                                /\ \A k \in 1 .. end - job.offset :
                                      my'[p].meant[k] = image[job.offset + k]
                                /\ IF job.to = Stdout THEN pc'[p] = "emit" ELSE pc'[p] = "create"
  <1> DEFINE job == my[p].job
             read == job.verb = "read"
             refused == IF read THEN RangeIsRefused(job) ELSE WriteIsRefused(job)
             end == job.offset + (IF read THEN RangeLength(job) ELSE Takes(job))
             meant == IF read THEN SubSeq(image, job.offset + 1, end)
                      ELSE Overlay(image, job.offset, SubSeq(job.input, 1, Takes(job)))
  <1>1. /\ pc[p] = "open" /\ job \in Jobs /\ ~refused /\ pc \in [Processes -> Places]
        /\ my' = [my EXCEPT ![p] = [@ EXCEPT !.at = job.offset, !.end = end, !.meant = meant]]
        /\ pc'[p] = CASE job.verb = "write" -> "put"
                       [] job.verb = "read" /\ job.to = Stdout -> "emit"
                       [] job.verb = "read" /\ job.to # Stdout -> "create"
    BY DEF Check, Typed, PlaceOK, Return, Goto
  <1>2. /\ job.offset \in Nat /\ job.verb \in {"read", "write"}
        /\ read => job.to \in Dests \cup {Stdout} /\ job.length \in Nat \cup {ToTheEnd}
        /\ ~read => /\ job.to = Stdout /\ job.length \in Nat
                    /\ job.input \in Seq(Units)
                    /\ Takes(job) \in Nat
                    /\ Takes(job) <= job.length /\ Takes(job) <= Len(job.input)
    BY <1>1, JobIs
  <1>3. image \in Seq(Units) /\ Len(image) \in Nat /\ my \in [Processes -> Locals]
    BY DEF Typed
  <1>4. end \in Nat /\ job.offset <= end /\ end <= Len(image)
    <2>1. CASE read
      BY <1>1, <1>2, <1>3, <2>1 DEF RangeIsRefused, RangeLength, ToTheEnd
    <2>2. CASE ~read
      BY <1>1, <1>2, <1>3, <2>2 DEF WriteIsRefused
    <2>3. QED
      BY <2>1, <2>2
  <1>5. CASE read
    <2>1. /\ meant \in Seq(Units) /\ Len(meant) = end - job.offset
          /\ \A k \in 1 .. end - job.offset : meant[k] = image[job.offset + k]
      <3>1. meant = SubSeq(image, job.offset + 1, end)
        BY <1>5
      <3> HIDE DEF meant, end, job
      <3>2. QED
        BY <1>2, <1>3, <1>4, <3>1, PartIs
    <2> HIDE DEF meant, end
    <2>2. /\ my' \in [Processes -> Locals] /\ my'[p].at = job.offset /\ my'[p].end = end
          /\ my'[p].meant = meant /\ my'[p].job = job /\ my'[p].out = my[p].out
      BY <1>1, <1>2, <1>3, <1>4, <2>1 DEF Locals
    <2>3. QED
      BY <1>1, <1>2, <1>3, <1>4, <1>5, <2>1, <2>2
  <1>6. CASE ~read
    <2>1. /\ meant \in Seq(Units) /\ Len(meant) = Len(image)
          /\ \A k \in 1 .. Len(image) : meant[k] =
                IF k \in job.offset + 1 .. end THEN job.input[k - job.offset] ELSE image[k]
      <3> DEFINE n == Takes(job)
                 part == SubSeq(job.input, 0 + 1, n)
      <3>1. /\ job.offset \in Nat /\ n \in Nat /\ end = job.offset + n
            /\ part \in Seq(Units) /\ Len(part) = n /\ \A k \in 1 .. n : part[k] = job.input[k]
            /\ meant = Overlay(image, job.offset, part)
        <4>1. /\ job.offset \in Nat /\ n \in Nat /\ end = job.offset + n /\ 0 + 1 = 1
              /\ job.input \in Seq(Units) /\ n <= Len(job.input) /\ 0 \in Nat /\ 0 <= n
          BY <1>2, <1>6
        <4>2. meant = Overlay(image, job.offset, part)
          BY <1>6, <4>1
        <4> HIDE DEF meant, end, job, n
        <4>3. /\ part \in Seq(Units) /\ Len(part) = n - 0
              /\ \A k \in 1 .. n - 0 : part[k] = job.input[0 + k]
          BY <4>1, PartIs
        <4>4. n - 0 = n /\ \A k \in 1 .. n : 0 + k = k
          BY <4>1
        <4>5. QED
          BY <4>1, <4>2, <4>3, <4>4
      <3>2. job.offset + n <= Len(image)
        BY <1>4, <3>1
      <3> HIDE DEF meant, end, job, n, part
      <3>3. /\ meant \in Seq(Units)
            /\ Len(image) <= job.offset + n => Len(meant) = job.offset + n
            /\ Len(image) > job.offset + n => Len(meant) = Len(image)
            /\ \A k \in 1 .. Len(meant) :
                  meant[k] = IF k \in job.offset + 1 .. job.offset + n THEN part[k - job.offset]
                             ELSE IF k <= Len(image) THEN image[k] ELSE Zero
        <4> DEFINE o == job.offset
        <4>1. o \in Nat /\ part \in Seq(Units) /\ image \in Seq(Units)
          BY <1>3, <3>1
        <4>2. Len(part) = n /\ meant = Overlay(image, o, part)
          BY <3>1
        <4> HIDE DEF o
        <4>3. /\ Overlay(image, o, part) \in Seq(Units)
              /\ Len(image) <= o + Len(part) => Len(Overlay(image, o, part)) = o + Len(part)
              /\ Len(image) > o + Len(part) => Len(Overlay(image, o, part)) = Len(image)
              /\ \A k \in 1 .. Len(Overlay(image, o, part)) :
                    Overlay(image, o, part)[k] =
                      IF k \in o + 1 .. o + Len(part) THEN part[k - o]
                      ELSE IF k <= Len(image) THEN image[k] ELSE Zero
          BY ONLY <4>1, OverlayIs
        <4>4. /\ meant \in Seq(Units)
              /\ Len(image) <= o + n => Len(meant) = o + n
              /\ Len(image) > o + n => Len(meant) = Len(image)
              /\ \A k \in 1 .. Len(meant) :
                    meant[k] = IF k \in o + 1 .. o + n THEN part[k - o]
                               ELSE IF k <= Len(image) THEN image[k] ELSE Zero
          BY ONLY <4>2, <4>3
        <4>5. QED
          BY ONLY <4>4 DEF o
      <3>4. Len(meant) = Len(image)
        BY <1>3, <3>1, <3>2, <3>3
      <3>5. \A k \in 1 .. Len(image) : k \in job.offset + 1 .. end => k - job.offset \in 1 .. n
        BY <3>1, <1>3
      <3>6. QED
        BY <1>3, <3>1, <3>3, <3>4, <3>5
    <2>2. end = job.offset + Takes(job)
      BY <1>6
    <2> HIDE DEF meant, end
    <2>3. /\ my' \in [Processes -> Locals] /\ my'[p].at = job.offset /\ my'[p].end = end
          /\ my'[p].meant = meant /\ my'[p].job = job /\ my'[p].out = my[p].out
      BY <1>1, <1>2, <1>3, <1>4, <2>1 DEF Locals
    <2>4. QED
      BY <1>1, <1>2, <1>3, <1>4, <1>6, <2>1, <2>2, <2>3
  <1>7. QED
    BY <1>5, <1>6

LEMMA TypedCheck ==
    ASSUME Typed, NEW p \in Processes, Check(p)
    PROVE  Typed'
  <1>1. /\ image' = image /\ UNCHANGED <<disk, media, faults, kills, commands>>
        /\ pc[p] = "open" /\ PlaceOK(p) /\ pc \in [Processes -> Places]
        /\ my \in [Processes -> Locals] /\ result \in [Processes -> Results]
        /\ image \in Seq(Units) /\ Len(image) \in Nat
        /\ faults \in Nat /\ kills \in Nat /\ commands \in Nat
    BY DEF Check, Typed, devVars, budget
  <1>2. DeviceOK'
    BY <1>1 DEF Typed, DeviceOK
  <1>3. \A q \in Processes \ {p} : pc'[q] = pc[q] /\ my'[q] = my[q] /\ result'[q] = result[q]
    BY <1>1 DEF Check, Return, Goto
  <1>4. CASE pc'[p] = "idle"
    <2>1. pc' \in [Processes -> Places] /\ result' \in [Processes -> Results] /\ my' = my
      <3>1. CASE UNCHANGED my
        BY <1>1, <1>4, <3>1 DEF Check, Return, Goto, Places, Results
      <3>2. CASE ~UNCHANGED my
        <4>1. pc'[p] = CASE my[p].job.verb = "write" -> "put"
                         [] my[p].job.verb = "read" /\ my[p].job.to = Stdout -> "emit"
                         [] my[p].job.verb = "read" /\ my[p].job.to # Stdout -> "create"
          BY <1>1, <3>2 DEF Check, Goto
        <4>2. my[p].job.verb \in {"read", "write"}
          BY <1>1, JobIs DEF PlaceOK
        <4>3. QED
          BY <1>4, <4>1, <4>2
      <3>3. QED
        BY <3>1, <3>2
    <2>2. PlaceOK(p)'
      BY <1>4 DEF PlaceOK
    <2>3. QED
      BY <1>1, <1>2, <1>3, <2>1, <2>2, TypedFrame
  <1>5. CASE pc'[p] # "idle"
    <2>1. /\ my' \in [Processes -> Locals] /\ my[p].job \in Jobs
          /\ my'[p].job = my[p].job /\ my'[p].at = my[p].job.offset
          /\ my[p].job.offset <= my'[p].end /\ my'[p].end <= Len(image)
          /\ my[p].job.offset \in Nat
          /\ pc'[p] = "put" => /\ my[p].job.verb = "write"
                               /\ my'[p].end = my[p].job.offset + Takes(my[p].job)
                               /\ Len(my'[p].meant) = Len(image)
          /\ pc'[p] # "put" => /\ my[p].job.verb = "read"
                               /\ Len(my'[p].meant) = my'[p].end - my[p].job.offset
                               /\ IF my[p].job.to = Stdout THEN pc'[p] = "emit"
                                                           ELSE pc'[p] = "create"
      BY <1>5, CheckIs
    <2>2. my[p].job.verb = "read" => my[p].job.to \in Dests \cup {Stdout}
      BY <2>1, JobIs
    <2>3. /\ result' = result
          /\ pc' = [pc EXCEPT ![p] = pc'[p]]
      BY <1>1, <1>5 DEF Check, Return, Goto
    <2>4. pc'[p] \in {"put", "emit", "create"} /\ result[p] = "none"
      BY <1>1, <2>1 DEF PlaceOK
    <2>5. PlaceOK(p)'
      BY ONLY <1>1, <2>1, <2>2, <2>3, <2>4 DEF PlaceOK
    <2>6. pc' \in [Processes -> Places]
      BY <1>1, <2>3, <2>4 DEF Places
    <2>7. QED
      BY <1>1, <1>2, <1>3, <2>1, <2>3, <2>5, <2>6, TypedFrame
  <1>6. QED
    BY <1>4, <1>5

\* The file a copy goes to: the FILE.partial there is, or one nothing refers to.
LEMMA CreateIs ==
    ASSUME Typed, NEW p \in Processes, Create(p)
    PROVE  LET d == my[p].job.to
               i == my'[p].file
               t == [disk[Names] EXCEPT ![Partial(d)] = i]
           IN
           /\ d \in Dests /\ i \in Inodes
           /\ \/ i = disk[Names][Partial(d)]
              \/ \A u \in media[Names] : \A n \in NameSet : u[n] # i
           /\ my' = [my EXCEPT ![p].file = i] /\ DeviceOK'
           /\ t \in Tables /\ disk'[Names] = t /\ media'[Names] = media[Names] \cup {t}
           /\ disk'[Inode(i)] = <<>> /\ media'[Inode(i)] = media[Inode(i)] \cup {<<>>}
           /\ \A k \in Loc \ {Names, Inode(i)} : disk'[k] = disk[k] /\ media'[k] = media[k]
  <1> DEFINE d == my[p].job.to
             name == Partial(d)
             i == IF Named(name) # NoFile THEN Named(name) ELSE NewInode
             t == [disk[Names] EXCEPT ![name] = i]
             f == [l \in {Names, Inode(i)} |-> IF l = Names THEN t ELSE <<>>]
  <1>1. d \in Dests /\ name \in NameSet /\ my \in [Processes -> Locals]
    BY Naming DEF Create, Typed, PlaceOK
  <1>2. i \in Inodes /\ DevWriteAll(f) /\ my' = [my EXCEPT ![p].file = i]
    BY DEF Create
  <1>3. my'[p].file = i
    <2> HIDE DEF i
    <2>1. QED
      BY <1>1, <1>2 DEF Locals
  <1>4. /\ disk[Names] \in Tables /\ \A u \in media[Names] : u \in Tables
    BY Naming DEF Typed, DeviceOK, Content
  <1>5. \/ i = disk[Names][name]
        \/ \A u \in media[Names] : \A n \in NameSet : u[n] # i
    <2>1. CASE Named(name) # NoFile
      BY <2>1 DEF Named
    <2>2. CASE Named(name) = NoFile
      <3>1. i = NewInode /\ NewInode \in Inodes /\ NewInode # NoFile
        BY <1>2, <2>2, ImgAssumption
      <3>2. Free(NewInode)
        BY <3>1 DEF NewInode
      <3>3. \A u \in media[Names] : DOMAIN u = NameSet
        BY <1>4 DEF Tables
      <3>4. QED
        BY <3>1, <3>2, <3>3 DEF Free
    <2>3. QED
      BY <2>1, <2>2
  <1>6. t \in Tables
    BY <1>1, <1>2, <1>4, Renaming
  <1> HIDE DEF i, t
  <1>7. Inode(i) \in Loc /\ Names \in Loc /\ Inode(i) # Names
    BY <1>2, Naming
  <1>8. /\ DOMAIN f \subseteq Loc /\ f[Names] = t /\ f[Inode(i)] = <<>>
        /\ DOMAIN f = {Names, Inode(i)}
        /\ \A l \in DOMAIN f : f[l] \in Content(l)
    <2>1. <<>> \in Seq(Units)
      OBVIOUS
    <2>2. /\ DOMAIN f = {Names, Inode(i)} /\ f[Names] = t /\ f[Inode(i)] = <<>>
      BY ONLY <1>7
    <2> HIDE DEF f
    <2>3. f[Names] \in Content(Names) /\ f[Inode(i)] \in Content(Inode(i))
      BY <1>6, <1>7, <2>1, <2>2 DEF Content
    <2>4. QED
      BY <1>7, <2>2, <2>3
  <1> HIDE DEF f
  <1>9. /\ DeviceOK'
        /\ \A k \in DOMAIN f : disk'[k] = f[k] /\ media'[k] = media[k] \cup {f[k]}
        /\ \A k \in Loc \ DOMAIN f : disk'[k] = disk[k] /\ media'[k] = media[k]
    BY <1>2, <1>8, WriteAllEffect DEF Typed
  <1>10. /\ disk'[Names] = t /\ media'[Names] = media[Names] \cup {t}
         /\ disk'[Inode(i)] = <<>> /\ media'[Inode(i)] = media[Inode(i)] \cup {<<>>}
         /\ \A k \in Loc \ {Names, Inode(i)} : disk'[k] = disk[k] /\ media'[k] = media[k]
    BY <1>8, <1>9
  <1>11. t = [disk[Names] EXCEPT ![Partial(d)] = i]
    BY DEF t
  <1>12. QED
    BY ONLY <1>1, <1>2, <1>3, <1>5, <1>6, <1>9, <1>10, <1>11

\* A chunk of a copy in its place, at the position its file has reached.
LEMMA CopyIs ==
    ASSUME Typed, NEW p \in Processes, pc[p] = "copy"
    PROVE  LET file == Inode(my[p].file)
               from == my[p].at - my[p].job.offset
               v == Overlay(disk[file], from, ChunkUnitsRead(p))
           IN
           /\ file \in Loc /\ file # Names /\ from \in Nat
           /\ disk[file] \in Seq(Units) /\ v \in Content(file)
           /\ Len(disk[file]) <= from => Len(v) = from + ChunkLength(p)
           /\ \A k \in 1 .. Len(v) : v[k] =
                 IF k \in from + 1 .. from + ChunkLength(p) THEN image[my[p].at + (k - from)]
                 ELSE IF k <= Len(disk[file]) THEN disk[file][k] ELSE Zero
  <1> DEFINE file == Inode(my[p].file)
             from == my[p].at - my[p].job.offset
             u == ChunkUnitsRead(p)
             v == Overlay(disk[file], from, u)
  <1>1. file \in Loc /\ file # Names
    BY Naming DEF Typed, PlaceOK
  <1>2. /\ my[p].job \in Jobs /\ my[p].job.offset <= my[p].at /\ my[p].at \in Nat
    BY DEF Typed, PlaceOK, Locals
  <1>3. my[p].job.offset \in Nat /\ from \in Nat
    BY <1>2, JobIs
  <1>4. disk[file] \in Seq(Units)
    BY <1>1 DEF Typed, DeviceOK, Content
  <1>5. /\ u \in Seq(Units) /\ Len(u) = ChunkLength(p) /\ ChunkLength(p) \in Nat
        /\ \A k \in 1 .. ChunkLength(p) : u[k] = image[my[p].at + k]
    BY ChunkIs
  <1> DEFINE g == disk[file]
  <1>6. /\ v = Overlay(g, from, u) /\ g \in Seq(Units) /\ Len(g) \in Nat
    BY <1>4
  <1> HIDE DEF g, from, u, v
  <1>7. /\ v \in Seq(Units)
        /\ Len(g) <= from + Len(u) => Len(v) = from + Len(u)
        /\ \A k \in 1 .. Len(v) :
              v[k] = IF k \in from + 1 .. from + Len(u) THEN u[k - from]
                     ELSE IF k <= Len(g) THEN g[k] ELSE Zero
    BY <1>3, <1>5, <1>6, OverlayIs
  <1>8. v \in Content(file)
    BY <1>1, <1>7 DEF Content
  <1>9. Len(g) <= from => Len(v) = from + ChunkLength(p)
    BY <1>3, <1>5, <1>6, <1>7
  <1>10. ASSUME NEW k \in 1 .. Len(v)
         PROVE  v[k] = IF k \in from + 1 .. from + ChunkLength(p) THEN image[my[p].at + (k - from)]
                       ELSE IF k <= Len(g) THEN g[k] ELSE Zero
    <2>1. k \in from + 1 .. from + ChunkLength(p) => k - from \in 1 .. ChunkLength(p)
      BY <1>3, <1>5
    <2>2. k \in from + 1 .. from + ChunkLength(p) => u[k - from] = image[my[p].at + (k - from)]
      BY <1>5, <2>1
    <2>3. QED
      BY <1>5, <1>7, <2>2
  <1>11. QED
    BY <1>1, <1>3, <1>4, <1>8, <1>9, <1>10 DEF g, from, u, v

LEMMA SetLengthIs ==
    ASSUME Typed, NEW p \in Processes, pc[p] = "copy"
    PROVE  LET file == Inode(my[p].file)
               n == my[p].end - my[p].job.offset
               v == Resized(disk[file], n)
           IN
           /\ file \in Loc /\ file # Names /\ n \in Nat
           /\ disk[file] \in Seq(Units) /\ v \in Content(file) /\ Len(v) = n
           /\ \A k \in 1 .. n : v[k] = IF k <= Len(disk[file]) THEN disk[file][k] ELSE Zero
  <1> DEFINE file == Inode(my[p].file)
             n == my[p].end - my[p].job.offset
  <1>1. file \in Loc /\ file # Names
    BY Naming DEF Typed, PlaceOK
  <1>2. /\ my[p].job \in Jobs /\ my[p].job.offset <= my[p].at /\ my[p].at <= my[p].end
        /\ my[p].at \in Nat /\ my[p].end \in Nat
    BY DEF Typed, PlaceOK, Locals
  <1>3. n \in Nat
    BY <1>2, JobIs
  <1>4. disk[file] \in Seq(Units)
    BY <1>1 DEF Typed, DeviceOK, Content
  <1> HIDE DEF n
  <1>5. QED
    BY <1>1, <1>3, <1>4, ResizedIs DEF Content, n

\* One inode is written, or the device is left alone.
InodeStep(p) ==
    LET file == Inode(my[p].file) IN
    \/ UNCHANGED devVars
    \/ \E v \in Seq(Units) : DevWrite(file, v)

LEMMA TypedCopying ==
    ASSUME Typed, NEW p \in Processes, Copy(p) \/ SetLength(p)
    PROVE  Typed' /\ InodeStep(p)
  <1>1. /\ pc[p] = "copy" /\ image' = image /\ result' = result /\ PlaceOK(p)
        /\ UNCHANGED <<faults, kills, commands>>
        /\ pc \in [Processes -> Places] /\ my \in [Processes -> Locals]
        /\ DeviceOK
    BY DEF Copy, SetLength, Typed, budget
  <1>2. /\ Inode(my[p].file) \in Loc /\ Inode(my[p].file) # Names
    BY <1>1, Naming DEF PlaceOK
  <1>3. InodeStep(p) /\ DeviceOK'
    <2>1. CASE UNCHANGED devVars
      BY <1>1, <2>1 DEF devVars, DeviceOK, InodeStep
    <2>2. ASSUME NEW v, v \in Content(Inode(my[p].file)), DevWrite(Inode(my[p].file), v)
          PROVE  InodeStep(p) /\ DeviceOK'
      <3>1. v \in Seq(Units)
        BY <1>2, <2>2 DEF Content
      <3>2. QED
        BY <1>1, <1>2, <2>2, <3>1, WriteEffect DEF InodeStep
    <2>3. CASE Copy(p)
      BY <1>1, <2>1, <2>2, <2>3, CopyIs DEF Copy
    <2>4. CASE SetLength(p)
      BY <1>1, <2>2, <2>4, SetLengthIs DEF SetLength
    <2>5. QED
      BY <2>3, <2>4
  <1>4. CASE Copy(p)
    <2>1. /\ ChunkLength(p) \in Nat /\ my[p].at + ChunkLength(p) <= my[p].end /\ my[p].at \in Nat
      BY <1>1, ChunkIs DEF Locals
    <2>2. my' = [my EXCEPT ![p].at = @ + ChunkLength(p)] /\ pc' = pc
      BY <1>4 DEF Copy
    <2>3. /\ my' \in [Processes -> Locals] /\ my'[p].at = my[p].at + ChunkLength(p)
          /\ my'[p].job = my[p].job /\ my'[p].end = my[p].end /\ my'[p].meant = my[p].meant
          /\ my'[p].file = my[p].file
          /\ \A q \in Processes \ {p} : my'[q] = my[q]
      <3>1. my[p].at + ChunkLength(p) \in Nat
        BY <2>1
      <3>2. QED
        BY ONLY <1>1, <2>2, <3>1 DEF Locals
    <2>4. my[p].job.offset \in Nat
      BY <1>1, JobIs DEF PlaceOK
    <2>5. PlaceOK(p)'
      BY ONLY <1>1, <2>1, <2>2, <2>3, <2>4 DEF PlaceOK
    <2>6. QED
      BY <1>1, <1>3, <2>2, <2>3, <2>5, TypedFrame DEF Typed
  <1>5. CASE SetLength(p)
    <2>1. /\ my' = my /\ pc' = [pc EXCEPT ![p] = "sync"] /\ ~(my[p].at < my[p].end)
          /\ my[p].at \in Nat /\ my[p].end \in Nat
      BY <1>1, <1>5 DEF SetLength, Goto, More, Locals
    <2>2. pc' \in [Processes -> Places] /\ pc'[p] = "sync" /\ \A q \in Processes \ {p} : pc'[q] = pc[q]
      BY <1>1, <2>1 DEF Places
    <2>3. PlaceOK(p)'
      BY ONLY <1>1, <2>1, <2>2 DEF PlaceOK
    <2>4. QED
      BY <1>1, <1>3, <2>1, <2>2, <2>3, TypedFrame DEF Typed
  <1>6. QED
    BY <1>3, <1>4, <1>5

LEMMA TypedCreate ==
    ASSUME Typed, NEW p \in Processes, Create(p)
    PROVE  Typed'
  <1>1. /\ pc[p] = "create" /\ image' = image /\ result' = result /\ PlaceOK(p)
        /\ UNCHANGED <<faults, kills, commands>>
        /\ pc' = [pc EXCEPT ![p] = "copy"]
        /\ pc \in [Processes -> Places] /\ my \in [Processes -> Locals]
    BY DEF Create, Typed, Goto, budget
  <1>2. DeviceOK' /\ my'[p].file \in Inodes /\ my' = [my EXCEPT ![p].file = my'[p].file]
    BY CreateIs
  <1>3. /\ my' \in [Processes -> Locals] /\ my'[p].at = my[p].at
        /\ my'[p].job = my[p].job /\ my'[p].end = my[p].end /\ my'[p].meant = my[p].meant
        /\ \A q \in Processes \ {p} : my'[q] = my[q]
    BY ONLY <1>1, <1>2 DEF Locals
  <1>4. pc' \in [Processes -> Places] /\ pc'[p] = "copy" /\ \A q \in Processes \ {p} : pc'[q] = pc[q]
    BY ONLY <1>1 DEF Places
  <1>5. PlaceOK(p)'
    BY ONLY <1>1, <1>2, <1>3, <1>4 DEF PlaceOK
  <1>6. QED
    BY <1>1, <1>2, <1>3, <1>4, <1>5, TypedFrame DEF Typed

\* The names after a rename, and after a removal.
LEMMA RenameIs ==
    ASSUME Typed, NEW p \in Processes, pc[p] \in {"rename", "remove"}
    PROVE  LET d == my[p].job.to
               i == disk[Names][Partial(d)]
               t == [disk[Names] EXCEPT ![Whole(d)] = i, ![Partial(d)] = NoFile]
               u == [disk[Names] EXCEPT ![Partial(d)] = NoFile]
           IN
           /\ d \in Dests /\ disk[Names] \in Tables
           /\ t \in Tables /\ t[Whole(d)] = i /\ t[Partial(d)] = NoFile
           /\ \A n \in NameSet \ {Whole(d), Partial(d)} : t[n] = disk[Names][n]
           /\ u \in Tables /\ u[Partial(d)] = NoFile
           /\ \A n \in NameSet \ {Partial(d)} : u[n] = disk[Names][n]
  <1> DEFINE d == my[p].job.to
             names == disk[Names]
  <1>1. d \in Dests
    BY DEF Typed, PlaceOK
  <1>2. names \in Tables
    BY Naming DEF Typed, DeviceOK, Content
  <1>3. Whole(d) \in NameSet /\ Partial(d) \in NameSet /\ Whole(d) # Partial(d)
    BY <1>1, Naming
  <1> HIDE DEF names, d
  <1>4. QED
    BY <1>1, <1>2, <1>3 DEF Tables, names, d

LEMMA TypedNaming ==
    ASSUME Typed, NEW p \in Processes, Rename(p) \/ Remove(p)
    PROVE  Typed'
  <1>1. /\ pc[p] \in {"rename", "remove"} /\ image' = image /\ my' = my
        /\ UNCHANGED <<faults, kills, commands>>
        /\ pc' = [pc EXCEPT ![p] = "idle"]
        /\ \E r \in {"ok", "failed"} : result' = [result EXCEPT ![p] = r]
        /\ pc \in [Processes -> Places] /\ my \in [Processes -> Locals]
        /\ result \in [Processes -> Results] /\ DeviceOK
    BY DEF Rename, Remove, Return, Goto, Typed, budget
  <1>2. DeviceOK'
    <2>1. CASE UNCHANGED devVars
      BY <1>1, <2>1 DEF devVars, DeviceOK
    <2>2. ASSUME NEW t \in Tables, DevWrite(Names, t) PROVE DeviceOK'
      <3>1. Names \in Loc /\ t \in Content(Names)
        BY Naming DEF Content
      <3>2. QED
        BY <1>1, <2>2, <3>1, WriteEffect
    <2>3. CASE Remove(p)
      BY <1>1, <2>2, <2>3, RenameIs DEF Remove
    <2>4. CASE Rename(p)
      BY <1>1, <2>1, <2>2, <2>4, RenameIs DEF Rename, Named
    <2>5. QED
      BY <2>3, <2>4
  <1>3. /\ pc' \in [Processes -> Places] /\ result' \in [Processes -> Results] /\ pc'[p] = "idle"
        /\ \A q \in Processes \ {p} : pc'[q] = pc[q] /\ result'[q] = result[q]
    BY <1>1 DEF Places, Results
  <1>4. PlaceOK(p)'
    BY <1>3 DEF PlaceOK
  <1>5. QED
    BY <1>1, <1>2, <1>3, <1>4, TypedFrame DEF Typed

\* The disk with the next chunk of a write: its length is what it was, and
\* the chunk is in its place.
LEMMA PutIs ==
    ASSUME Typed, NEW p \in Processes, pc[p] = "put"
    PROVE  /\ my[p].at + ChunkLength(p) <= Len(image)
           /\ AfterPut(p) \in Seq(Units) /\ Len(AfterPut(p)) = Len(image)
           /\ \A k \in 1 .. Len(image) : AfterPut(p)[k] =
                 IF k \in my[p].at + 1 .. my[p].at + ChunkLength(p)
                 THEN my[p].job.input[k - my[p].job.offset] ELSE image[k]
  <1> DEFINE job == my[p].job
             at == my[p].at
             from == at - job.offset
             n == ChunkLength(p)
             u == SubSeq(job.input, from + 1, from + n)
  <1>1. /\ job \in Jobs /\ job.verb = "write" /\ my[p].end = job.offset + Takes(job)
        /\ job.offset <= at /\ my[p].end <= Len(image) /\ at \in Nat /\ my[p].end \in Nat
        /\ image \in Seq(Units)
    BY DEF Typed, PlaceOK, Locals
  <1>2. /\ job.offset \in Nat /\ job.input \in Seq(Units) /\ Takes(job) \in Nat
        /\ Takes(job) <= Len(job.input) /\ Len(job.input) \in Nat
    BY <1>1, JobIs
  <1>3. n \in Nat /\ at + n <= my[p].end /\ Len(image) \in Nat
    BY ChunkIs
  <1> DEFINE m == from + n
  <1>4. from \in Nat /\ m \in Nat /\ from <= m /\ m <= Len(job.input) /\ m - from = n
    <2> DEFINE takes == Takes(job)
               o == job.offset
               end == my[p].end
               length == Len(job.input)
    <2>1. /\ at \in Nat /\ o \in Nat /\ n \in Nat /\ takes \in Nat /\ length \in Nat
          /\ o <= at /\ end = o + takes /\ at + n <= end /\ takes <= length
      BY <1>1, <1>2, <1>3
    <2>2. from = at - o /\ m = from + n
      OBVIOUS
    <2> HIDE DEF at, n, from, m, takes, o, end, length
    <2>3. from \in Nat /\ m \in Nat /\ from <= m /\ m <= length /\ m - from = n
      BY ONLY <2>1, <2>2
    <2>4. QED
      BY <2>3 DEF length
  <1>5. at + n <= Len(image)
    BY <1>1, <1>3
  <1>6. AfterPut(p) = Overlay(image, at, u)
    BY DEF AfterPut
  <1>7. /\ u \in Seq(Units) /\ Len(u) = n /\ \A k \in 1 .. n : u[k] = job.input[from + k]
    <2> HIDE DEF from, n, job
    <2>1. /\ SubSeq(job.input, from + 1, m) \in Seq(Units)
          /\ Len(SubSeq(job.input, from + 1, m)) = m - from
          /\ \A k \in 1 .. m - from : SubSeq(job.input, from + 1, m)[k] = job.input[from + k]
      <3> HIDE DEF m
      <3>1. QED
        BY <1>2, <1>4, PartIs
    <2>2. QED
      BY <1>4, <2>1
  <1> HIDE DEF u, n, at, from, m, job
  <1>8. /\ Overlay(image, at, u) \in Seq(Units)
        /\ Len(image) <= at + Len(u) => Len(Overlay(image, at, u)) = at + Len(u)
        /\ Len(image) > at + Len(u) => Len(Overlay(image, at, u)) = Len(image)
        /\ \A k \in 1 .. Len(Overlay(image, at, u)) :
              Overlay(image, at, u)[k] = IF k \in at + 1 .. at + Len(u) THEN u[k - at]
                                         ELSE IF k <= Len(image) THEN image[k] ELSE Zero
    BY <1>1, <1>7, OverlayIs
  <1>9. Len(Overlay(image, at, u)) = Len(image)
    BY <1>1, <1>3, <1>5, <1>7, <1>8
  <1>10. ASSUME NEW k \in at + 1 .. at + n
         PROVE  u[k - at] = job.input[k - job.offset]
    <2>1. k - at \in 1 .. n /\ from + (k - at) = k - job.offset
      BY <1>1, <1>2, <1>3 DEF from
    <2>2. QED
      BY <1>7, <2>1
  <1>11. \A k \in 1 .. Len(image) : Overlay(image, at, u)[k] =
            IF k \in at + 1 .. at + n THEN job.input[k - job.offset] ELSE image[k]
    BY <1>3, <1>7, <1>8, <1>9, <1>10
  <1>12. QED
    BY <1>5, <1>6, <1>8, <1>9, <1>11 DEF at, n, job

LEMMA TypedPut ==
    ASSUME Typed, NEW p \in Processes, Put(p)
    PROVE  Typed'
  <1>1. /\ pc[p] = "put" /\ PlaceOK(p) /\ DeviceOK /\ UNCHANGED <<disk, media, result, faults, kills, commands>>
        /\ pc \in [Processes -> Places] /\ my \in [Processes -> Locals]
    BY PutIs DEF Put, Typed, devVars, budget
  <1>2. /\ image' = AfterPut(p) /\ my' = [my EXCEPT ![p].at = @ + ChunkLength(p)] /\ pc' = pc
    BY <1>1, PutIs DEF Put
  <1>3. image' \in Seq(Units) /\ Len(image') = Len(image)
    BY <1>1, <1>2, PutIs
  <1>4. /\ ChunkLength(p) \in Nat /\ my[p].at + ChunkLength(p) <= my[p].end
        /\ my[p].at + ChunkLength(p) \in Nat /\ my[p].at \in Nat
    BY <1>1, ChunkIs DEF Locals
  <1>5. my[p].job.offset \in Nat
    BY <1>1, JobIs DEF PlaceOK
  <1>6. /\ my' \in [Processes -> Locals] /\ my'[p].at = my[p].at + ChunkLength(p)
        /\ my'[p].job = my[p].job /\ my'[p].end = my[p].end /\ my'[p].meant = my[p].meant
        /\ my'[p].file = my[p].file
        /\ \A q \in Processes \ {p} : my'[q] = my[q]
    BY ONLY <1>1, <1>2, <1>4 DEF Locals
  <1>7. PlaceOK(p)'
    BY ONLY <1>1, <1>2, <1>3, <1>4, <1>5, <1>6 DEF PlaceOK
  <1>8. DeviceOK'
    BY <1>1 DEF DeviceOK
  <1>9. QED
    BY <1>1, <1>2, <1>3, <1>6, <1>7, <1>8, TypedFrame DEF Typed

LEMMA TypedFails ==
    ASSUME Typed, NEW p \in Processes, Fails(p)
    PROVE  Typed'
  <1>1. /\ PlaceOK(p) /\ DeviceOK /\ image \in Seq(Units) /\ my' = my
        /\ UNCHANGED <<kills, commands>> /\ kills \in Nat /\ commands \in Nat
        /\ faults \in Nat /\ faults > 0 /\ faults' = faults - 1
        /\ pc \in [Processes -> Places] /\ my \in [Processes -> Locals]
        /\ result \in [Processes -> Results]
    BY DEF Fails, Typed
  <1>2. faults' \in Nat
    BY ONLY <1>1
  <1>3. UNCHANGED devVars => DeviceOK'
    BY <1>1 DEF devVars, DeviceOK
  <1>4. CASE pc[p] = "copy" /\ More(p) /\ Goto(p, "remove")
    <2>1. /\ image' = image /\ result' = result /\ pc' = [pc EXCEPT ![p] = "remove"]
          /\ UNCHANGED devVars
             \/ DevWrite(Inode(my[p].file),
                         Overlay(disk[Inode(my[p].file)], my[p].at - my[p].job.offset, ChunkUnitsRead(p)))
      BY <1>1, <1>4 DEF Fails, Goto, DevWriteFails
    <2>2. DeviceOK'
      BY <1>1, <1>3, <1>4, <2>1, CopyIs, WriteEffect
    <2>3. /\ pc' \in [Processes -> Places] /\ pc'[p] = "remove"
          /\ \A q \in Processes \ {p} : pc'[q] = pc[q]
      BY <1>1, <2>1 DEF Places
    <2>4. PlaceOK(p)'
      BY ONLY <1>1, <1>4, <2>1, <2>3 DEF PlaceOK
    <2>5. QED
      BY <1>1, <1>2, <2>1, <2>2, <2>3, <2>4, TypedFrame
  <1>5. CASE /\ pc[p] \in {"create", "sync", "copy"} /\ UNCHANGED <<devVars, image, result>>
             /\ Goto(p, "remove")
    <2>1. /\ pc' \in [Processes -> Places] /\ pc'[p] = "remove"
          /\ \A q \in Processes \ {p} : pc'[q] = pc[q]
      BY <1>1, <1>5 DEF Places, Goto
    <2>2. PlaceOK(p)'
      BY ONLY <1>1, <1>5, <2>1 DEF PlaceOK
    <2>3. QED
      BY <1>1, <1>2, <1>3, <1>5, <2>1, <2>2, TypedFrame
  <1>6. CASE /\ UNCHANGED devVars /\ Return(p, "failed")
             /\ image' \in {image} \cup (IF pc[p] = "put" /\ More(p) THEN {AfterPut(p)} ELSE {})
    <2>1. image' \in Seq(Units) /\ Len(image') = Len(image)
      BY <1>1, <1>6, PutIs
    <2>2. /\ pc' \in [Processes -> Places] /\ result' \in [Processes -> Results] /\ pc'[p] = "idle"
          /\ \A q \in Processes \ {p} : pc'[q] = pc[q] /\ result'[q] = result[q]
      BY <1>1, <1>6 DEF Places, Results, Return, Goto
    <2>3. PlaceOK(p)'
      BY <2>2 DEF PlaceOK
    <2>4. QED
      BY <1>1, <1>2, <1>3, <1>6, <2>1, <2>2, <2>3, TypedFrame
  <1>7. QED
    BY <1>4, <1>5, <1>6 DEF Fails

LEMMA TypedWriteBack ==
    ASSUME Typed, WriteBack
    PROVE  Typed'
  <1>1. DeviceOK' /\ UNCHANGED <<image, pc, my, result, budget, outputs>>
    BY FlushEffect DEF WriteBack, Typed
  <1>2. QED
    BY <1>1 DEF Typed, PlaceOK, budget

LEMMA TypedCrash ==
    ASSUME Typed, Crash
    PROVE  Typed'
  <1>1. DeviceOK'
    BY CrashEffect DEF Crash, Typed
  <1>2. kills \in Nat /\ kills > 0 /\ kills' = kills - 1
    BY DEF Crash, Typed
  <1>3. kills' \in Nat
    BY ONLY <1>2
  <1>4. /\ pc' = [p \in Processes |-> "idle"] /\ result' = [p \in Processes |-> "killed"]
        /\ UNCHANGED <<image, my, faults, commands>>
    BY DEF Crash
  <1>5. QED
    BY <1>1, <1>3, <1>4 DEF Typed, PlaceOK, Places, Results

LEMMA TypedNext == Typed /\ [Next]_vars => Typed'
  <1> SUFFICES ASSUME Typed, [Next]_vars PROVE Typed'
    OBVIOUS
  <1>1. CASE UNCHANGED vars
    BY <1>1 DEF vars, budget, Typed, PlaceOK, DeviceOK
  <1>2. ASSUME NEW p \in Processes, (\E job \in Jobs : Start(p, job)) \/ Step(p) PROVE Typed'
    BY <1>2, TypedQuiet, TypedCheck, TypedCreate, TypedCopying, TypedNaming, TypedPut, TypedFails
       DEF Step
  <1>3. QED
    BY <1>1, <1>2, TypedWriteBack, TypedCrash DEF Next

LEMMA TypedImplies == Typed => TypeOK /\ NothingRefusedLate
  <1> SUFFICES ASSUME Typed PROVE TypeOK /\ NothingRefusedLate
    OBVIOUS
  <1>1. Locations = Loc
    BY DEF Typed, DeviceOK, Locations
  <1>2. \A t \in media[Names] : \A n \in DOMAIN t : t[n] \in Inodes \cup {NoFile}
    BY Naming DEF Typed, DeviceOK, Content, Tables
  <1>3. QED
    BY <1>1, <1>2 DEF TypeOK, NothingRefusedLate, Typed, DeviceOK, PlaceOK, Loc, Running, Results

\* The device holds one table of names and one file for every inode, no name
\* stands for a file that is none, and a command that has FILE.partial open
\* has it, for any number of processes and any command lines.
THEOREM TypeCorrect == Spec => []TypeOK
  <1>1. Spec => []Typed
    BY TypedInit, TypedNext, PTL DEF Spec
  <1>2. QED
    BY <1>1, TypedImplies, PTL

\* No write is refused once its first chunk is written: the length it counts on
\* is the one it checked, whatever becomes of the input file, and no process
\* running at the same time changes the size of the disk.
THEOREM NothingIsRefusedLate == Spec => []NothingRefusedLate
  <1>1. Spec => []Typed
    BY TypedInit, TypedNext, PTL DEF Spec
  <1>2. QED
    BY <1>1, TypedImplies, PTL

-----------------------------------------------------------------------------
(* Commands run apart *)

\* No two commands that touch one file, or one of which writes the image, run at once.
Separate == \A p, q \in Running : p # q => ~Conflict(my[p].job, my[q].job)

\* A step of p is about p.
LEMMA Locality ==
    ASSUME Typed, NEW p \in Processes, (\E job \in Jobs : Start(p, job)) \/ Step(p)
    PROVE  \A q \in Processes \ {p} : pc'[q] = pc[q] /\ my'[q] = my[q] /\ result'[q] = result[q]
  <1>1. /\ pc \in [Processes -> Places] /\ my \in [Processes -> Locals]
        /\ result \in [Processes -> Results]
    BY DEF Typed
  <1>2. \A to, how : /\ Goto(p, to) => \A q \in Processes \ {p} : pc'[q] = pc[q]
                     /\ Return(p, how) => \A q \in Processes \ {p} :
                                             pc'[q] = pc[q] /\ result'[q] = result[q]
    BY <1>1 DEF Goto, Return
  <1>3. ASSUME NEW job \in Jobs, Start(p, job)
        PROVE  \A q \in Processes \ {p} : pc'[q] = pc[q] /\ my'[q] = my[q] /\ result'[q] = result[q]
    BY <1>1, <1>2, <1>3 DEF Start
  <1>4. CASE Check(p)
    BY <1>1, <1>2, <1>4 DEF Check
  <1>5. CASE Emit(p) \/ EmitDone(p) \/ PipeCloses(p) \/ EmitFails(p)
    BY <1>1, <1>2, <1>5 DEF Emit, EmitDone, PipeCloses, EmitFails, EmitStops
  <1>6. CASE Create(p)
    BY <1>1, <1>2, <1>6 DEF Create
  <1>7. CASE Copy(p) \/ SetLength(p) \/ Sync(p)
    BY <1>1, <1>2, <1>7 DEF Copy, SetLength, Sync
  <1>8. CASE Rename(p) \/ Remove(p)
    BY <1>1, <1>2, <1>8 DEF Rename, Remove
  <1>9. CASE Put(p) \/ PutDone(p)
    BY <1>1, <1>2, <1>9 DEF Put, PutDone
  <1>10. CASE Fails(p) \/ Killed(p)
    BY <1>1, <1>2, <1>10 DEF Fails, Killed
  <1>11. QED
    BY <1>3, <1>4, <1>5, <1>6, <1>7, <1>8, <1>9, <1>10 DEF Step

LEMMA StepKeepsJob ==
    ASSUME Typed, NEW p \in Processes, Step(p)
    PROVE  pc[p] # "idle" /\ my'[p].job = my[p].job
  <1>1. my \in [Processes -> Locals]
    BY DEF Typed
  <1>2. CASE Check(p)
    <2>1. CASE UNCHANGED my
      BY <1>2, <2>1 DEF Check
    <2>2. CASE ~UNCHANGED my
      BY <1>1, <1>2, <2>2 DEF Check, Locals
    <2>3. QED
      BY <2>1, <2>2
  <1>3. CASE Emit(p) \/ EmitDone(p) \/ PipeCloses(p) \/ EmitFails(p)
    BY <1>1, <1>3 DEF Emit, EmitDone, PipeCloses, EmitFails, EmitStops, Locals
  <1>4. CASE Create(p)
    BY <1>1, <1>4 DEF Create, Locals
  <1>5. CASE Copy(p) \/ SetLength(p) \/ Sync(p) \/ Rename(p) \/ Remove(p)
    BY <1>1, <1>5 DEF Copy, SetLength, Sync, Rename, Remove, Locals
  <1>6. CASE Put(p) \/ PutDone(p)
    BY <1>1, <1>6 DEF Put, PutDone, Locals
  <1>7. CASE Fails(p) \/ Killed(p)
    BY <1>1, <1>7 DEF Fails, Killed, Running
  <1>8. QED
    BY <1>2, <1>3, <1>4, <1>5, <1>6, <1>7 DEF Step

LEMMA SeparateNext ==
    ASSUME Typed, Exclusive, Separate, [Next]_vars
    PROVE  Separate'
  <1>1. CASE UNCHANGED vars
    BY <1>1 DEF vars, Separate, Running
  <1>2. CASE WriteBack
    BY <1>2 DEF WriteBack, Separate, Running
  <1>3. CASE Crash
    BY <1>3 DEF Crash, Separate, Running
  <1>4. ASSUME NEW p \in Processes, NEW job \in Jobs, Start(p, job) PROVE Separate'
    <2>1. \A q \in Processes \ {p} : pc'[q] = pc[q] /\ my'[q] = my[q]
      BY <1>4, Locality
    <2>2. my'[p].job = job
      BY <1>4, IdleIsTyped DEF Start, Typed
    <2>3. \A q \in Running : ~Conflict(my[q].job, job) /\ ~Conflict(job, my[q].job)
      BY <1>4 DEF Start, Conflict
    <2>4. QED
      BY <2>1, <2>2, <2>3 DEF Separate, Running
  <1>5. ASSUME NEW p \in Processes, Step(p) PROVE Separate'
    <2>1. \A q \in Processes \ {p} : pc'[q] = pc[q] /\ my'[q] = my[q]
      BY <1>5, Locality
    <2>2. p \in Running /\ my'[p].job = my[p].job
      BY <1>5, StepKeepsJob DEF Running
    <2>3. Running' \subseteq Running /\ \A q \in Running : my'[q].job = my[q].job
      BY <2>1, <2>2 DEF Running
    <2>4. QED
      BY <2>3 DEF Separate
  <1>6. QED
    BY <1>1, <1>2, <1>3, <1>4, <1>5 DEF Next

\* While a command runs, no other changes the image.
LEMMA ImageStays ==
    ASSUME Typed, Separate, NEW p \in Running, NEW q \in Processes \ {p},
           (\E job \in Jobs : Start(q, job)) \/ Step(q)
    PROVE  image' = image
  <1>1. pc[q] = "put" => q \in Running /\ my[q].job.verb = "write"
    BY DEF Typed, PlaceOK, Running
  <1>2. pc[q] # "put"
    BY <1>1 DEF Separate, Conflict
  <1>3. CASE \E job \in Jobs : Start(q, job)
    BY <1>3 DEF Start
  <1>4. CASE Fails(q)
    BY <1>2, <1>4 DEF Fails
  <1>5. CASE Put(q)
    BY <1>2, <1>5 DEF Put
  <1>6. CASE Check(q) \/ Emit(q) \/ EmitDone(q) \/ PipeCloses(q) \/ EmitFails(q) \/ PutDone(q) \/ Killed(q)
    BY <1>6 DEF Check, Emit, EmitDone, PipeCloses, EmitFails, EmitStops, PutDone, Killed
  <1>7. CASE Create(q) \/ Copy(q) \/ SetLength(q) \/ Sync(q) \/ Rename(q) \/ Remove(q)
    BY <1>7 DEF Create, Copy, SetLength, Sync, Rename, Remove
  <1>8. QED
    BY <1>3, <1>4, <1>5, <1>6, <1>7 DEF Step

-----------------------------------------------------------------------------
(* What is read is what the image holds; what is written gets there *)

Aimed(p) ==
    LET job == my[p].job
        meant == my[p].meant
    IN
    /\ pc[p] \in {"emit", "create", "copy"} =>
          \A k \in 1 .. Len(meant) : meant[k] = image[job.offset + k]
    /\ pc[p] = "put" =>
          \A k \in 1 .. Len(image) :
             meant[k] = IF k \in my[p].at + 1 .. my[p].end THEN job.input[k - job.offset]
                        ELSE image[k]

LEMMA AimedNext ==
    ASSUME Typed, Separate, [Next]_vars, \A p \in Processes : Aimed(p)
    PROVE  \A p \in Processes : Aimed(p)'
  <1>1. CASE UNCHANGED vars
    BY <1>1 DEF vars, Aimed
  <1>2. CASE WriteBack
    BY <1>2 DEF WriteBack, Aimed
  <1>3. CASE Crash
    BY <1>3 DEF Crash, Aimed
  <1>4. ASSUME NEW q \in Processes, (\E job \in Jobs : Start(q, job)) \/ Step(q),
               NEW p \in Processes \ {q}
        PROVE  Aimed(p)'
    <2>1. pc'[p] = pc[p] /\ my'[p] = my[p] /\ Aimed(p)
      BY <1>4, Locality
    <2>2. p \in Running => image' = image
      BY <1>4, ImageStays DEF Running
    <2>3. QED
      BY <2>1, <2>2 DEF Aimed, Running
  <1>5. ASSUME NEW p \in Processes, (\E job \in Jobs : Start(p, job)) \/ Step(p)
        PROVE  Aimed(p)'
    <2> USE DEF Typed, Goto, Return
    <2>1. CASE \E job \in Jobs : Start(p, job)
      BY <2>1 DEF Start, Aimed
    <2>2. CASE Check(p)
      <3>1. CASE pc'[p] = "idle"
        BY <3>1 DEF Aimed
      <3>2. CASE pc'[p] # "idle"
        <4>1. image' = image /\ pc[p] = "open"
          BY <2>2 DEF Check
        <4>2. /\ my'[p].job = my[p].job /\ my'[p].at = my[p].job.offset
              /\ pc'[p] = "put" =>
                    \A k \in 1 .. Len(image) : my'[p].meant[k] =
                       IF k \in my[p].job.offset + 1 .. my'[p].end
                       THEN my[p].job.input[k - my[p].job.offset] ELSE image[k]
              /\ pc'[p] # "put" =>
                    /\ Len(my'[p].meant) = my'[p].end - my[p].job.offset
                    /\ \A k \in 1 .. my'[p].end - my[p].job.offset :
                          my'[p].meant[k] = image[my[p].job.offset + k]
          BY <2>2, <3>2, CheckIs
        <4>3. QED
          BY ONLY <4>1, <4>2 DEF Aimed
      <3>3. QED
        BY <3>1, <3>2
    <2>3. CASE Emit(p) \/ Copy(p)
      <3>1. /\ pc' = pc /\ pc[p] \in {"emit", "copy"} /\ image' = image
            /\ my'[p].job = my[p].job /\ my'[p].meant = my[p].meant
        BY <2>3 DEF Emit, Copy, Locals
      <3>2. QED
        BY <3>1 DEF Aimed
    <2>4. CASE Create(p)
      <3>1. /\ pc[p] = "create" /\ image' = image /\ pc'[p] = "copy"
            /\ my'[p].job = my[p].job /\ my'[p].meant = my[p].meant
        BY <2>4 DEF Create, Locals
      <3>2. QED
        BY <3>1 DEF Aimed
    <2>5. CASE Put(p)
      <3>1. /\ pc[p] = "put" /\ pc' = pc /\ image' = AfterPut(p)
            /\ my' = [my EXCEPT ![p].at = @ + ChunkLength(p)]
        BY <2>5, PutIs DEF Put
      <3>2. /\ my'[p].job = my[p].job /\ my'[p].meant = my[p].meant /\ my'[p].end = my[p].end
            /\ my'[p].at = my[p].at + ChunkLength(p)
        BY <3>1 DEF Locals
      <3>3. /\ ChunkLength(p) \in Nat /\ my[p].at + ChunkLength(p) <= my[p].end
            /\ my[p].at \in Nat /\ my[p].end \in Nat /\ Len(image) \in Nat
        BY <3>1, ChunkIs DEF Locals
      <3>4. /\ Len(image') = Len(image)
            /\ \A k \in 1 .. Len(image) : image'[k] =
                  IF k \in my[p].at + 1 .. my[p].at + ChunkLength(p)
                  THEN my[p].job.input[k - my[p].job.offset] ELSE image[k]
        BY <3>1, PutIs
      <3>5. Aimed(p)
        OBVIOUS
      <3>6. QED
        BY ONLY <3>1, <3>2, <3>3, <3>4, <3>5 DEF Aimed
    <2>6. CASE ~(Emit(p) \/ Copy(p) \/ Check(p) \/ Create(p) \/ Put(p))
      <3>1. CASE \/ EmitDone(p) \/ PipeCloses(p) \/ EmitFails(p) \/ PutDone(p) \/ Killed(p)
                 \/ Rename(p) \/ Remove(p)
        <4>1. pc'[p] = "idle"
          BY <3>1 DEF EmitDone, PipeCloses, EmitFails, EmitStops, PutDone, Killed, Rename, Remove
        <4>2. QED
          BY <4>1 DEF Aimed
      <3>2. CASE SetLength(p) \/ Sync(p)
        <4>1. pc'[p] \in {"sync", "rename"}
          BY <3>2 DEF SetLength, Sync
        <4>2. QED
          BY <4>1 DEF Aimed
      <3>3. CASE Fails(p)
        <4>1. pc'[p] \in {"idle", "remove"}
          BY <3>3 DEF Fails
        <4>2. QED
          BY <4>1 DEF Aimed
      <3>4. QED
        BY <1>5, <2>1, <2>6, <3>1, <3>2, <3>3 DEF Step
    <2>7. QED
      BY <1>5, <2>1, <2>2, <2>3, <2>4, <2>5, <2>6
  <1>6. QED
    BY <1>1, <1>2, <1>3, <1>4, <1>5 DEF Next

\* What stdout has is how far the command has come into the range.
Streamed(p) ==
    LET job == my[p].job
        out == my[p].out
        meant == my[p].meant
    IN
    job.to = Stdout /\ job.verb = "read" =>
        /\ Len(out) <= Len(meant) /\ \A k \in 1 .. Len(out) : out[k] = meant[k]
        /\ result[p] = "ok" => out = meant
        /\ pc[p] = "open" => out = <<>>
        /\ pc[p] = "emit" => Len(out) = my[p].at - job.offset

\* The first n units of the next chunk, put after what stdout has.
LEMMA EmitIs ==
    ASSUME Typed, NEW p \in Processes, pc[p] = "emit", Aimed(p), Streamed(p),
           NEW n \in 0 .. ChunkLength(p)
    PROVE  LET out == my[p].out \o SubSeq(ChunkUnitsRead(p), 1, n)
               meant == my[p].meant
           IN
           /\ out \in Seq(Units) /\ Len(out) = my[p].at - my[p].job.offset + n
           /\ Len(out) <= Len(meant) /\ \A k \in 1 .. Len(out) : out[k] = meant[k]
  <1> DEFINE u == SubSeq(ChunkUnitsRead(p), 0 + 1, n)
             old == my[p].out
             out == old \o u
             meant == my[p].meant
             at == my[p].at
             o == my[p].job.offset
             end == my[p].end
             length == ChunkLength(p)
  <1>1. /\ my[p].job \in Jobs /\ my[p].job.verb = "read" /\ my[p].job.to = Stdout
        /\ o <= at /\ at <= end /\ end <= Len(image) /\ Len(meant) = end - o
        /\ at \in Nat /\ end \in Nat /\ old \in Seq(Units) /\ meant \in Seq(Units)
    BY DEF Typed, PlaceOK, Locals
  <1>2. o \in Nat
    BY <1>1, JobIs
  <1>3. /\ length \in Nat /\ at + length <= end /\ ChunkUnitsRead(p) \in Seq(Units)
        /\ Len(ChunkUnitsRead(p)) = length
        /\ \A k \in 1 .. length : ChunkUnitsRead(p)[k] = image[at + k]
    BY ChunkIs
  <1>4. /\ Len(old) = at - o /\ \A k \in 1 .. Len(old) : old[k] = meant[k]
        /\ \A k \in 1 .. Len(meant) : meant[k] = image[o + k]
    BY <1>1 DEF Streamed, Aimed
  <1>5. u \in Seq(Units) /\ Len(u) = n /\ \A k \in 1 .. n : u[k] = image[at + k]
    <2>1. n \in Nat /\ n <= length /\ n - 0 = n /\ \A k \in 1 .. n : 0 + k = k /\ k \in 1 .. length
      BY <1>3
    <2> HIDE DEF length
    <2>2. u \in Seq(Units) /\ Len(u) = n - 0 /\ \A k \in 1 .. n - 0 : u[k] = ChunkUnitsRead(p)[0 + k]
      BY <1>3, <2>1, PartIs
    <2>3. QED
      BY <1>3, <2>1, <2>2
  <1>6. SubSeq(ChunkUnitsRead(p), 1, n) = u
    OBVIOUS
  <1> HIDE DEF u, old, meant, at, o, end, length
  <1>7. /\ out \in Seq(Units) /\ Len(out) = Len(old) + n
        /\ \A k \in 1 .. Len(out) : out[k] = IF k <= Len(old) THEN old[k] ELSE u[k - Len(old)]
    <2>1. old \in Seq(Units) /\ u \in Seq(Units) /\ Len(u) = n
      BY <1>1, <1>5
    <2>2. /\ old \o u \in Seq(Units) /\ Len(old \o u) = Len(old) + Len(u)
          /\ \A k \in 1 .. Len(old) + Len(u) :
                (old \o u)[k] = IF k <= Len(old) THEN old[k] ELSE u[k - Len(old)]
      BY ONLY <2>1, ConcatProperties
    <2>3. QED
      BY ONLY <2>1, <2>2
  <1> HIDE DEF out
  <1>8. n \in Nat /\ n <= length /\ Len(out) = at - o + n /\ Len(out) <= Len(meant)
    BY <1>1, <1>2, <1>3, <1>4, <1>7 DEF length
  <1>9. ASSUME NEW k \in 1 .. Len(out) PROVE out[k] = meant[k]
    <2>1. k \in 1 .. Len(meant)
      BY <1>1, <1>7, <1>8
    <2>2. CASE k <= Len(old)
      BY <1>1, <1>4, <1>7, <2>2
    <2>3. CASE k > Len(old)
      <3>1. k - Len(old) \in 1 .. n /\ at + (k - Len(old)) = o + k
        BY <1>1, <1>2, <1>4, <1>8, <2>3
      <3>2. out[k] = u[k - Len(old)] /\ ~(k <= Len(old))
        BY <1>1, <1>7, <2>3
      <3>3. QED
        BY <1>4, <1>5, <2>1, <3>1, <3>2
    <2>4. QED
      BY <1>1, <2>2, <2>3
  <1>10. QED
    BY <1>6, <1>7, <1>8, <1>9 DEF out, old, meant, at, o

LEMMA StreamedNext ==
    ASSUME Typed, [Next]_vars, \A p \in Processes : Aimed(p) /\ Streamed(p)
    PROVE  \A p \in Processes : Streamed(p)'
  <1>1. CASE UNCHANGED vars
    BY <1>1 DEF vars, Streamed
  <1>2. CASE WriteBack
    BY <1>2 DEF WriteBack, Streamed
  <1>3. CASE Crash
    BY <1>3 DEF Crash, Streamed
  <1>4. ASSUME NEW q \in Processes, (\E job \in Jobs : Start(q, job)) \/ Step(q),
               NEW p \in Processes \ {q}
        PROVE  Streamed(p)'
    BY <1>4, Locality DEF Streamed
  <1>5. ASSUME NEW p \in Processes, NEW job \in Jobs, Start(p, job)
        PROVE  Streamed(p)'
    <2>1. /\ my'[p] = [Idle EXCEPT !.job = job]
          /\ pc'[p] \in {"idle", "open"} /\ result'[p] \in {"refused", "none"}
      BY <1>5 DEF Start, Typed, Return, Goto
    <2>2. my'[p].out = <<>> /\ my'[p].meant = <<>>
      BY <2>1 DEF Idle
    <2>3. QED
      BY ONLY <2>1, <2>2 DEF Streamed
  <1>6. ASSUME NEW p \in Processes, Step(p)
        PROVE  Streamed(p)'
    <2> SUFFICES ASSUME my'[p].job.to = Stdout, my'[p].job.verb = "read" PROVE Streamed(p)'
      BY DEF Streamed
    <2>1. /\ pc[p] # "idle" /\ my'[p].job = my[p].job /\ PlaceOK(p) /\ Streamed(p) /\ Aimed(p)
          /\ my[p].job.to = Stdout /\ my[p].job.verb = "read" /\ my \in [Processes -> Locals]
          /\ result[p] = "none"
      BY <1>6, StepKeepsJob DEF Typed, PlaceOK
    <2>2. pc[p] \in {"open", "emit"}
      BY <2>1, ImgAssumption DEF PlaceOK, Typed, Places
    <2>3. CASE Check(p)
      <3>1. CASE pc'[p] # "idle"
        <4>1. /\ my'[p].out = my[p].out /\ my'[p].at = my[p].job.offset
              /\ my'[p].meant \in Seq(Units) /\ my[p].job.offset \in Nat /\ pc[p] = "open"
          BY <2>1, <2>3, <3>1, CheckIs DEF Check, Locals
        <4>2. pc'[p] # "open" /\ result' = result
          BY <2>1, <2>3, <3>1 DEF Check, Return, Goto, Typed
        <4>3. my'[p].out = <<>> /\ Len(<<>>) = 0 /\ Len(my'[p].meant) \in Nat
          BY <2>1, <4>1 DEF Streamed
        <4>4. QED
          BY <2>1, <4>1, <4>2, <4>3 DEF Streamed
      <3>2. CASE pc'[p] = "idle"
        <4>1. my' = my /\ result'[p] = "refused"
          <5>1. CASE UNCHANGED my
            BY <2>1, <2>3, <3>2, <5>1 DEF Check, Return, Goto, Typed
          <5>2. CASE ~UNCHANGED my
            <6>1. pc'[p] # "idle"
              BY <2>1, <2>3, <5>2 DEF Check, Goto, Typed
            <6>2. QED
              BY <3>2, <6>1
          <5>3. QED
            BY <5>1, <5>2
        <4>2. QED
          BY <2>1, <3>2, <4>1 DEF Streamed
      <3>3. QED
        BY <3>1, <3>2
    <2>4. CASE Emit(p)
      <3> DEFINE n == ChunkLength(p)
      <3>1. /\ pc[p] = "emit" /\ pc' = pc /\ result' = result
            /\ my' = [my EXCEPT ![p].at = @ + n, ![p].out = @ \o ChunkUnitsRead(p)]
        BY <2>4 DEF Emit
      <3>2. /\ n \in Nat /\ ChunkUnitsRead(p) \in Seq(Units) /\ Len(ChunkUnitsRead(p)) = n
        BY <3>1, ChunkIs
      <3>3. SubSeq(ChunkUnitsRead(p), 1, n) = ChunkUnitsRead(p)
        <4>1. SubSeq(ChunkUnitsRead(p), 0 + 1, n) = ChunkUnitsRead(p)
          <5>1. 0 \in Nat /\ 0 <= n /\ n <= Len(ChunkUnitsRead(p)) /\ n - 0 = n
            BY <3>2
          <5> HIDE DEF n
          <5>2. /\ SubSeq(ChunkUnitsRead(p), 0 + 1, n) \in Seq(Units)
                /\ Len(SubSeq(ChunkUnitsRead(p), 0 + 1, n)) = n - 0
                /\ \A k \in 1 .. n - 0 : SubSeq(ChunkUnitsRead(p), 0 + 1, n)[k] = ChunkUnitsRead(p)[0 + k]
            BY <3>2, <5>1, PartIs
          <5>3. \A k \in 1 .. n : 0 + k = k
            BY <3>2
          <5>4. QED
            BY <3>2, <5>1, <5>2, <5>3, SameSeq
        <4>2. QED
          BY <4>1
      <3>4. /\ my[p].out \o ChunkUnitsRead(p) \in Seq(Units)
            /\ Len(my[p].out \o ChunkUnitsRead(p)) = my[p].at - my[p].job.offset + n
            /\ Len(my[p].out \o ChunkUnitsRead(p)) <= Len(my[p].meant)
            /\ \A k \in 1 .. Len(my[p].out \o ChunkUnitsRead(p)) :
                  (my[p].out \o ChunkUnitsRead(p))[k] = my[p].meant[k]
        <4>1. n \in 0 .. ChunkLength(p)
          BY <3>2
        <4>2. QED
          BY <2>1, <3>1, <3>3, <4>1, EmitIs
      <3>5. /\ my'[p].out = my[p].out \o ChunkUnitsRead(p) /\ my'[p].at = my[p].at + n
            /\ my'[p].meant = my[p].meant
        BY <2>1, <3>1 DEF Locals
      <3>6. my[p].at \in Nat /\ my[p].job.offset \in Nat
        BY <2>1, JobIs DEF PlaceOK, Locals
      <3> HIDE DEF n
      <3>7. (my[p].at + n) - my[p].job.offset = my[p].at - my[p].job.offset + n
        BY <3>2, <3>6 DEF n
      <3>8. QED
        BY ONLY <2>1, <3>1, <3>4, <3>5, <3>7 DEF Streamed
    <2>5. CASE PipeCloses(p) \/ EmitFails(p)
      <3>0. PICK how \in {"closed", "failed"} : EmitStops(p, how)
        BY <2>5 DEF PipeCloses, EmitFails
      <3>1. PICK k \in 0 .. ChunkLength(p) :
               my' = [my EXCEPT ![p].out = @ \o SubSeq(ChunkUnitsRead(p), 1, k)]
        BY <3>0 DEF EmitStops
      <3>2. /\ my'[p].out = my[p].out \o SubSeq(ChunkUnitsRead(p), 1, k)
            /\ my'[p].meant = my[p].meant
        BY <2>1, <3>1 DEF Locals
      <3>3. /\ Len(my'[p].out) <= Len(my'[p].meant)
            /\ \A j \in 1 .. Len(my'[p].out) : my'[p].out[j] = my'[p].meant[j]
        <4>1. /\ Len(my[p].out \o SubSeq(ChunkUnitsRead(p), 1, k)) <= Len(my[p].meant)
              /\ \A j \in 1 .. Len(my[p].out \o SubSeq(ChunkUnitsRead(p), 1, k)) :
                    (my[p].out \o SubSeq(ChunkUnitsRead(p), 1, k))[j] = my[p].meant[j]
          BY <2>1, <3>0, EmitIs DEF EmitStops
        <4>2. QED
          BY ONLY <3>2, <4>1
      <3>4. pc'[p] = "idle" /\ result'[p] # "ok"
        BY <3>0 DEF EmitStops, Return, Goto, Typed
      <3>5. QED
        BY <3>3, <3>4 DEF Streamed
    <2>6. CASE EmitDone(p)
      <3>1. /\ my' = my /\ pc[p] = "emit" /\ ~(my[p].at < my[p].end)
            /\ pc'[p] = "idle" /\ result'[p] = "ok"
        BY <2>6 DEF EmitDone, Return, Goto, Typed, More
      <3>2. /\ my[p].at \in Nat /\ my[p].end \in Nat /\ my[p].at <= my[p].end
            /\ Len(my[p].meant) = my[p].end - my[p].job.offset
            /\ Len(my[p].out) = my[p].at - my[p].job.offset
            /\ my[p].out \in Seq(Units) /\ my[p].meant \in Seq(Units)
        BY <2>1, <3>1 DEF PlaceOK, Locals, Streamed
      <3>3. my[p].at = my[p].end
        BY <3>1, <3>2
      <3>4. my[p].out = my[p].meant
        BY <2>1, <3>2, <3>3, SameSeq DEF Streamed
      <3>5. QED
        BY <2>1, <3>1, <3>4 DEF Streamed
    <2>7. CASE Killed(p) \/ Fails(p)
      <3>1. my' = my
        BY <2>7 DEF Killed, Fails
      <3>2. pc'[p] = "idle" /\ result'[p] \in {"killed", "failed"}
        BY <2>2, <2>7 DEF Killed, Fails, Return, Goto, Typed
      <3>3. QED
        BY <2>1, <3>1, <3>2 DEF Streamed
    <2>8. QED
      BY <1>6, <2>2, <2>3, <2>4, <2>5, <2>6, <2>7
         DEF Step, Create, Copy, SetLength, Sync, Rename, Remove, Put, PutDone
  <1>7. QED
    BY <1>1, <1>2, <1>3, <1>4, <1>5, <1>6 DEF Next

-----------------------------------------------------------------------------
(* The output files *)

\* No name, now or after a crash, makes i the file of a finished command.
Unnamed(i) == \A t \in media[Names] : \A d \in Dests : t[Whole(d)] # i

\* A file has one name, and the file of a FILE.partial is no finished one.
Apart ==
    /\ \A t \in media[Names] : \A m, n \in NameSet : t[m] = t[n] /\ t[m] # NoFile => m = n
    /\ \A d \in Dests : disk[Names][Partial(d)] # NoFile => Unnamed(disk[Names][Partial(d)])

\* How far the file of a copy has come.
OnDisk(p) ==
    LET i == my[p].file
        f == disk[Inode(i)]
        meant == my[p].meant
        n == my[p].at - my[p].job.offset
    IN
    pc[p] \in {"copy", "sync", "rename"} =>
        /\ disk[Names][Partial(my[p].job.to)] = i
        /\ pc[p] = "copy" =>
              Len(f) <= n /\ \A k \in 1 .. n : meant[k] = IF k <= Len(f) THEN f[k] ELSE Zero
        /\ pc[p] = "sync" => f = meant
        /\ pc[p] = "rename" => media[Inode(i)] = {meant}

LEMMA TablesAre ==
    ASSUME Typed
    PROVE  /\ disk[Names] \in media[Names] /\ disk[Names] \in Tables
           /\ \A t \in media[Names] : t \in Tables
  BY Naming DEF Typed, DeviceOK, Content

LEMMA CreateApart ==
    ASSUME Typed, Apart, NEW p \in Processes, Create(p)
    PROVE  /\ Apart' /\ Unnamed(my'[p].file)
           /\ \A d \in Dests \ {my[p].job.to} :
                 disk'[Names][Partial(d)] = disk[Names][Partial(d)]
           /\ \A d \in Dests \ {my[p].job.to} : disk[Names][Partial(d)] # my'[p].file
           /\ disk'[Names][Partial(my[p].job.to)] = my'[p].file
           /\ \A t \in media'[Names] : \E u \in media[Names] :
                 \A d \in Dests : t[Whole(d)] = u[Whole(d)]
  <1> DEFINE d == my[p].job.to
             i == my'[p].file
             t == [disk[Names] EXCEPT ![Partial(d)] = i]
  <1>1. /\ d \in Dests /\ i \in Inodes /\ t \in Tables
        /\ \/ i = disk[Names][Partial(d)]
           \/ \A u \in media[Names] : \A n \in NameSet : u[n] # i
        /\ disk'[Names] = t /\ media'[Names] = media[Names] \cup {t}
    BY CreateIs
  <1>2. /\ disk[Names] \in media[Names] /\ disk[Names] \in Tables
        /\ Partial(d) \in NameSet /\ i # NoFile
    BY <1>1, TablesAre, Naming, ImgAssumption
  <1> HIDE DEF d, i
  <1>3. /\ t[Partial(d)] = i /\ \A n \in NameSet \ {Partial(d)} : t[n] = disk[Names][n]
    BY <1>1, <1>2, Renaming
  <1> HIDE DEF t
  <1>4. /\ \A e \in Dests : /\ Whole(e) \in NameSet \ {Partial(d)}
                            /\ e # d => Partial(e) \in NameSet \ {Partial(d)}
    BY <1>1, Naming
  <1>5. Unnamed(i)
    BY <1>1, <1>2, <1>4 DEF Apart, Unnamed
  <1>6. \A n \in NameSet \ {Partial(d)} : disk[Names][n] # i
    BY <1>1, <1>2 DEF Apart
  <1>7. \A m, n \in NameSet : t[m] = t[n] /\ t[m] # NoFile => m = n
    BY <1>2, <1>3, <1>6 DEF Apart
  <1>8. \A u \in media'[Names] : \E v \in media[Names] : \A e \in Dests : u[Whole(e)] = v[Whole(e)]
    BY <1>1, <1>2, <1>3, <1>4
  <1>9. ASSUME NEW e \in Dests, disk'[Names][Partial(e)] # NoFile
        PROVE  \A u \in media'[Names] : \A f \in Dests : u[Whole(f)] # disk'[Names][Partial(e)]
    <2>1. Unnamed(disk'[Names][Partial(e)])
      <3>1. CASE e = d
        BY <1>1, <1>3, <1>5, <3>1
      <3>2. CASE e # d
        BY <1>1, <1>3, <1>4, <1>9, <3>2 DEF Apart
      <3>3. QED
        BY <3>1, <3>2
    <2>2. QED
      BY <1>8, <2>1 DEF Unnamed
  <1>10. Apart'
    <2>1. \A u \in media'[Names] : \A m, n \in NameSet : u[m] = u[n] /\ u[m] # NoFile => m = n
      BY <1>1, <1>7 DEF Apart
    <2>2. QED
      BY <1>9, <2>1 DEF Apart, Unnamed
  <1>11. \A e \in Dests \ {d} : disk'[Names][Partial(e)] = disk[Names][Partial(e)]
                                /\ disk[Names][Partial(e)] # i
    BY <1>1, <1>3, <1>4, <1>6
  <1>12. QED
    BY <1>1, <1>3, <1>5, <1>8, <1>10, <1>11 DEF d, i

\* Removing FILE.partial, and giving its file the name FILE.
LEMMA NamingApart ==
    ASSUME Typed, Apart, NEW p \in Processes, pc[p] \in {"rename", "remove"},
           NEW t \in Tables, DevWrite(Names, t),
           \/ t = [disk[Names] EXCEPT ![Partial(my[p].job.to)] = NoFile]
           \/ /\ t = [disk[Names] EXCEPT ![Whole(my[p].job.to)] = disk[Names][Partial(my[p].job.to)],
                                         ![Partial(my[p].job.to)] = NoFile]
              /\ disk[Names][Partial(my[p].job.to)] # NoFile
    PROVE  /\ Apart'
           /\ media'[Names] = media[Names] \cup {t} /\ disk'[Names] = t
           /\ \A i \in Inodes : disk'[Inode(i)] = disk[Inode(i)] /\ media'[Inode(i)] = media[Inode(i)]
           /\ \A d \in Dests \ {my[p].job.to} :
                 /\ disk'[Names][Partial(d)] = disk[Names][Partial(d)]
                 /\ t[Whole(d)] = disk[Names][Whole(d)]
  <1> DEFINE d == my[p].job.to
             i == disk[Names][Partial(d)]
  <1>1. /\ d \in Dests
        /\ \A n \in NameSet \ {Whole(d), Partial(d)} : t[n] = disk[Names][n]
        /\ t[Partial(d)] = NoFile
        /\ t[Whole(d)] = disk[Names][Whole(d)] \/ (t[Whole(d)] = i /\ i # NoFile)
    <2>1. Whole(d) \in NameSet \ {Partial(d)} /\ d \in Dests
      BY Naming DEF Typed, PlaceOK
    <2> DEFINE u == [disk[Names] EXCEPT ![Whole(d)] = i, ![Partial(d)] = NoFile]
               v == [disk[Names] EXCEPT ![Partial(d)] = NoFile]
    <2>2. /\ u[Whole(d)] = i /\ u[Partial(d)] = NoFile /\ v[Partial(d)] = NoFile
          /\ \A n \in NameSet \ {Whole(d), Partial(d)} : u[n] = disk[Names][n]
          /\ \A n \in NameSet \ {Partial(d)} : v[n] = disk[Names][n]
      BY RenameIs
    <2>3. t = v \/ (t = u /\ i # NoFile)
      OBVIOUS
    <2> HIDE DEF u, v, i, d
    <2>4. QED
      BY ONLY <2>1, <2>2, <2>3
  <1>2. /\ disk[Names] \in media[Names] /\ Names \in Loc /\ t \in Content(Names) /\ DeviceOK
        /\ \A j \in Inodes : Inode(j) \in Loc /\ Inode(j) # Names
    BY TablesAre, Naming DEF Content, Typed
  <1>3. /\ disk'[Names] = t /\ media'[Names] = media[Names] \cup {t}
        /\ \A k \in Loc \ {Names} : disk'[k] = disk[k] /\ media'[k] = media[k]
    BY <1>2, WriteEffect
  <1> HIDE DEF d, i
  <1>4. \A e \in Dests : /\ Whole(e) \in NameSet /\ Partial(e) \in NameSet
                         /\ \A f \in Dests : Whole(e) # Partial(f)
                         /\ e # d => Whole(e) # Whole(d) /\ Partial(e) # Partial(d)
    BY <1>1, Naming
  <1>5. \A m, n \in NameSet : t[m] = t[n] /\ t[m] # NoFile => m = n
    <2> TAKE m \in NameSet, n \in NameSet
    <2>1. \A k, l \in NameSet : disk[Names][k] = disk[Names][l] /\ disk[Names][k] # NoFile => k = l
      BY <1>2 DEF Apart
    <2>2. \A k \in NameSet \ {Partial(d)} : disk[Names][k] = i => i = NoFile
      BY <1>1, <1>4, <2>1 DEF i
    <2>3. QED
      BY <1>1, <2>1, <2>2
  <1>6. ASSUME NEW e \in Dests, disk'[Names][Partial(e)] # NoFile
        PROVE  \A u \in media'[Names] : \A f \in Dests : u[Whole(f)] # disk'[Names][Partial(e)]
    <2> DEFINE j == disk'[Names][Partial(e)]
    <2>1. e # d /\ j = disk[Names][Partial(e)]
      BY <1>1, <1>3, <1>4, <1>6
    <2>2. Unnamed(j)
      BY <1>6, <2>1 DEF Apart
    <2>3. \A f \in Dests : t[Whole(f)] # j
      <3> TAKE f \in Dests
      <3>1. disk[Names][Whole(f)] # j
        BY <1>2, <2>2 DEF Unnamed
      <3>2. t[Whole(f)] = disk[Names][Whole(f)] \/ t[Whole(f)] = i
        BY <1>1, <1>4
      <3>3. i # j \/ i = NoFile
        BY <1>1, <1>2, <1>4, <2>1 DEF Apart, i
      <3>4. QED
        BY <1>6, <3>1, <3>2, <3>3
    <2>4. QED
      BY <1>3, <2>2, <2>3 DEF Unnamed
  <1>7. Apart'
    <2>1. \A u \in media'[Names] : \A m, n \in NameSet : u[m] = u[n] /\ u[m] # NoFile => m = n
      BY <1>3, <1>5 DEF Apart
    <2>2. QED
      BY <1>6, <2>1 DEF Apart, Unnamed
  <1>8. \A e \in Dests \ {d} : /\ disk'[Names][Partial(e)] = disk[Names][Partial(e)]
                               /\ t[Whole(e)] = disk[Names][Whole(e)]
    BY <1>1, <1>3, <1>4
  <1>9. QED
    BY <1>2, <1>3, <1>7, <1>8 DEF d

\* What leaves the names of finished files alone and writes no such file.
LEMMA FileKept ==
    ASSUME Typed, FileIsWhole, outputs' = outputs,
           \A t \in media'[Names] : \E u \in media[Names] : \A d \in Dests : t[Whole(d)] = u[Whole(d)],
           \A i \in Inodes : media'[Inode(i)] \subseteq media[Inode(i)] \/ Unnamed(i)
    PROVE  FileIsWhole'
  <1> SUFFICES ASSUME NEW t \in media'[Names], NEW d \in Dests, t[Whole(d)] # NoFile,
                      NEW f \in media'[Inode(t[Whole(d)])]
               PROVE  <<d, f>> \in outputs
    BY DEF FileIsWhole
  <1>1. PICK u \in media[Names] : t[Whole(d)] = u[Whole(d)]
    OBVIOUS
  <1>2. u[Whole(d)] \in Inodes
    BY <1>1, TablesAre, Naming DEF Tables
  <1>3. media'[Inode(u[Whole(d)])] \subseteq media[Inode(u[Whole(d)])]
    BY <1>2 DEF Unnamed
  <1>4. QED
    BY <1>1, <1>3 DEF FileIsWhole

\* Two copies that run at once have files of their own.
LEMMA OwnFiles ==
    ASSUME Typed, Apart, Separate, NEW p \in Processes, NEW q \in Processes \ {p},
           pc[p] \in {"copy", "sync", "rename"}, OnDisk(p),
           pc[q] \in {"create", "copy", "sync", "rename", "remove"}
    PROVE  /\ my[p].job.to \in Dests /\ my[q].job.to \in Dests /\ my[p].job.to # my[q].job.to
           /\ my[p].file \in Inodes /\ disk[Names][Partial(my[p].job.to)] = my[p].file
           /\ pc[q] \in {"copy", "sync", "rename"} /\ OnDisk(q) => my[p].file # my[q].file
  <1>1. p \in Running /\ q \in Running /\ my[p].job.to \in Dests /\ my[q].job.to \in Dests
    BY DEF Running, Typed, PlaceOK
  <1>2. my[p].job.to # my[q].job.to
    BY <1>1, ImgAssumption DEF Separate, Conflict
  <1>3. /\ my[p].file \in Inodes /\ my[p].file # NoFile
        /\ disk[Names][Partial(my[p].job.to)] = my[p].file
    BY ImgAssumption DEF Typed, PlaceOK, OnDisk
  <1>4. /\ Partial(my[p].job.to) \in NameSet /\ Partial(my[q].job.to) \in NameSet
        /\ Partial(my[p].job.to) # Partial(my[q].job.to)
    BY <1>1, <1>2, Naming
  <1>5. disk[Names][Partial(my[p].job.to)] # disk[Names][Partial(my[q].job.to)]
    BY <1>3, <1>4, TablesAre DEF Apart
  <1>6. QED
    BY <1>1, <1>2, <1>3, <1>5 DEF OnDisk

DiskSafe == Apart /\ FileIsWhole /\ \A p \in Processes : OnDisk(p)

\* A copy in its own file disturbs no name, no finished file and no other copy.
LEMMA InodeSafe ==
    ASSUME Typed, Separate, DiskSafe, NEW p \in Processes, pc[p] \in {"copy", "sync"},
           outputs' = outputs,
           \A q \in Processes \ {p} : pc'[q] = pc[q] /\ my'[q] = my[q],
           \A l \in Loc \ {Inode(my[p].file)} : disk'[l] = disk[l] /\ media'[l] = media[l]
    PROVE  /\ Apart' /\ FileIsWhole' /\ \A q \in Processes \ {p} : OnDisk(q)'
           /\ disk'[Names] = disk[Names]
  <1> DEFINE i == my[p].file
  <1>1. i \in Inodes /\ disk[Names][Partial(my[p].job.to)] = i /\ my[p].job.to \in Dests
    BY DEF Typed, PlaceOK, DiskSafe, OnDisk
  <1>2. /\ disk'[Names] = disk[Names] /\ media'[Names] = media[Names]
        /\ \A j \in Inodes \ {i} : disk'[Inode(j)] = disk[Inode(j)] /\ media'[Inode(j)] = media[Inode(j)]
    BY <1>1, Naming
  <1>3. Unnamed(i)
    BY <1>1, ImgAssumption DEF DiskSafe, Apart
  <1>4. Apart'
    BY <1>2 DEF DiskSafe, Apart, Unnamed
  <1>5. FileIsWhole'
    <2>1. \A j \in Inodes : media'[Inode(j)] \subseteq media[Inode(j)] \/ Unnamed(j)
      BY <1>2, <1>3
    <2>2. QED
      BY <1>2, <2>1, FileKept DEF DiskSafe
  <1>6. ASSUME NEW q \in Processes \ {p} PROVE OnDisk(q)'
    <2>1. CASE pc[q] \in {"copy", "sync", "rename"}
      <3>1. my[q].file \in Inodes \ {i}
        BY <2>1, OwnFiles DEF DiskSafe
      <3>2. /\ disk'[Inode(my[q].file)] = disk[Inode(my[q].file)]
            /\ media'[Inode(my[q].file)] = media[Inode(my[q].file)]
            /\ disk'[Names] = disk[Names] /\ pc'[q] = pc[q] /\ my'[q] = my[q] /\ OnDisk(q)
        BY <1>2, <3>1 DEF DiskSafe
      <3>3. QED
        BY ONLY <2>1, <3>2 DEF OnDisk
    <2>2. CASE pc[q] \notin {"copy", "sync", "rename"}
      BY <2>2 DEF OnDisk
    <2>3. QED
      BY <2>1, <2>2
  <1>7. QED
    BY <1>2, <1>4, <1>5, <1>6

LEMMA CreateSafe ==
    ASSUME Typed, Separate, DiskSafe, NEW p \in Processes, Create(p)
    PROVE  DiskSafe'
  <1> DEFINE d == my[p].job.to
             i == my'[p].file
  <1>1. /\ pc[p] = "create" /\ pc'[p] = "copy" /\ outputs' = outputs
        /\ \A q \in Processes \ {p} : pc'[q] = pc[q] /\ my'[q] = my[q]
    BY Locality DEF Create, Goto, Typed, Step
  <1>2. /\ i \in Inodes /\ my' = [my EXCEPT ![p].file = i]
        /\ disk'[Inode(i)] = <<>>
        /\ \A k \in Loc \ {Names, Inode(i)} : disk'[k] = disk[k] /\ media'[k] = media[k]
    BY CreateIs
  <1>3. /\ Apart' /\ Unnamed(i)
        /\ \A e \in Dests \ {d} : disk'[Names][Partial(e)] = disk[Names][Partial(e)]
        /\ \A e \in Dests \ {d} : disk[Names][Partial(e)] # i
        /\ disk'[Names][Partial(d)] = i
        /\ \A t \in media'[Names] : \E u \in media[Names] : \A e \in Dests : t[Whole(e)] = u[Whole(e)]
    BY CreateApart DEF DiskSafe
  <1> HIDE DEF d, i
  <1>4. \A j \in Inodes \ {i} : disk'[Inode(j)] = disk[Inode(j)] /\ media'[Inode(j)] = media[Inode(j)]
    BY <1>2, Naming
  <1>5. FileIsWhole'
    <2>1. \A j \in Inodes : media'[Inode(j)] \subseteq media[Inode(j)] \/ Unnamed(j)
      BY <1>3, <1>4
    <2>2. QED
      BY <1>1, <1>3, <2>1, FileKept DEF DiskSafe
  <1>6. ASSUME NEW q \in Processes \ {p} PROVE OnDisk(q)'
    <2>1. CASE pc[q] \in {"copy", "sync", "rename"}
      <3>1. /\ my[q].job.to \in Dests \ {d} /\ my[q].file \in Inodes
            /\ disk[Names][Partial(my[q].job.to)] = my[q].file
        BY <1>1, <2>1, OwnFiles DEF DiskSafe, d
      <3>2. /\ my[q].file \in Inodes \ {i}
            /\ disk'[Names][Partial(my[q].job.to)] = disk[Names][Partial(my[q].job.to)]
        BY <1>3, <3>1
      <3>3. /\ disk'[Inode(my[q].file)] = disk[Inode(my[q].file)]
            /\ media'[Inode(my[q].file)] = media[Inode(my[q].file)]
            /\ pc'[q] = pc[q] /\ my'[q] = my[q] /\ OnDisk(q)
        BY <1>1, <1>4, <3>2 DEF DiskSafe
      <3>4. QED
        BY ONLY <2>1, <3>2, <3>3 DEF OnDisk
    <2>2. CASE pc[q] \notin {"copy", "sync", "rename"}
      BY <1>1, <2>2 DEF OnDisk
    <2>3. QED
      BY <2>1, <2>2
  <1>7. OnDisk(p)'
    <2>1. /\ my'[p].at = my[p].at /\ my'[p].job = my[p].job /\ my'[p].file = i
      BY <1>2 DEF Typed, Locals, i
    <2>2. my[p].job \in Jobs /\ my[p].at = my[p].job.offset
      BY <1>1 DEF Typed, PlaceOK
    <2>3. my'[p].at - my'[p].job.offset = 0
      BY <2>1, <2>2, JobIs
    <2>4. Len(disk'[Inode(i)]) = 0
      BY <1>2
    <2>5. disk'[Names][Partial(my'[p].job.to)] = my'[p].file
      BY <1>3, <2>1 DEF d
    <2>6. QED
      BY ONLY <1>1, <2>1, <2>3, <2>4, <2>5 DEF OnDisk
  <1>8. QED
    BY <1>3, <1>5, <1>6, <1>7 DEF DiskSafe

LEMMA CopySafe ==
    ASSUME Typed, Separate, DiskSafe, NEW p \in Processes, Aimed(p), Copy(p)
    PROVE  DiskSafe'
  <1> DEFINE file == Inode(my[p].file)
             n == my[p].at - my[p].job.offset
             m == ChunkLength(p)
             f == disk[file]
             g == disk'[file]
             v == Overlay(f, n, ChunkUnitsRead(p))
             meant == my[p].meant
  <1>1. /\ pc[p] = "copy" /\ pc' = pc /\ outputs' = outputs
        /\ my' = [my EXCEPT ![p].at = @ + m]
        /\ \/ UNCHANGED devVars /\ \A k \in DOMAIN ChunkUnitsRead(p) : ChunkUnitsRead(p)[k] = Zero
           \/ DevWrite(file, v)
    BY DEF Copy
  <1>2. /\ file \in Loc /\ file # Names /\ n \in Nat /\ f \in Seq(Units) /\ v \in Content(file)
        /\ Len(f) <= n => Len(v) = n + m
        /\ \A k \in 1 .. Len(v) : v[k] =
              IF k \in n + 1 .. n + m THEN image[my[p].at + (k - n)]
              ELSE IF k <= Len(f) THEN f[k] ELSE Zero
    BY <1>1, CopyIs
  <1>3. /\ m \in Nat /\ my[p].at + m <= my[p].end /\ ChunkUnitsRead(p) \in Seq(Units)
        /\ Len(ChunkUnitsRead(p)) = m
        /\ \A k \in 1 .. m : ChunkUnitsRead(p)[k] = image[my[p].at + k]
    BY <1>1, ChunkIs
  <1>4. /\ my[p].at \in Nat /\ my[p].job.offset \in Nat /\ my[p].end \in Nat
        /\ Len(meant) = my[p].end - my[p].job.offset
    <2>1. my[p].job.verb = "read" /\ my[p].job \in Jobs
      BY <1>1 DEF Typed, PlaceOK
    <2>2. QED
      BY <1>1, <2>1, JobIs DEF Typed, PlaceOK, Locals
  <1>5. /\ disk[Names][Partial(my[p].job.to)] = my[p].file
        /\ Len(f) <= n /\ \A k \in 1 .. n : meant[k] = IF k <= Len(f) THEN f[k] ELSE Zero
        /\ \A k \in 1 .. Len(meant) : meant[k] = image[my[p].job.offset + k]
    BY <1>1 DEF DiskSafe, OnDisk, Aimed
  <1>6. /\ g = f \/ g = v
        /\ g = f => (\A k \in DOMAIN ChunkUnitsRead(p) : ChunkUnitsRead(p)[k] = Zero) \/ f = v
        /\ \A l \in Loc \ {file} : disk'[l] = disk[l] /\ media'[l] = media[l]
    <2>1. CASE UNCHANGED devVars /\ \A k \in DOMAIN ChunkUnitsRead(p) : ChunkUnitsRead(p)[k] = Zero
      BY <2>1 DEF devVars
    <2>2. CASE DevWrite(file, v)
      BY <1>2, <2>2, WriteEffect DEF Typed
    <2>3. QED
      BY <1>1, <2>1, <2>2
  <1>7. my'[p].file = my[p].file /\ my'[p].job = my[p].job /\ my'[p].meant = meant
        /\ my'[p].at = my[p].at + m
    BY <1>1 DEF Typed, Locals
  <1>8. /\ Apart' /\ FileIsWhole' /\ \A q \in Processes \ {p} : OnDisk(q)'
        /\ disk'[Names] = disk[Names]
    <2>1. \A q \in Processes \ {p} : pc'[q] = pc[q] /\ my'[q] = my[q]
      BY Locality DEF Step
    <2>2. \A l \in Loc \ {Inode(my[p].file)} : disk'[l] = disk[l] /\ media'[l] = media[l]
      BY <1>6
    <2> HIDE DEF n, m, f, g, v, meant, file
    <2>3. pc[p] \in {"copy", "sync"} /\ outputs' = outputs
      BY <1>1
    <2>4. QED
      BY <2>1, <2>2, <2>3, InodeSafe
  <1>9. my'[p].at - my'[p].job.offset = n + m
    BY <1>3, <1>4, <1>7
  <1>10. \A k \in n + 1 .. n + m : /\ k \in 1 .. Len(meant) /\ k - n \in 1 .. m
                                   /\ my[p].at + (k - n) = my[p].job.offset + k
    <2> DEFINE at == my[p].at
               o == my[p].job.offset
               end == my[p].end
               length == Len(meant)
    <2>1. /\ at \in Nat /\ o \in Nat /\ end \in Nat /\ m \in Nat /\ n \in Nat
          /\ length = end - o /\ n = at - o /\ at + m <= end
      BY <1>2, <1>3, <1>4
    <2> HIDE DEF at, o, end, length, n, m, meant
    <2>2. \A k \in n + 1 .. n + m : /\ k \in 1 .. length /\ k - n \in 1 .. m
                                    /\ at + (k - n) = o + k
      BY ONLY <2>1
    <2>3. QED
      BY <2>2 DEF at, o, length
  <1> HIDE DEF n, m, f, g, v, meant, file
  <1>11. Len(g) <= n + m /\ \A k \in 1 .. n + m : meant[k] = IF k <= Len(g) THEN g[k] ELSE Zero
    <2>1. CASE g = v
      <3>1. n \in Nat /\ m \in Nat /\ Len(v) = n + m
        BY ONLY <1>2, <1>3, <1>5
      <3>2. ASSUME NEW k \in 1 .. n
            PROVE  meant[k] = v[k]
        <4>1. k \in 1 .. Len(v) /\ k \notin n + 1 .. n + m
          BY ONLY <3>1, k \in 1 .. n
        <4>2. v[k] = IF k <= Len(f) THEN f[k] ELSE Zero
          BY ONLY <1>2, <4>1
        <4>3. QED
          BY ONLY <1>5, <4>2, k \in 1 .. n
      <3>3. ASSUME NEW k \in n + 1 .. n + m
            PROVE  meant[k] = v[k]
        <4>1. k \in 1 .. Len(v)
          BY ONLY <3>1, k \in n + 1 .. n + m
        <4>2. v[k] = image[my[p].at + (k - n)]
          BY ONLY <1>2, <4>1, k \in n + 1 .. n + m
        <4>3. k \in 1 .. Len(meant) /\ my[p].at + (k - n) = my[p].job.offset + k
          BY ONLY <1>10, k \in n + 1 .. n + m
        <4>4. meant[k] = image[my[p].job.offset + k]
          BY ONLY <1>5, <4>3
        <4>5. QED
          BY ONLY <4>2, <4>3, <4>4
      <3>4. \A k \in 1 .. n + m : k \in 1 .. n \/ k \in n + 1 .. n + m
        BY ONLY <3>1
      <3>5. \A k \in 1 .. n + m : meant[k] = v[k] /\ k <= Len(v)
        BY ONLY <3>1, <3>2, <3>3, <3>4
      <3>6. QED
        BY ONLY <2>1, <3>1, <3>5
    <2>2. CASE g = f /\ \A k \in DOMAIN ChunkUnitsRead(p) : ChunkUnitsRead(p)[k] = Zero
      <3>1. \A k \in 1 .. m : image[my[p].at + k] = Zero
        BY <1>3, <2>2
      <3>2. \A k \in n + 1 .. n + m : meant[k] = Zero
        BY <1>5, <1>10, <3>1
      <3>3. Len(f) \in Nat
        BY <1>2
      <3>4. QED
        BY <1>2, <1>3, <1>5, <2>2, <3>2, <3>3
    <2>3. QED
      BY <1>6, <2>1, <2>2
  <1>12. OnDisk(p)'
    <2>1. /\ disk'[Names][Partial(my'[p].job.to)] = my'[p].file /\ g = disk'[Inode(my'[p].file)]
          /\ pc'[p] = "copy" /\ my'[p].at - my'[p].job.offset = n + m /\ my'[p].meant = meant
      <3>1. disk'[Names][Partial(my'[p].job.to)] = my'[p].file
        BY ONLY <1>5, <1>7, <1>8
      <3>2. g = disk'[Inode(my'[p].file)]
        BY ONLY <1>7 DEF g, file
      <3>3. pc'[p] = "copy"
        BY ONLY <1>1
      <3>4. QED
        BY ONLY <1>7, <1>9, <3>1, <3>2, <3>3
    <2>2. QED
      BY ONLY <1>11, <2>1 DEF OnDisk
  <1>13. QED
    BY <1>8, <1>12 DEF DiskSafe

LEMMA SetLengthSafe ==
    ASSUME Typed, Separate, DiskSafe, NEW p \in Processes, SetLength(p)
    PROVE  DiskSafe'
  <1> DEFINE file == Inode(my[p].file)
             n == my[p].end - my[p].job.offset
             f == disk[file]
             v == Resized(f, n)
             meant == my[p].meant
  <1>1. /\ pc[p] = "copy" /\ pc'[p] = "sync" /\ outputs' = outputs /\ my' = my
        /\ DevWrite(file, v) /\ ~(my[p].at < my[p].end)
    BY DEF SetLength, Goto, More, Typed
  <1>2. /\ file \in Loc /\ file # Names /\ n \in Nat /\ v \in Content(file) /\ Len(v) = n
        /\ \A k \in 1 .. n : v[k] = IF k <= Len(f) THEN f[k] ELSE Zero
    BY <1>1, SetLengthIs
  <1>3. /\ my[p].at = my[p].end /\ Len(meant) = n /\ meant \in Seq(Units)
    <2>1. my[p].at \in Nat /\ my[p].end \in Nat /\ my[p].at <= my[p].end
      BY <1>1 DEF Typed, PlaceOK, Locals
    <2>2. Len(meant) = n /\ meant \in Seq(Units)
      BY <1>1 DEF Typed, PlaceOK, Locals
    <2>3. QED
      BY <1>1, <2>1, <2>2
  <1>4. disk'[file] = v /\ \A l \in Loc \ {file} : disk'[l] = disk[l] /\ media'[l] = media[l]
    BY <1>1, <1>2, WriteEffect DEF Typed
  <1>5. v = meant
    <2>1. \A k \in 1 .. n : meant[k] = IF k <= Len(f) THEN f[k] ELSE Zero
      BY <1>1, <1>3 DEF DiskSafe, OnDisk
    <2>2. v \in Seq(Units)
      BY <1>2 DEF Content
    <2> HIDE DEF v, meant, n, f
    <2>3. QED
      BY <1>2, <1>3, <2>1, <2>2, SameSeq
  <1> HIDE DEF v
  <1>6. /\ Apart' /\ FileIsWhole' /\ \A q \in Processes \ {p} : OnDisk(q)'
        /\ disk'[Names] = disk[Names]
    <2>1. \A q \in Processes \ {p} : pc'[q] = pc[q] /\ my'[q] = my[q]
      BY Locality DEF Step
    <2>2. QED
      BY <1>1, <1>4, <2>1, InodeSafe
  <1>7. OnDisk(p)'
    <2>1. disk[Names][Partial(my[p].job.to)] = my[p].file
      BY <1>1 DEF DiskSafe, OnDisk
    <2>2. QED
      BY ONLY <1>1, <1>4, <1>5, <1>6, <2>1 DEF OnDisk
  <1>8. QED
    BY <1>6, <1>7 DEF DiskSafe

LEMMA SyncSafe ==
    ASSUME Typed, Separate, DiskSafe, NEW p \in Processes, Sync(p)
    PROVE  DiskSafe'
  <1> DEFINE file == Inode(my[p].file)
  <1>1. /\ pc[p] = "sync" /\ pc'[p] = "rename" /\ outputs' = outputs /\ my' = my /\ disk' = disk
        /\ media' = [media EXCEPT ![file] = {disk[file]}]
    BY DEF Sync, Goto, Typed
  <1>2. /\ file \in Loc /\ DOMAIN media = Loc
        /\ disk[Names][Partial(my[p].job.to)] = my[p].file /\ disk[file] = my[p].meant
    BY <1>1, Naming DEF Typed, PlaceOK, DeviceOK, DiskSafe, OnDisk
  <1>3. /\ media'[file] = {my[p].meant}
        /\ \A l \in Loc \ {file} : disk'[l] = disk[l] /\ media'[l] = media[l]
    BY <1>1, <1>2
  <1>4. Apart' /\ FileIsWhole' /\ \A q \in Processes \ {p} : OnDisk(q)'
    <2>1. \A q \in Processes \ {p} : pc'[q] = pc[q] /\ my'[q] = my[q]
      BY Locality DEF Step
    <2>2. QED
      BY <1>1, <1>3, <2>1, InodeSafe
  <1>5. OnDisk(p)'
    BY ONLY <1>1, <1>2, <1>3 DEF OnDisk
  <1>6. QED
    BY <1>4, <1>5 DEF DiskSafe

\* A rename makes the finished file the whole of what its command read.
LEMMA NamingSafe ==
    ASSUME Typed, Separate, DiskSafe, NEW p \in Processes, Rename(p) \/ Remove(p)
    PROVE  DiskSafe'
  <1> DEFINE d == my[p].job.to
             i == disk[Names][Partial(d)]
  <1>1. /\ pc[p] \in {"rename", "remove"} /\ pc'[p] = "idle" /\ d \in Dests
        /\ \A q \in Processes \ {p} : pc'[q] = pc[q] /\ my'[q] = my[q]
    <2>1. pc[p] \in {"rename", "remove"} /\ pc'[p] = "idle"
      BY DEF Rename, Remove, Return, Goto, Typed
    <2>2. QED
      BY <2>1, Locality DEF Step, Typed, PlaceOK
  <1>2. CASE UNCHANGED devVars /\ UNCHANGED outputs
    <2>1. Apart' /\ FileIsWhole'
      BY <1>2 DEF devVars, DiskSafe, Apart, FileIsWhole, Unnamed
    <2>2. \A q \in Processes : OnDisk(q)'
      BY <1>1, <1>2 DEF devVars, DiskSafe, OnDisk
    <2>3. QED
      BY <2>1, <2>2 DEF DiskSafe
  <1>3. ASSUME NEW t \in Tables, DevWrite(Names, t),
               \/ /\ t = [disk[Names] EXCEPT ![Partial(d)] = NoFile] /\ outputs' = outputs
               \/ /\ t = [disk[Names] EXCEPT ![Whole(d)] = i, ![Partial(d)] = NoFile]
                  /\ i # NoFile /\ outputs' = outputs \cup {<<d, my[p].meant>>}
                  /\ pc[p] = "rename"
        PROVE  DiskSafe'
    <2>1. /\ Apart'
          /\ media'[Names] = media[Names] \cup {t} /\ disk'[Names] = t
          /\ \A j \in Inodes : disk'[Inode(j)] = disk[Inode(j)] /\ media'[Inode(j)] = media[Inode(j)]
          /\ \A e \in Dests \ {d} : /\ disk'[Names][Partial(e)] = disk[Names][Partial(e)]
                                    /\ t[Whole(e)] = disk[Names][Whole(e)]
      BY <1>1, <1>3, NamingApart DEF DiskSafe
    <2>2. ASSUME NEW q \in Processes PROVE OnDisk(q)'
      <3>1. CASE q # p /\ pc[q] \in {"copy", "sync", "rename"}
        <4>1. /\ my[q].file \in Inodes
              /\ disk'[Names][Partial(my[q].job.to)] = disk[Names][Partial(my[q].job.to)]
          BY <1>1, <2>1, <3>1, OwnFiles DEF DiskSafe
        <4>2. /\ disk'[Inode(my[q].file)] = disk[Inode(my[q].file)]
              /\ media'[Inode(my[q].file)] = media[Inode(my[q].file)]
              /\ pc'[q] = pc[q] /\ my'[q] = my[q] /\ OnDisk(q)
          BY <1>1, <2>1, <3>1, <4>1 DEF DiskSafe
        <4>3. QED
          BY ONLY <3>1, <4>1, <4>2 DEF OnDisk
      <3>2. CASE q = p \/ pc[q] \notin {"copy", "sync", "rename"}
        BY <1>1, <3>2 DEF OnDisk
      <3>3. QED
        BY <3>1, <3>2
    <2>3. CASE t = [disk[Names] EXCEPT ![Partial(d)] = NoFile] /\ outputs' = outputs
      <3>1. \A e \in Dests : t[Whole(e)] = disk[Names][Whole(e)]
        BY <2>3, Naming, TablesAre DEF Tables
      <3>2. \A u \in media'[Names] : \E w \in media[Names] : \A e \in Dests : u[Whole(e)] = w[Whole(e)]
        BY <2>1, <3>1, TablesAre
      <3>3. FileIsWhole'
        BY <2>1, <2>3, <3>2, FileKept DEF DiskSafe
      <3>4. QED
        BY <2>1, <2>2, <3>3 DEF DiskSafe
    <2>4. CASE /\ t = [disk[Names] EXCEPT ![Whole(d)] = i, ![Partial(d)] = NoFile]
               /\ outputs' = outputs \cup {<<d, my[p].meant>>} /\ pc[p] = "rename"
      <3>1. t[Whole(d)] = i /\ i = my[p].file /\ i \in Inodes /\ media[Inode(i)] = {my[p].meant}
        BY <1>1, <2>4, RenameIs DEF DiskSafe, OnDisk, Typed, PlaceOK
      <3>2. ASSUME NEW u \in media'[Names], NEW e \in Dests, u[Whole(e)] # NoFile,
                   NEW f \in media'[Inode(u[Whole(e)])]
            PROVE  <<e, f>> \in outputs'
        <4>1. CASE u = t /\ e = d
          BY <2>1, <2>4, <3>1, <3>2, <4>1
        <4>2. CASE u \in media[Names] \/ e # d
          <5>1. PICK w \in media[Names] : u[Whole(e)] = w[Whole(e)]
            BY <2>1, <4>2, TablesAre
          <5>2. w[Whole(e)] \in Inodes
            BY <3>2, <5>1, TablesAre, Naming DEF Tables
          <5>3. f \in media[Inode(w[Whole(e)])]
            BY <2>1, <3>2, <5>1, <5>2
          <5>4. QED
            BY <2>4, <3>2, <5>1, <5>3 DEF DiskSafe, FileIsWhole
        <4>3. QED
          BY <2>1, <4>1, <4>2
      <3>3. FileIsWhole'
        BY <3>2 DEF FileIsWhole
      <3>4. QED
        BY <2>1, <2>2, <3>3 DEF DiskSafe
    <2>5. QED
      BY <1>3, <2>3, <2>4
  <1>4. /\ [disk[Names] EXCEPT ![Partial(d)] = NoFile] \in Tables
        /\ [disk[Names] EXCEPT ![Whole(d)] = i, ![Partial(d)] = NoFile] \in Tables
    BY <1>1, RenameIs
  <1>5. CASE Remove(p)
    BY <1>3, <1>4, <1>5 DEF Remove
  <1>6. CASE Rename(p)
    BY <1>2, <1>3, <1>4, <1>6 DEF Rename, Named
  <1>7. QED
    BY <1>5, <1>6

\* Steps that leave the device alone, and leave p out of a copy.
LEMMA QuietSafe ==
    ASSUME Typed, DiskSafe, NEW p \in Processes, (\E job \in Jobs : Start(p, job)) \/ Step(p),
           UNCHANGED devVars, UNCHANGED outputs, pc'[p] \notin {"copy", "sync", "rename"}
    PROVE  DiskSafe'
  <1>1. Apart' /\ FileIsWhole'
    BY DEF devVars, DiskSafe, Apart, FileIsWhole, Unnamed
  <1>2. ASSUME NEW q \in Processes PROVE OnDisk(q)'
    <2>1. CASE q = p
      BY <2>1 DEF OnDisk
    <2>2. CASE q # p
      <3>1. pc'[q] = pc[q] /\ my'[q] = my[q] /\ disk' = disk /\ media' = media /\ OnDisk(q)
        BY <2>2, Locality DEF devVars, DiskSafe
      <3>2. QED
        BY ONLY <3>1 DEF OnDisk
    <2>3. QED
      BY <2>1, <2>2
  <1>3. QED
    BY <1>1, <1>2 DEF DiskSafe

LEMMA FailsSafe ==
    ASSUME Typed, Separate, DiskSafe, NEW p \in Processes, Fails(p)
    PROVE  DiskSafe'
  <1> DEFINE file == Inode(my[p].file)
             v == Overlay(disk[file], my[p].at - my[p].job.offset, ChunkUnitsRead(p))
  <1>1. outputs' = outputs /\ pc'[p] \in {"idle", "remove"}
    BY DEF Fails, Return, Goto, Typed
  <1>2. CASE UNCHANGED devVars
    BY <1>1, <1>2, QuietSafe DEF Step
  <1>3. CASE pc[p] = "copy" /\ DevWrite(file, v)
    <2>1. /\ file \in Loc /\ v \in Content(file)
      BY <1>3, CopyIs
    <2>2. \A l \in Loc \ {file} : disk'[l] = disk[l] /\ media'[l] = media[l]
      BY <1>3, <2>1, WriteEffect DEF Typed
    <2>3. \A q \in Processes \ {p} : pc'[q] = pc[q] /\ my'[q] = my[q]
      BY Locality DEF Step
    <2>4. Apart' /\ FileIsWhole' /\ \A q \in Processes \ {p} : OnDisk(q)'
      BY <1>1, <1>3, <2>2, <2>3, InodeSafe
    <2>5. OnDisk(p)'
      BY <1>1 DEF OnDisk
    <2>6. QED
      BY <2>4, <2>5 DEF DiskSafe
  <1>4. QED
    BY <1>2, <1>3 DEF Fails, DevWriteFails

LEMMA WriteBackSafe ==
    ASSUME Typed, DiskSafe, WriteBack
    PROVE  DiskSafe'
  <1>1. /\ disk' = disk /\ \A k \in Loc : media'[k] = {disk[k]} /\ disk[k] \in media[k]
        /\ UNCHANGED <<pc, my, outputs>>
    BY FlushEffect DEF WriteBack, Typed, DeviceOK
  <1>2. /\ media'[Names] = {disk[Names]} /\ disk[Names] \in media[Names]
        /\ \A i \in Inodes : media'[Inode(i)] = {disk[Inode(i)]} /\ media'[Inode(i)] \subseteq media[Inode(i)]
    BY <1>1, Naming
  <1>3. Apart'
    BY <1>1, <1>2 DEF DiskSafe, Apart, Unnamed
  <1>4. FileIsWhole'
    <2>1. \A t \in media'[Names] : \E u \in media[Names] : \A d \in Dests : t[Whole(d)] = u[Whole(d)]
      BY <1>2
    <2>2. QED
      BY <1>1, <1>2, <2>1, FileKept DEF DiskSafe
  <1>5. ASSUME NEW p \in Processes PROVE OnDisk(p)'
    <2>1. CASE pc[p] = "rename"
      <3>1. my[p].file \in Inodes /\ OnDisk(p)
        BY <2>1 DEF Typed, PlaceOK, DiskSafe
      <3>2. media'[Inode(my[p].file)] = {my[p].meant}
        BY <1>2, <2>1, <3>1 DEF OnDisk
      <3>3. QED
        BY ONLY <1>1, <2>1, <3>1, <3>2 DEF OnDisk
    <2>2. CASE pc[p] # "rename"
      <3>1. OnDisk(p)
        BY DEF DiskSafe
      <3>2. QED
        BY ONLY <1>1, <2>2, <3>1 DEF OnDisk
    <2>3. QED
      BY <2>1, <2>2
  <1>6. QED
    BY <1>3, <1>4, <1>5 DEF DiskSafe

LEMMA CrashSafe ==
    ASSUME Typed, DiskSafe, Crash
    PROVE  DiskSafe'
  <1>1. PICK c : DevCrash(c)
    BY DEF Crash
  <1>2. /\ \A k \in Loc : disk'[k] = c[k] /\ media'[k] = {c[k]} /\ c[k] \in media[k]
        /\ pc' = [p \in Processes |-> "idle"] /\ outputs' = outputs
    BY <1>1, CrashEffect DEF Crash, Typed
  <1>3. /\ disk'[Names] = c[Names] /\ media'[Names] = {c[Names]} /\ c[Names] \in media[Names]
        /\ \A i \in Inodes : media'[Inode(i)] \subseteq media[Inode(i)]
    BY <1>2, Naming
  <1>4. \A d, e \in Dests : c[Names][Partial(d)] = c[Names][Whole(e)] => c[Names][Partial(d)] = NoFile
    BY <1>3, Naming DEF DiskSafe, Apart
  <1>5. Apart'
    BY <1>3, <1>4 DEF DiskSafe, Apart, Unnamed
  <1>6. FileIsWhole'
    <2>1. \A t \in media'[Names] : \E u \in media[Names] : \A d \in Dests : t[Whole(d)] = u[Whole(d)]
      BY <1>3
    <2>2. QED
      BY <1>2, <1>3, <2>1, FileKept DEF DiskSafe
  <1>7. \A p \in Processes : OnDisk(p)'
    BY <1>2 DEF OnDisk
  <1>8. QED
    BY <1>5, <1>6, <1>7 DEF DiskSafe

LEMMA DiskSafeInit == Init => DiskSafe
  <1> SUFFICES ASSUME Init PROVE DiskSafe
    OBVIOUS
  <1> DEFINE names == [n \in NameSet |-> IF n[2] = "whole" THEN Present[n[1]] ELSE NoFile]
  <1>1. disk = [l \in Loc |-> IF l = Names THEN names ELSE OldFile]
    BY DEF Init, Loc, NameSet
  <1>2. disk[Names] = names /\ \A i \in Inodes : disk[Inode(i)] = OldFile
    <2> HIDE DEF names
    <2>1. QED
      BY <1>1, Naming
  <1>3. media[Names] = {names} /\ \A i \in Inodes : media[Inode(i)] = {OldFile}
    <2>1. media = [l \in Loc |-> {disk[l]}]
      BY <1>1 DEF Init
    <2> HIDE DEF names
    <2>2. QED
      BY <1>2, <2>1, Naming
  <1>4. /\ \A d \in Dests : names[Whole(d)] = Present[d] /\ names[Partial(d)] = NoFile
        /\ \A d \in Dests : names[Whole(d)] \in Inodes \cup {NoFile}
    <2>1. \A d \in Dests : /\ names[Whole(d)] = Present[d]
                           /\ names[Partial(d)] = NoFile
      BY Naming DEF Whole, Partial
    <2>2. QED
      BY <2>1, ImgAssumption
  <1> HIDE DEF names
  <1>5. ASSUME NEW m \in NameSet, NEW n \in NameSet, names[m] = names[n], names[m] # NoFile
        PROVE  m = n
    <2>1. PICK d \in Dests : m = Whole(d) \/ m = Partial(d)
      BY Naming
    <2>2. PICK e \in Dests : n = Whole(e) \/ n = Partial(e)
      BY Naming
    <2>3. m = Whole(d) /\ n = Whole(e) /\ Present[d] = Present[e] /\ Present[d] # NoFile
      BY <1>4, <1>5, <2>1, <2>2
    <2>4. QED
      BY <2>3, ImgAssumption
  <1>6. Apart
    BY <1>2, <1>3, <1>4, <1>5 DEF Apart
  <1>7. FileIsWhole
    <2> SUFFICES ASSUME NEW t \in media[Names], NEW d \in Dests, t[Whole(d)] # NoFile,
                        NEW f \in media[Inode(t[Whole(d)])]
                 PROVE  <<d, f>> \in outputs
      BY DEF FileIsWhole
    <2>1. t = names /\ t[Whole(d)] \in Inodes
      BY <1>3, <1>4
    <2>2. f = OldFile
      BY <1>3, <2>1
    <2>3. QED
      BY <2>2 DEF Init
  <1>8. \A p \in Processes : OnDisk(p)
    BY DEF Init, OnDisk
  <1>9. QED
    BY <1>6, <1>7, <1>8 DEF DiskSafe

LEMMA DiskSafeNext ==
    ASSUME Typed, Separate, DiskSafe, \A p \in Processes : Aimed(p), [Next]_vars
    PROVE  DiskSafe'
  <1>1. CASE UNCHANGED vars
    BY <1>1 DEF vars, DiskSafe, Apart, FileIsWhole, Unnamed, OnDisk
  <1>2. ASSUME NEW p \in Processes, NEW job \in Jobs, Start(p, job) PROVE DiskSafe'
    <2>1. UNCHANGED <<devVars, outputs>> /\ pc'[p] \in {"idle", "open"}
      BY <1>2 DEF Start, Return, Goto, Typed
    <2>2. QED
      BY <1>2, <2>1, QuietSafe
  <1>3. ASSUME NEW p \in Processes, Step(p) PROVE DiskSafe'
    <2>1. CASE Check(p) \/ Emit(p) \/ EmitDone(p) \/ PipeCloses(p) \/ EmitFails(p)
      <3>1. UNCHANGED <<devVars, outputs>> /\ pc'[p] \in {"idle", "put", "emit", "create"}
        <4>1. CASE Check(p)
          <5>1. my[p].job.verb \in {"read", "write"}
            BY <4>1, JobIs DEF Check, Typed, PlaceOK
          <5>2. UNCHANGED <<devVars, outputs>> /\ pc \in [Processes -> Places]
            BY <4>1 DEF Check, Typed
          <5>3. pc'[p] \in {"idle", "put", "emit", "create"}
            BY <4>1, <5>1, <5>2 DEF Check, Return, Goto
          <5>4. QED
            BY <5>2, <5>3
        <4>2. CASE Emit(p) \/ EmitDone(p) \/ PipeCloses(p) \/ EmitFails(p)
          BY <4>2 DEF Emit, EmitDone, PipeCloses, EmitFails, EmitStops, Return, Goto, Typed
        <4>3. QED
          BY <2>1, <4>1, <4>2
      <3>2. QED
        BY <1>3, <3>1, QuietSafe
    <2>2. CASE Put(p) \/ PutDone(p) \/ Killed(p)
      <3>1. UNCHANGED <<devVars, outputs>> /\ pc'[p] \in {"idle", "put"}
        BY <2>2 DEF Put, PutDone, Killed, Return, Goto, Typed
      <3>2. QED
        BY <1>3, <3>1, QuietSafe
    <2>3. QED
      BY <1>3, <2>1, <2>2, CreateSafe, CopySafe, SetLengthSafe, SyncSafe, NamingSafe, FailsSafe
         DEF Step
  <1>4. QED
    BY <1>1, <1>2, <1>3, WriteBackSafe, CrashSafe DEF Next

-----------------------------------------------------------------------------
(* The theorems about commands run apart *)

\* The inductive invariant.
Safe ==
    /\ Typed /\ Separate /\ DiskSafe
    /\ \A p \in Processes : Aimed(p) /\ Streamed(p)

LEMMA SafeInit == Init => Safe
  <1> SUFFICES ASSUME Init PROVE Safe
    OBVIOUS
  <1>1. Separate
    BY DEF Init, Separate, Running
  <1>2. \A p \in Processes : Aimed(p)
    BY DEF Init, Aimed
  <1>3. \A p \in Processes : Streamed(p)
    BY DEF Init, Streamed, Idle
  <1>4. QED
    BY <1>1, <1>2, <1>3, TypedInit, DiskSafeInit DEF Safe

LEMMA SafeNext == Exclusive => (Safe /\ [Next]_vars => Safe')
  <1> SUFFICES ASSUME Exclusive, Safe, [Next]_vars PROVE Safe'
    OBVIOUS
  <1>1. Typed' /\ Separate' /\ DiskSafe'
    BY TypedNext, SeparateNext, DiskSafeNext DEF Safe
  <1>2. (\A p \in Processes : Aimed(p)') /\ (\A p \in Processes : Streamed(p)')
    BY AimedNext, StreamedNext DEF Safe
  <1>3. QED
    BY <1>1, <1>2 DEF Safe

LEMMA SafeAlways == Exclusive => (Spec => []Safe)
  <1> SUFFICES ASSUME Exclusive PROVE Spec => []Safe
    OBVIOUS
  <1>1. Safe /\ [Next]_vars => Safe'
    BY SafeNext
  <1>2. QED
    BY <1>1, SafeInit, PTL DEF Spec

LEMMA PrefixOfStream ==
    ASSUME Safe, NEW p \in Processes
    PROVE  my[p].job.to = Stdout /\ my[p].job.verb = "read" =>
               /\ Len(my[p].out) <= Len(my[p].meant)
               /\ my[p].out = SubSeq(my[p].meant, 1, Len(my[p].out))
               /\ result[p] = "ok" => my[p].out = my[p].meant
  <1> SUFFICES ASSUME my[p].job.to = Stdout, my[p].job.verb = "read"
               PROVE  /\ Len(my[p].out) <= Len(my[p].meant)
                      /\ my[p].out = SubSeq(my[p].meant, 1, Len(my[p].out))
                      /\ result[p] = "ok" => my[p].out = my[p].meant
    OBVIOUS
  <1> DEFINE out == my[p].out
             meant == my[p].meant
             n == Len(out)
  <1>1. /\ out \in Seq(Units) /\ meant \in Seq(Units) /\ n \in Nat /\ n <= Len(meant)
        /\ \A k \in 1 .. n : out[k] = meant[k]
        /\ result[p] = "ok" => out = meant
    BY DEF Safe, Streamed, Typed, Locals
  <1> HIDE DEF out, meant
  <1>2. SubSeq(meant, 0 + 1, n) = out
    <2>1. 0 \in Nat /\ 0 <= n /\ n - 0 = n /\ \A k \in 1 .. n : 0 + k = k
      BY <1>1
    <2>2. /\ SubSeq(meant, 0 + 1, n) \in Seq(Units) /\ Len(SubSeq(meant, 0 + 1, n)) = n - 0
          /\ \A k \in 1 .. n - 0 : SubSeq(meant, 0 + 1, n)[k] = meant[0 + k]
      <3> HIDE DEF n
      <3>1. QED
        BY <1>1, <2>1, PartIs
    <2>3. QED
      BY <1>1, <2>1, <2>2, SameSeq
  <1>3. QED
    BY <1>1, <1>2 DEF out, meant

LEMMA PublishedAtRename ==
    ASSUME Safe, [Next]_vars, NEW p \in Processes, pc[p] = "rename", result'[p] = "ok"
    PROVE  disk'[Inode(disk'[Names][Whole(my[p].job.to)])] = my[p].meant
  <1>1. Typed /\ DiskSafe /\ OnDisk(p) /\ result[p] = "none"
    BY DEF Safe, DiskSafe, Typed, PlaceOK
  <1>2. Step(p)
    <2>1. ~UNCHANGED vars /\ ~WriteBack
      BY <1>1 DEF vars, WriteBack
    <2>2. ~Crash
      BY DEF Crash
    <2>3. PICK q \in Processes : (\E job \in Jobs : Start(q, job)) \/ Step(q)
      BY <2>1, <2>2 DEF Next
    <2>4. q = p
      BY <1>1, <2>3, Locality
    <2>5. QED
      BY <2>3, <2>4 DEF Start
  <1>3. Rename(p)
    BY <1>1, <1>2 DEF Step, Check, Emit, EmitDone, PipeCloses, EmitFails, EmitStops,
                      Create, Copy, SetLength, Sync, Remove,
                      Put, PutDone, Fails, Killed, Return, Typed
  <1> DEFINE d == my[p].job.to
             i == disk[Names][Partial(d)]
             t == [disk[Names] EXCEPT ![Whole(d)] = i, ![Partial(d)] = NoFile]
  <1>4. /\ i = my[p].file /\ i \in Inodes /\ media[Inode(i)] = {my[p].meant}
        /\ t \in Tables /\ t[Whole(d)] = i
    BY <1>1, RenameIs DEF OnDisk, Typed, PlaceOK
  <1>5. DevWrite(Names, t)
    BY <1>3, <1>4, ImgAssumption DEF Rename, Named
  <1> HIDE DEF t, i, d
  <1>6. /\ disk'[Names] = t /\ disk'[Inode(i)] = disk[Inode(i)]
        /\ disk[Inode(i)] \in media[Inode(i)]
    <2>1. Names \in Loc /\ t \in Content(Names) /\ Inode(i) \in Loc \ {Names}
      BY <1>4, Naming DEF Content
    <2>2. QED
      BY <1>1, <1>5, <2>1, WriteEffect DEF Typed, DeviceOK
  <1>7. QED
    BY <1>4, <1>6 DEF d

LEMMA WholeAtTheEnd ==
    ASSUME Safe, [Next]_vars, NEW p \in Processes, pc[p] = "put", result'[p] = "ok"
    PROVE  image' = my[p].meant
  <1>1. Typed /\ Aimed(p) /\ result[p] = "none"
    BY DEF Safe, Typed, PlaceOK
  <1>2. Step(p)
    <2>1. ~UNCHANGED vars /\ ~WriteBack
      BY <1>1 DEF vars, WriteBack
    <2>2. ~Crash
      BY DEF Crash
    <2>3. PICK q \in Processes : (\E job \in Jobs : Start(q, job)) \/ Step(q)
      BY <2>1, <2>2 DEF Next
    <2>4. q = p
      BY <1>1, <2>3, Locality
    <2>5. QED
      BY <2>3, <2>4 DEF Start
  <1>3. PutDone(p)
    BY <1>1, <1>2 DEF Step, Check, Emit, EmitDone, PipeCloses, EmitFails, EmitStops,
                      Create, Copy, SetLength, Sync, Rename,
                      Remove, Put, Fails, Killed, Return, Typed
  <1>4. /\ my[p].at \in Nat /\ my[p].end \in Nat /\ my[p].at <= my[p].end /\ ~(my[p].at < my[p].end)
        /\ image' = image /\ my[p].meant \in Seq(Units) /\ image \in Seq(Units)
        /\ my[p].job.verb = "write" /\ Len(my[p].meant) = Len(image)
    BY <1>1, <1>3 DEF PutDone, More, Typed, PlaceOK, Locals
  <1>5. \A k \in 1 .. Len(image) : my[p].meant[k] = image[k]
    BY <1>1, <1>4 DEF Aimed
  <1>6. QED
    BY <1>4, <1>5, SameSeq

\* FILE is never left half written: whatever FILE names, now or after a crash,
\* is what it held before, or the whole output of a command that completed.
THEOREM OutputFilesAreWhole == Exclusive => (Spec => []FileIsWhole)
  <1>1. Safe => FileIsWhole
    BY DEF Safe, DiskSafe
  <1>2. QED
    BY <1>1, SafeAlways, PTL

\* Stdout gets a prefix of the range, and the whole of it if the command says Ok.
THEOREM StdoutGetsThePrefix == Exclusive => (Spec => []StdoutIsPrefix)
  <1>1. Safe => StdoutIsPrefix
    BY PrefixOfStream DEF StdoutIsPrefix
  <1>2. QED
    BY <1>1, SafeAlways, PTL

\* A `read -o` that returns Ok leaves at FILE all it set out to read; a write that
\* returns Ok has put its input at its offset and changed nothing else.
THEOREM OkMeansDone == Exclusive => (Spec => OkIsDone)
  <1>1. Safe /\ [Next]_vars =>
           \A p \in Processes : result'[p] = "ok" =>
               /\ pc[p] = "rename" => disk'[Inode(disk'[Names][Whole(my[p].job.to)])] = my[p].meant
               /\ pc[p] = "put" => image' = my[p].meant
    BY PublishedAtRename, WholeAtTheEnd
  <1>2. QED
    BY <1>1, SafeAlways, PTL DEF Spec, OkIsDone
=============================================================================
