-------------------------- MODULE GrainWriter_proof --------------------------
(***************************************************************************)
(* The state of GrainWriter keeps its types, and its write path never      *)
(* hands out a cell twice: from an image whose structures share no host    *)
(* space, none ever comes to share any. For any number of writers, tables, *)
(* slots, blocks and cells, whatever device call fails (with or without    *)
(* effect) and wherever a crash falls. With the lemmas on its device, its  *)
(* threads and its stores that the proofs about its entries cite.          *)
(***************************************************************************)
EXTENDS GrainWriter, TLAPS

-----------------------------------------------------------------------------
(* Types: the invariant *)

\* What location l may hold.
Fits(l, v) ==
    /\ l = Length => v \in 1 .. MaxCell
    /\ l = Header => v \in [rgd : BOOLEAN, zeroed : BOOLEAN]
    /\ \A i \in Indices : l = Gd(i) \/ l = Rgd(i) => v \in {Unallocated} \cup Cells

DeviceOK ==
    /\ disk = [l \in Locs |-> disk[l]] /\ media = [l \in Locs |-> media[l]]
    /\ media[Header] = {disk[Header]}
    /\ \A l \in Locs : /\ disk[l] \in media[l]
                       /\ \A v \in media[l] : Fits(l, v)

\* Where a thread may be with or without the allocation lock, and only with it.
FreePlaces == {"idle", "gd", "gt", "allocate", "through"}
TablePlaces == {"tableSpace", "tableZero", "tableFlush"}
SeedPlaces == {"seedCopy", "seedFlush"}
RgdPlaces == {"rgdWrite", "rgdFlush"}
GdPlaces == {"gdWrite", "gdFlush"}
FoundPlaces == {"invalidate", "gt2", "redundant", "mergeWrite", "mergeFlush", "grainSpace"}
EntryPlaces == {"entryRedundant", "entryFlush", "entryPrimary"}
GrainPlaces == {"grainZero", "grainData", "grainFlush"} \cup EntryPlaces
HeldPlaces == TablePlaces \cup SeedPlaces \cup RgdPlaces \cup GdPlaces \cup FoundPlaces
              \cup GrainPlaces \cup {"refresh"}
Places == FreePlaces \cup HeldPlaces

\* Where a cell of its own, not yet named, is in my[w].new; and, for the twin
\* of a new table, where that table is in my[w].table.
NewPlaces == (TablePlaces \ {"tableSpace"}) \cup SeedPlaces \cup RgdPlaces \cup GrainPlaces
HasTwin(w) == \/ pc[w] \in TablePlaces \cup RgdPlaces /\ my[w].purpose = "twin"
              \/ pc[w] \in GdPlaces

WriterOK(w) ==
    LET m == my[w] IN
    /\ m = [at |-> m.at, end |-> m.end, table |-> m.table, new |-> m.new, purpose |-> m.purpose]
    /\ IF pc[w] = "idle" THEN call[w] = Disk!NoCall
       ELSE m.at \in Nat /\ m.end \in Nat /\ m.at < m.end /\ m.end <= Grains * BlocksPerGrain
    /\ pc[w] \in HeldPlaces => allocation = w
    /\ pc[w] \in TablePlaces => m.purpose \in {"primary", "twin", "seed"}
    /\ pc[w] \in RgdPlaces => m.purpose \in {"twin", "seed"}
    /\ pc[w] \in SeedPlaces => m.purpose = "seed"
    /\ pc[w] \in NewPlaces => m.new \in Cells
    /\ HasTwin(w) => m.table \in Cells

CacheTyped(k) ==
    \/ k = NoCache
    \/ /\ k = [loaded |-> k.loaded, entries |-> k.entries]
       /\ k.loaded \in Indices \X Cells /\ k.entries = [e \in Slots |-> k.entries[e]]

MemoryOK ==
    /\ gd \in [Indices -> {Unallocated} \cup Cells]
    /\ rgd \in [Indices -> {Unallocated} \cup Cells]
    /\ CacheTyped(cache)
    /\ cursor \in 2 .. MaxCell + 1 /\ tables \subseteq Cells /\ merged \subseteq Indices

ThreadsOK ==
    /\ allocation \in Writers \cup {NoOne} /\ gdLock \in {allocation, NoOne}
    /\ pc \in [Writers -> Places]
    /\ my = [w \in Writers |-> my[w]] /\ call = [w \in Writers |-> call[w]]
    /\ \A w \in Writers : WriterOK(w)

Typed == DeviceOK /\ MemoryOK /\ ThreadsOK /\ faults \in Nat /\ crashes \in Nat

-----------------------------------------------------------------------------
(* Locations and the device *)

LEMMA Locating ==
    /\ Length \in Locs /\ Header \in Locs /\ Length # Header
    /\ \A i \in Indices : Gd(i) \in Locs /\ Rgd(i) \in Locs
    /\ \A c \in Cells, e \in Slots : At(c, e) \in Locs
    /\ \A i : Gd(i) \notin {Length, Header} /\ Rgd(i) \notin {Length, Header}
    /\ \A i, j : /\ Gd(i) # Rgd(j)
                 /\ Gd(i) = Gd(j) => i = j
                 /\ Rgd(i) = Rgd(j) => i = j
    /\ \A c, k : At(c, k) \notin {Length, Header} /\ \A i : At(c, k) # Gd(i) /\ At(c, k) # Rgd(i)
    /\ \A c, k, d, j : At(c, k) = At(d, j) => c = d /\ k = j
  <1>1. Slots \subseteq Words
    BY GrainAssumption DEF Slots, Words
  <1>2. \A c \in Cells, e \in Slots : At(c, e) \in Locs
    BY <1>1 DEF Locs
  <1>3. Length \in Locs /\ Header \in Locs /\ \A i \in Indices : Gd(i) \in Locs /\ Rgd(i) \in Locs
    BY DEF Locs
  <1>4. QED
    BY <1>2, <1>3 DEF Length, Header, Gd, Rgd, At

LEMMA WriteIs ==
    ASSUME DeviceOK, NEW f, DevWriteAll(f), Header \notin DOMAIN f,
           \A l \in DOMAIN f : Fits(l, f[l])
    PROVE  /\ DeviceOK' /\ disk'[Header] = disk[Header]
           /\ \A l \in Locs : IF l \in DOMAIN f
                              THEN disk'[l] = f[l] /\ media'[l] = media[l] \cup {f[l]}
                              ELSE disk'[l] = disk[l] /\ media'[l] = media[l]
  <1>1. DOMAIN disk = Locs
    BY DEF DeviceOK
  <1>2. /\ disk' = [l \in Locs |-> disk'[l]] /\ media' = [l \in Locs |-> media'[l]]
        /\ \A l \in Locs : IF l \in DOMAIN f
                           THEN disk'[l] = f[l] /\ media'[l] = media[l] \cup {f[l]}
                           ELSE disk'[l] = disk[l] /\ media'[l] = media[l]
    BY <1>1 DEF DevWriteAll, Locations
  <1>3. disk'[Header] = disk[Header] /\ media'[Header] = {disk'[Header]}
    BY <1>2, Locating DEF DeviceOK
  <1>4. ASSUME NEW l \in Locs PROVE disk'[l] \in media'[l] /\ \A v \in media'[l] : Fits(l, v)
    BY <1>2 DEF DeviceOK
  <1>5. QED
    BY <1>2, <1>3, <1>4 DEF DeviceOK, Fits

LEMMA LengthIs ==
    ASSUME DeviceOK, NEW v \in 1 .. MaxCell, DevWrite(Length, v)
    PROVE  /\ DeviceOK' /\ disk'[Length] = v /\ media'[Length] = media[Length] \cup {v}
           /\ \A l \in Locs \ {Length} : disk'[l] = disk[l] /\ media'[l] = media[l]
  <1>1. /\ disk' = [l \in Locs |-> disk'[l]] /\ media' = [l \in Locs |-> media'[l]]
        /\ disk'[Length] = v /\ media'[Length] = media[Length] \cup {v}
        /\ \A l \in Locs \ {Length} : disk'[l] = disk[l] /\ media'[l] = media[l]
    BY Locating DEF DeviceOK, DevWrite
  <1>2. media'[Header] = {disk'[Header]}
    BY <1>1, Locating DEF DeviceOK
  <1>3. Fits(Length, v)
    BY Locating DEF Fits
  <1>4. ASSUME NEW l \in Locs PROVE disk'[l] \in media'[l] /\ \A x \in media'[l] : Fits(l, x)
    BY <1>1, <1>3 DEF DeviceOK
  <1>5. QED
    BY <1>1, <1>2, <1>4 DEF DeviceOK, Fits

LEMMA FlushIs ==
    ASSUME DeviceOK, DevFlush
    PROVE  DeviceOK' /\ disk' = disk /\ \A l \in Locs : media'[l] = {disk[l]}
  <1>1. DOMAIN disk = Locs
    BY DEF DeviceOK
  <1>2. /\ disk' = disk /\ media' = [l \in Locs |-> media'[l]]
        /\ \A l \in Locs : media'[l] = {disk[l]}
    BY <1>1 DEF DevFlush, Locations
  <1>3. QED
    BY <1>2, Locating DEF DeviceOK, Fits

LEMMA CrashIs ==
    ASSUME DeviceOK, NEW c, DevCrash(c)
    PROVE  /\ DeviceOK' /\ \A l \in Locs : c[l] \in media[l] /\ disk'[l] = c[l] /\ media'[l] = {c[l]}
           /\ disk'[Header] = disk[Header]
  <1>1. DOMAIN disk = Locs
    BY DEF DeviceOK
  <1>2. /\ disk' = [l \in Locs |-> disk'[l]] /\ media' = [l \in Locs |-> media'[l]]
        /\ \A l \in Locs : c[l] \in media[l] /\ disk'[l] = c[l] /\ media'[l] = {c[l]}
    BY <1>1 DEF DevCrash, Locations
  <1>3. ASSUME NEW l \in Locs PROVE disk'[l] \in media'[l] /\ \A v \in media'[l] : Fits(l, v)
    BY <1>2 DEF DeviceOK
  <1>4. QED
    BY <1>2, <1>3, Locating DEF DeviceOK, Fits

\* The device may also be left alone.
LEMMA SameDevice ==
    ASSUME DeviceOK, UNCHANGED devVars
    PROVE  DeviceOK'
  BY DEF DeviceOK, devVars, Fits

-----------------------------------------------------------------------------
(* Addresses *)

LEMMA DivisionIs ==
    ASSUME NEW g \in Nat \ {0}, NEW a \in Nat, NEW n \in Nat, a < n * g
    PROVE  a \div g \in 0 .. n - 1 /\ a % g \in 0 .. g - 1
  OBVIOUS

LEMMA HereIs ==
    ASSUME NEW w \in Writers, WriterOK(w), pc[w] # "idle"
    PROVE  /\ Here(w).gt \in Indices /\ Here(w).gte \in Slots
           /\ Here(w).len \in Nat \ {0}
  <1> DEFINE at == my[w].at
             end == my[w].end
             b == BlocksPerGrain
             s == EntriesPerTable
             g == at \div b
  <1>1. at \in Nat /\ end \in Nat /\ at < end /\ end <= (Tables * s) * b
    BY DEF WriterOK, Grains
  <1>2. /\ Here(w).gt = g \div s /\ Here(w).gte = g % s
        /\ Here(w).len = Lesser(b - (at % b), end - at)
    BY DEF Here, Address
  <1> HIDE DEF at, end
  <1>3. b \in Nat \ {0} /\ s \in Nat \ {0} /\ Tables \in Nat \ {0} /\ Tables * s \in Nat
    BY GrainAssumption
  <1> HIDE DEF b, s
  <1>4. (Tables * s) * b \in Nat /\ at < (Tables * s) * b
    <2> DEFINE t == (Tables * s) * b
    <2>1. t \in Nat
      BY <1>3
    <2> HIDE DEF t
    <2>2. at < t
      BY <1>1, <2>1 DEF t
    <2>3. QED
      BY <2>1, <2>2 DEF t
  <1>5. g \in 0 .. (Tables * s) - 1 /\ at % b \in 0 .. b - 1
    BY <1>1, <1>3, <1>4, DivisionIs
  <1> HIDE DEF g
  <1>6. g \in Nat /\ g < Tables * s
    BY <1>3, <1>5
  <1>7. g \div s \in 0 .. Tables - 1 /\ g % s \in 0 .. s - 1
    BY <1>3, <1>6, DivisionIs
  <1>8. Lesser(b - (at % b), end - at) \in Nat \ {0}
    BY <1>1, <1>3, <1>5 DEF Lesser
  <1>9. QED
    BY <1>2, <1>7, <1>8 DEF Indices, Slots, s
-----------------------------------------------------------------------------
(* Types: the threads *)

\* What a step makes of w's locals; the others' stay.
Becomes(w, at, end, table, new, purpose) ==
    /\ my' = [q \in Writers |-> my'[q]]
    /\ my'[w] = [at |-> at, end |-> end, table |-> table, new |-> new, purpose |-> purpose]
    /\ \A q \in Writers \ {w} : my'[q] = my[q]

\* Where a step takes w; the others stay.
Goes(w, to) == /\ pc' \in [Writers -> Places] /\ pc'[w] = to
               /\ \A q \in Writers \ {w} : pc'[q] = pc[q]

LEMMA MyIs ==
    ASSUME ThreadsOK, NEW w \in Writers
    PROVE  LET m == my[w] IN
           /\ my' = my => Becomes(w, m.at, m.end, m.table, m.new, m.purpose)
           /\ \A x : my' = [my EXCEPT ![w].new = x] => Becomes(w, m.at, m.end, m.table, x, m.purpose)
           /\ \A x : my' = [my EXCEPT ![w].table = x] => Becomes(w, m.at, m.end, x, m.new, m.purpose)
           /\ \A p : my' = [my EXCEPT ![w].purpose = p] => Becomes(w, m.at, m.end, m.table, m.new, p)
           /\ \A x, p : my' = [my EXCEPT ![w].table = x, ![w].purpose = p] =>
                           Becomes(w, m.at, m.end, x, m.new, p)
           /\ my' = [my EXCEPT ![w] = Idle] => Becomes(w, 0, 0, 0, 0, "none")
           /\ \A a, b : my' = [my EXCEPT ![w] = [Idle EXCEPT !.at = a, !.end = b]] =>
                           Becomes(w, a, b, 0, 0, "none")
  <1>1. /\ my = [q \in Writers |-> my[q]]
        /\ my[w] = [at |-> my[w].at, end |-> my[w].end, table |-> my[w].table,
                    new |-> my[w].new, purpose |-> my[w].purpose]
    BY DEF ThreadsOK, WriterOK
  <1>2. QED
    BY ONLY <1>1, w \in Writers DEF Becomes, Idle

LEMMA GotoIs ==
    ASSUME ThreadsOK, NEW w \in Writers, NEW to \in Places, Goto(w, to)
    PROVE  Goes(w, to)
  BY DEF ThreadsOK, Goto, Goes

LEMMA StepThreads ==
    ASSUME ThreadsOK, NEW w \in Writers, NEW to, Goes(w, to),
           NEW at, NEW end, NEW table, NEW new, NEW purpose,
           Becomes(w, at, end, table, new, purpose), WriterOK(w)',
           call' = [q \in Writers |-> call'[q]],
           \A q \in Writers \ {w} : call[q] = Disk!NoCall => call'[q] = Disk!NoCall,
           \/ allocation' = allocation /\ gdLock' \in {gdLock, NoOne}
           \/ allocation = NoOne /\ allocation' = w /\ gdLock' = gdLock
           \/ allocation = w /\ allocation' = allocation /\ gdLock' = w
           \/ allocation = w /\ allocation' = NoOne /\ gdLock' = NoOne
    PROVE  ThreadsOK'
  <1>1. ASSUME NEW q \in Writers \ {w} PROVE WriterOK(q)'
    <2>1. /\ WriterOK(q) /\ my'[q] = my[q] /\ pc'[q] = pc[q] /\ (call[q] = Disk!NoCall => call'[q] = Disk!NoCall)
          /\ allocation = q => allocation' = q
      BY GrainAssumption DEF ThreadsOK, Goes, Becomes
    <2>2. QED
      BY ONLY <2>1 DEF WriterOK, HasTwin
  <1>2. /\ allocation' \in Writers \cup {NoOne} /\ gdLock' \in {allocation', NoOne}
        /\ pc' \in [Writers -> Places] /\ my' = [q \in Writers |-> my'[q]]
    BY DEF ThreadsOK, Goes, Becomes
  <1>3. QED
    BY <1>1, <1>2 DEF ThreadsOK

\* A step within a call, under the same locks.
LEMMA MoveThreads ==
    ASSUME ThreadsOK, NEW w \in Writers, NEW to \in Places, Goto(w, to), pc[w] # "idle", to # "idle",
           NEW table, NEW new, NEW purpose, Becomes(w, my[w].at, my[w].end, table, new, purpose),
           UNCHANGED <<promises, locks>>,
           to \in HeldPlaces => pc[w] \in HeldPlaces,
           to \in TablePlaces => purpose \in {"primary", "twin", "seed"},
           to \in RgdPlaces => purpose \in {"twin", "seed"},
           to \in SeedPlaces => purpose = "seed",
           to \in NewPlaces => new \in Cells,
           (to \in TablePlaces \cup RgdPlaces /\ purpose = "twin") \/ to \in GdPlaces => table \in Cells
    PROVE  ThreadsOK'
  <1>1. Goes(w, to)
    BY GotoIs
  <1>2. /\ allocation' = allocation /\ gdLock' = gdLock /\ call' = call
        /\ call' = [q \in Writers |-> call'[q]]
    BY DEF promises, locks, ThreadsOK
  <1>3. WriterOK(w)'
    <2>1. /\ my[w].at \in Nat /\ my[w].end \in Nat /\ my[w].at < my[w].end
          /\ my[w].end <= Grains * BlocksPerGrain /\ (to \in HeldPlaces => allocation = w)
      BY DEF ThreadsOK, WriterOK
    <2>2. /\ pc'[w] = to
          /\ my'[w] = [at |-> my[w].at, end |-> my[w].end, table |-> table, new |-> new,
                       purpose |-> purpose]
      BY <1>1 DEF Goes, Becomes
    <2>3. QED
      BY ONLY <1>2, <2>1, <2>2, to # "idle",
           to \in TablePlaces => purpose \in {"primary", "twin", "seed"},
           to \in RgdPlaces => purpose \in {"twin", "seed"},
           to \in SeedPlaces => purpose = "seed",
           to \in NewPlaces => new \in Cells,
           (to \in TablePlaces \cup RgdPlaces /\ purpose = "twin") \/ to \in GdPlaces => table \in Cells
         DEF WriterOK, HasTwin
  <1>4. QED
    BY <1>1, <1>2, <1>3, StepThreads

\* A call, or a chunk of it, ends.
LEMMA Released ==
    ASSUME ThreadsOK, NEW w \in Writers, ReleaseLocks(w)
    PROVE  /\ allocation' # w
           /\ \/ allocation' = allocation /\ gdLock' \in {gdLock, NoOne}
              \/ allocation = w /\ allocation' = NoOne /\ gdLock' = NoOne
  BY GrainAssumption DEF ThreadsOK, ReleaseLocks

\* To no place of the lock's holder.
LEMMA EndThreads ==
    ASSUME ThreadsOK, NEW w \in Writers, ReleaseLocks(w),
           NEW to \in {"idle", "gd"}, Goto(w, to),
           NEW at, NEW end, Becomes(w, at, end, 0, 0, "none"),
           IF to = "idle" THEN call' = [call EXCEPT ![w] = Disk!NoCall]
           ELSE /\ call' = call /\ at \in Nat /\ end \in Nat /\ at < end
                /\ end <= Grains * BlocksPerGrain
    PROVE  ThreadsOK'
  <1>1. Goes(w, to)
    BY GotoIs DEF Places, FreePlaces
  <1>2. /\ call' = [q \in Writers |-> call'[q]] /\ (to = "idle" => call'[w] = Disk!NoCall)
        /\ \A q \in Writers \ {w} : call[q] = Disk!NoCall => call'[q] = Disk!NoCall
    BY DEF ThreadsOK
  <1>3. WriterOK(w)'
    <2>1. /\ pc'[w] = to /\ my'[w] = [at |-> at, end |-> end, table |-> 0, new |-> 0, purpose |-> "none"]
      BY <1>1 DEF Goes, Becomes
    <2>2. to \notin HeldPlaces
      BY DEF HeldPlaces, TablePlaces, SeedPlaces, RgdPlaces, GdPlaces, FoundPlaces, GrainPlaces, EntryPlaces
    <2>3. /\ to \notin TablePlaces /\ to \notin RgdPlaces /\ to \notin GdPlaces /\ to \notin NewPlaces
          /\ to \notin SeedPlaces
      BY <2>2 DEF HeldPlaces, NewPlaces
    <2>4. QED
      BY <1>2, <2>1, <2>2, <2>3 DEF WriterOK, HasTwin
  <1>4. QED
    BY <1>1, <1>2, <1>3, Released, StepThreads

LEMMA FailThreads ==
    ASSUME ThreadsOK, NEW w \in Writers, Fail(w)
    PROVE  ThreadsOK' /\ Goes(w, "idle") /\ allocation' # w
  <1>1. Becomes(w, 0, 0, 0, 0, "none") /\ Goto(w, "idle") /\ call' = [call EXCEPT ![w] = Disk!NoCall]
        /\ ReleaseLocks(w)
    BY MyIs DEF Fail, Disk!PromiseErr
  <1>2. QED
    BY <1>1, EndThreads, GotoIs, Released DEF Places, FreePlaces

LEMMA ChunkThreads ==
    ASSUME ThreadsOK, NEW w \in Writers, ChunkDone(w), pc[w] # "idle"
    PROVE  ThreadsOK' /\ (Goes(w, "idle") \/ Goes(w, "gd")) /\ allocation' # w
  <1>1. CASE my[w].at + Here(w).len < my[w].end
    <2>1. /\ my[w].at \in Nat /\ my[w].end \in Nat /\ my[w].end <= Grains * BlocksPerGrain
          /\ Here(w).len \in Nat
      BY HereIs DEF ThreadsOK, WriterOK
    <2>2. /\ Becomes(w, my[w].at + Here(w).len, my[w].end, 0, 0, "none") /\ Goto(w, "gd")
          /\ call' = call /\ ReleaseLocks(w)
      BY <1>1, MyIs DEF ChunkDone, promises
    <2>3. QED
      BY <1>1, <2>1, <2>2, EndThreads, GotoIs, Released DEF Places, FreePlaces
  <1>2. CASE ~(my[w].at + Here(w).len < my[w].end)
    <2>1. Becomes(w, 0, 0, 0, 0, "none") /\ Goto(w, "idle") /\ call' = [call EXCEPT ![w] = Disk!NoCall]
          /\ ReleaseLocks(w)
      BY <1>2, MyIs DEF ChunkDone, Disk!PromiseOk
    <2>2. QED
      BY <2>1, EndThreads, GotoIs, Released DEF Places, FreePlaces
  <1>3. QED
    BY <1>1, <1>2

LEMMA SameThreads ==
    ASSUME ThreadsOK, UNCHANGED <<pc, my, call, allocation, gdLock>>
    PROVE  ThreadsOK'
  BY DEF ThreadsOK, WriterOK, HasTwin

\* With every thread idle.
LEMMA StartThreads ==
    ASSUME pc = [w \in Writers |-> "idle"], my = [w \in Writers |-> Idle],
           call = [w \in Writers |-> Disk!NoCall], allocation = NoOne, gdLock = NoOne
    PROVE  ThreadsOK
  <1>1. /\ "idle" \in Places /\ "idle" \notin HeldPlaces /\ "idle" \notin TablePlaces
        /\ "idle" \notin RgdPlaces /\ "idle" \notin SeedPlaces /\ "idle" \notin NewPlaces
        /\ "idle" \notin GdPlaces
    BY DEF Places, FreePlaces, HeldPlaces, NewPlaces, TablePlaces, RgdPlaces, SeedPlaces, GdPlaces,
       FoundPlaces, GrainPlaces, EntryPlaces
  <1>2. ASSUME NEW w \in Writers PROVE WriterOK(w)
    BY <1>1 DEF WriterOK, HasTwin, Idle
  <1>3. QED
    BY <1>1, <1>2 DEF ThreadsOK

LEMMA IdleThreads ==
    ASSUME pc' = [w \in Writers |-> "idle"], my' = [w \in Writers |-> Idle],
           call' = [w \in Writers |-> Disk!NoCall], allocation' = NoOne, gdLock' = NoOne
    PROVE  ThreadsOK'
  <1>1. /\ "idle" \in Places /\ "idle" \notin HeldPlaces /\ "idle" \notin TablePlaces
        /\ "idle" \notin RgdPlaces /\ "idle" \notin SeedPlaces /\ "idle" \notin NewPlaces
        /\ "idle" \notin GdPlaces
    BY DEF Places, FreePlaces, HeldPlaces, NewPlaces, TablePlaces, RgdPlaces, SeedPlaces, GdPlaces,
       FoundPlaces, GrainPlaces, EntryPlaces
  <1>2. ASSUME NEW w \in Writers PROVE WriterOK(w)'
    BY <1>1 DEF WriterOK, HasTwin, Idle
  <1>3. QED
    BY <1>1, <1>2 DEF ThreadsOK

-----------------------------------------------------------------------------
(* Types: the steps *)

LEMMA AfterStoreIs ==
    /\ DOMAIN AfterStore = {"tableZero", "seedCopy", "rgdWrite", "gdWrite", "mergeWrite", "grainZero",
                            "grainData", "entryRedundant", "entryPrimary"}
    /\ AfterStore["tableZero"] = "tableFlush" /\ AfterStore["seedCopy"] = "seedFlush"
    /\ AfterStore["rgdWrite"] = "rgdFlush" /\ AfterStore["gdWrite"] = "gdFlush"
    /\ AfterStore["mergeWrite"] = "mergeFlush" /\ AfterStore["grainZero"] = "grainData"
    /\ AfterStore["grainData"] = "grainFlush" /\ AfterStore["entryRedundant"] = "entryFlush"
    /\ AfterStore["entryPrimary"] = "refresh"
  BY DEF AfterStore

LEMMA AfterFlushIs ==
    /\ DOMAIN AfterFlush = {"seedFlush", "grainFlush", "entryFlush"}
    /\ AfterFlush["seedFlush"] = "rgdWrite" /\ AfterFlush["entryFlush"] = "entryPrimary"
    /\ AfterFlush["grainFlush"] \in {"entryRedundant", "entryPrimary"}
  BY DEF AfterFlush

LEMMA PayloadIs ==
    ASSUME NEW w
    PROVE  \E K : DOMAIN Payload(w) = {At(my[w].new, k) : k \in K}
  <1> DEFINE h == Here(w)
  <1>1. DOMAIN Payload(w) = {At(my[w].new, k) : k \in {h.in + j : j \in 0 .. h.len - 1}}
    BY DEF Payload
  <1>2. QED
    BY <1>1

\* Most device writes are of words of cells, two are of a directory entry.
WordsOnly(f) == \A l \in DOMAIN f : \E c, k : l = At(c, k)

\* The words that a store writes are all of one cell.
StoreCell(w) == IF pc[w] \in {"mergeWrite", "entryRedundant"} THEN rgd[Here(w).gt]
                ELSE IF pc[w] = "entryPrimary" THEN my[w].table ELSE my[w].new

\* The words of cell c with a number in K.
Span(c, K) == {At(c, k) : k \in K}

LEMMA StoredIs ==
    ASSUME NEW w \in Writers
    PROVE  LET i == Here(w).gt
               m == my[w]
               f == Stores(w)
           IN
           /\ pc[w] = "tableZero" =>
                 DOMAIN f = Span(m.new, Slots) /\ \A l \in DOMAIN f : f[l] = Unallocated
           /\ pc[w] = "seedCopy" =>
                 DOMAIN f = Span(m.new, Slots) /\ \A l \in DOMAIN f : f[l] = disk[At(m.table, l[3])]
           /\ pc[w] = "rgdWrite" => DOMAIN f = {Rgd(i)} /\ f[Rgd(i)] = m.new
           /\ pc[w] = "gdWrite" => DOMAIN f = {Gd(i)} /\ f[Gd(i)] = m.table
           /\ pc[w] = "mergeWrite" => DOMAIN f = Span(rgd[i], Slots)
           /\ pc[w] = "grainZero" => DOMAIN f = Span(m.new, 0 .. BlocksPerGrain - 1)
           /\ pc[w] = "grainData" => \E K : DOMAIN f = Span(m.new, K)
           /\ pc[w] = "entryRedundant" =>
                 DOMAIN f = {At(rgd[i], Here(w).gte)} /\ f[At(rgd[i], Here(w).gte)] = m.new
           /\ pc[w] = "entryPrimary" =>
                 DOMAIN f = {At(m.table, Here(w).gte)} /\ f[At(m.table, Here(w).gte)] = m.new
  <1> DEFINE f == Stores(w)
             m == my[w]
             i == Here(w).gt
  <1>2. ASSUME pc[w] = "tableZero"
        PROVE  DOMAIN f = Span(m.new, Slots) /\ \A l \in DOMAIN f : f[l] = Unallocated
    <2>1. f = [l \in Span(m.new, Slots) |-> Unallocated]
      BY <1>2 DEF Stores, Span
    <2>2. QED
      BY ONLY <2>1
  <1>3. ASSUME pc[w] = "seedCopy"
        PROVE  DOMAIN f = Span(m.new, Slots) /\ \A l \in DOMAIN f : f[l] = disk[At(m.table, l[3])]
    <2>1. f = [l \in Span(m.new, Slots) |-> disk[At(m.table, l[3])]]
      BY <1>3 DEF Stores, Span
    <2>2. QED
      BY ONLY <2>1
  <1>4. pc[w] = "rgdWrite" => DOMAIN f = {Rgd(i)} /\ f[Rgd(i)] = m.new
    BY DEF Stores
  <1>5. pc[w] = "gdWrite" => DOMAIN f = {Gd(i)} /\ f[Gd(i)] = m.table
    BY DEF Stores
  <1>6. pc[w] = "mergeWrite" => DOMAIN f = Span(rgd[i], Slots)
    BY DEF Stores, Span
  <1>7. pc[w] = "grainZero" => DOMAIN f = Span(m.new, 0 .. BlocksPerGrain - 1)
    BY DEF Stores, Span
  <1>8. ASSUME pc[w] = "grainData" PROVE \E K : DOMAIN f = Span(m.new, K)
    <2>1. f = Payload(w)
      BY <1>8 DEF Stores
    <2>2. QED
      BY <2>1, PayloadIs DEF Span
  <1>9. pc[w] = "entryRedundant" =>
          DOMAIN f = {At(rgd[i], Here(w).gte)} /\ f[At(rgd[i], Here(w).gte)] = m.new
    BY DEF Stores
  <1>10. pc[w] = "entryPrimary" =>
          DOMAIN f = {At(m.table, Here(w).gte)} /\ f[At(m.table, Here(w).gte)] = m.new
    BY DEF Stores
  <1>11. QED
    BY <1>2, <1>3, <1>4, <1>5, <1>6, <1>7, <1>8, <1>9, <1>10

LEMMA DomainsAre ==
    ASSUME NEW w \in Writers, pc[w] \in DOMAIN AfterStore, pc[w] \notin {"rgdWrite", "gdWrite"}
    PROVE  \A l \in DOMAIN Stores(w) : \E k : l = At(StoreCell(w), k)
  <1>1. \E c, K : c = StoreCell(w) /\ DOMAIN Stores(w) = Span(c, K)
    <2>1. CASE pc[w] \in {"tableZero", "seedCopy"}
      BY <2>1, StoredIs, ZenonT(60) DEF StoreCell
    <2>2. CASE pc[w] \in {"grainZero", "grainData"}
      BY <2>2, StoredIs, ZenonT(60) DEF StoreCell
    <2>3. CASE pc[w] = "mergeWrite"
      BY <2>3, StoredIs, ZenonT(60) DEF StoreCell
    <2>4. CASE pc[w] = "entryRedundant"
      <3>1. DOMAIN Stores(w) = Span(StoreCell(w), {Here(w).gte})
        BY <2>4, StoredIs, ZenonT(60) DEF StoreCell, Span
      <3>2. QED
        BY <3>1
    <2>5. CASE pc[w] = "entryPrimary"
      <3>1. DOMAIN Stores(w) = Span(StoreCell(w), {Here(w).gte})
        BY <2>5, StoredIs, ZenonT(60) DEF StoreCell, Span
      <3>2. QED
        BY <3>1
    <2>6. QED
      BY <2>1, <2>2, <2>3, <2>4, <2>5, AfterStoreIs
  <1>2. QED
    BY <1>1 DEF Span

LEMMA StoresFit ==
    ASSUME Typed, NEW w \in Writers, pc[w] \in DOMAIN AfterStore
    PROVE  /\ Header \notin DOMAIN Stores(w) /\ Length \notin DOMAIN Stores(w)
           /\ \A l \in DOMAIN Stores(w) : Fits(l, Stores(w)[l])
           /\ pc[w] \notin {"rgdWrite", "gdWrite"} => WordsOnly(Stores(w))
  <1> DEFINE i == Here(w).gt
  <1>1. WriterOK(w)
    BY DEF Typed, ThreadsOK
  <1>2. CASE pc[w] = "rgdWrite"
    <2>1. my[w].new \in Cells
      BY <1>1, <1>2 DEF WriterOK, NewPlaces, RgdPlaces
    <2>2. DOMAIN Stores(w) = {Rgd(i)} /\ Stores(w)[Rgd(i)] = my[w].new
      BY <1>2, StoredIs
    <2>3. Fits(Rgd(i), my[w].new)
      BY <2>1, Locating DEF Fits
    <2>4. QED
      BY <1>2, <2>2, <2>3, Locating
  <1>3. CASE pc[w] = "gdWrite"
    <2>1. my[w].table \in Cells
      BY <1>1, <1>3 DEF WriterOK, HasTwin, GdPlaces
    <2>2. DOMAIN Stores(w) = {Gd(i)} /\ Stores(w)[Gd(i)] = my[w].table
      BY <1>3, StoredIs
    <2>3. Fits(Gd(i), my[w].table)
      BY <2>1, Locating DEF Fits
    <2>4. QED
      BY <1>3, <2>2, <2>3, Locating
  <1>4. CASE pc[w] \notin {"rgdWrite", "gdWrite"}
    <2>1. WordsOnly(Stores(w))
      BY <1>4, DomainsAre DEF WordsOnly
    <2>2. QED
      BY <2>1, <1>4, Locating DEF WordsOnly, Fits
  <1>5. QED
    BY <1>2, <1>3, <1>4

LEMMA PayloadFits ==
    ASSUME NEW w \in Writers
    PROVE  /\ Header \notin DOMAIN Payload(w) /\ Length \notin DOMAIN Payload(w)
           /\ \A l \in DOMAIN Payload(w) : Fits(l, Payload(w)[l])
           /\ WordsOnly(Payload(w))
  <1>1. WordsOnly(Payload(w))
    BY DEF WordsOnly, Payload
  <1>2. QED
    BY <1>1, Locating DEF WordsOnly, Fits

LEMMA LengthTyped ==
    ASSUME DeviceOK
    PROVE  disk[Length] \in 1 .. MaxCell /\ \A n \in media[Length] : n \in 1 .. MaxCell
  BY Locating DEF DeviceOK, Fits

LEMMA InFileTyped ==
    ASSUME DeviceOK, NEW c, InFile(c)
    PROVE  c \in Cells /\ c # Unallocated
  BY LengthTyped, GrainAssumption DEF InFile, Cells, FirstCell, Unallocated

LEMMA NoPair == \A a, b : <<a, b>> # <<>>
  OBVIOUS

LEMMA LookupTyped ==
    ASSUME DeviceOK, CacheTyped(cache), NEW i \in Indices, NEW c \in Cells
    PROVE  CacheTyped(Lookup(i, c))
  <1>1. CacheTyped(Loaded(i, c))
    BY DEF CacheTyped, Loaded, TableAt
  <1>2. QED
    BY <1>1 DEF Lookup

LEMMA TypedMoves ==
    ASSUME Typed, NEW w \in Writers,
           \/ BackingTable(w) \/ BackingGrain(w) \/ Allocate(w)
           \/ Invalidate(w) \/ LookAgain(w) \/ Redundant(w)
    PROVE  Typed'
  <1>1. DeviceOK'
    BY SameDevice DEF Typed, BackingTable, BackingGrain, Allocate, Invalidate, LookAgain, Redundant
  <1>2. ThreadsOK /\ pc[w] # "idle"
    BY DEF Typed, BackingTable, BackingGrain, Allocate, Invalidate, LookAgain, Redundant
  <1>3. WriterOK(w) /\ Here(w).gt \in Indices
    BY <1>2, HereIs DEF ThreadsOK
  <1>4. MemoryOK'
    <2>1. /\ gd' = gd /\ rgd' = rgd /\ cursor' = cursor /\ tables' = tables
          /\ merged' = merged \/ merged' = merged \cup {Here(w).gt}
      BY DEF memory, BackingTable, BackingGrain, Allocate, Invalidate, LookAgain, Redundant
    <2>2. CacheTyped(cache')
      <3>1. CASE BackingGrain(w) \/ LookAgain(w)
        <4>1. cache' = Lookup(Here(w).gt, my[w].table) /\ InFile(my[w].table)
          BY <3>1 DEF BackingGrain, LookAgain
        <4>2. QED
          BY <1>3, <4>1, InFileTyped, LookupTyped DEF Typed, MemoryOK
      <3>2. CASE cache' \in {cache, NoCache}
        BY <3>2 DEF Typed, MemoryOK, CacheTyped
      <3>3. QED
        BY <3>1, <3>2 DEF memory, BackingTable, Allocate, Invalidate, Redundant
    <2>3. QED
      BY <1>3, <2>1, <2>2 DEF Typed, MemoryOK
  <1>5. ThreadsOK'
    <2>1. CASE BackingTable(w)
      <3>1. PICK to \in {"allocate", "gt"} : Goto(w, to)
        BY <2>1 DEF BackingTable
      <3>2. PICK x : Becomes(w, my[w].at, my[w].end, x, my[w].new, my[w].purpose)
        BY <1>2, <2>1, MyIs DEF BackingTable
      <3>3. UNCHANGED <<promises, locks>>
        BY <2>1 DEF BackingTable
      <3>4. QED
        BY <1>2, <3>1, <3>2, <3>3, MoveThreads DEF Places, FreePlaces, HeldPlaces, TablePlaces, RgdPlaces,
           GdPlaces, SeedPlaces, FoundPlaces, GrainPlaces, EntryPlaces, NewPlaces
    <2>2. CASE BackingGrain(w)
      <3>1. PICK to \in {"allocate", "through"} : Goto(w, to)
        BY <2>2 DEF BackingGrain
      <3>2. PICK x : Becomes(w, my[w].at, my[w].end, my[w].table, x, my[w].purpose)
        BY <1>2, <2>2, MyIs DEF BackingGrain
      <3>3. UNCHANGED <<promises, locks>>
        BY <2>2 DEF BackingGrain
      <3>4. QED
        BY <1>2, <3>1, <3>2, <3>3, MoveThreads DEF Places, FreePlaces, HeldPlaces, TablePlaces, RgdPlaces,
           GdPlaces, SeedPlaces, FoundPlaces, GrainPlaces, EntryPlaces, NewPlaces
    <2>3. CASE Invalidate(w)
      <3>1. Goto(w, "gt2") /\ pc[w] = "invalidate" /\ UNCHANGED <<promises, locks>>
        BY <2>3 DEF Invalidate
      <3>2. Becomes(w, my[w].at, my[w].end, my[w].table, my[w].new, my[w].purpose)
        BY <1>2, <2>3, MyIs DEF Invalidate
      <3>3. /\ "gt2" \in Places /\ "gt2" # "idle" /\ "invalidate" \in HeldPlaces /\ "gt2" \notin NewPlaces
            /\ "gt2" \notin TablePlaces /\ "gt2" \notin RgdPlaces /\ "gt2" \notin GdPlaces
            /\ "gt2" \notin SeedPlaces
        BY DEF Places, HeldPlaces, FoundPlaces, TablePlaces, NewPlaces, RgdPlaces,
           GdPlaces, SeedPlaces, GrainPlaces, EntryPlaces
      <3>4. QED
        BY <1>2, <3>1, <3>2, <3>3, MoveThreads
    <2>4. CASE LookAgain(w)
      <3>1. PICK to \in {"through", "redundant", "grainSpace"} : Goto(w, to)
        BY <2>4 DEF LookAgain
      <3>2. PICK x : Becomes(w, my[w].at, my[w].end, my[w].table, x, my[w].purpose)
        BY <1>2, <2>4, MyIs DEF LookAgain
      <3>3. UNCHANGED <<promises, locks>> /\ pc[w] = "gt2"
        BY <2>4 DEF LookAgain
      <3>4. QED
        BY <1>2, <3>1, <3>2, <3>3, MoveThreads DEF Places, FreePlaces, HeldPlaces, TablePlaces, RgdPlaces,
           GdPlaces, SeedPlaces, FoundPlaces, GrainPlaces, EntryPlaces, NewPlaces
    <2>5. CASE Redundant(w)
      <3>1. PICK to \in {"tableSpace", "mergeWrite", "grainSpace"} :
              /\ Goto(w, to)
              /\ my' = IF to = "tableSpace" THEN [my EXCEPT ![w].purpose = "seed"] ELSE my
        BY <2>5 DEF Redundant
      <3>2. PICK x : /\ Becomes(w, my[w].at, my[w].end, my[w].table, my[w].new, x)
                     /\ to = "tableSpace" => x = "seed"
        BY <1>2, <3>1, MyIs
      <3>3. UNCHANGED <<promises, locks>> /\ pc[w] = "redundant"
        BY <2>5 DEF Redundant
      <3>4. QED
        BY <1>2, <3>1, <3>2, <3>3, MoveThreads DEF Places, FreePlaces, HeldPlaces, TablePlaces, RgdPlaces,
           GdPlaces, SeedPlaces, FoundPlaces, GrainPlaces, EntryPlaces, NewPlaces
    <2>6. CASE Allocate(w)
      <3>1. PICK to \in {"tableSpace", "gt2"} : Goto(w, to)
        BY <2>6 DEF Allocate
      <3>2. PICK x : Becomes(w, my[w].at, my[w].end, x, my[w].new, "primary")
        BY <1>2, <2>6, MyIs DEF Allocate
      <3>3. Goes(w, to)
        BY <1>2, <3>1, GotoIs DEF Places, HeldPlaces, TablePlaces, FoundPlaces
      <3>4. /\ allocation = NoOne /\ allocation' = w /\ gdLock' = gdLock /\ call' = call
        BY <2>6 DEF Allocate, promises
      <3>5. WriterOK(w)'
        <4>1. /\ pc'[w] = to /\ my'[w] = [at |-> my[w].at, end |-> my[w].end, table |-> x,
                                         new |-> my[w].new, purpose |-> "primary"]
          BY <3>2, <3>3 DEF Goes, Becomes
        <4>2. QED
          BY <1>2, <1>3, <3>4, <4>1 DEF WriterOK, HasTwin, NewPlaces, TablePlaces, SeedPlaces, RgdPlaces,
             GdPlaces, GrainPlaces, EntryPlaces
      <3>6. QED
        BY <1>2, <3>2, <3>3, <3>4, <3>5, StepThreads DEF ThreadsOK
    <2>7. QED
      BY <2>1, <2>2, <2>3, <2>4, <2>5, <2>6
  <1>6. faults' = faults /\ crashes' = crashes
    BY DEF budget, BackingTable, BackingGrain, Allocate, Invalidate, LookAgain, Redundant
  <1>7. QED
    BY <1>1, <1>4, <1>5, <1>6 DEF Typed

LEMMA TypedCall ==
    ASSUME Typed, NEW w \in Writers, CallWrite(w)
    PROVE  Typed'
  <1>1. DeviceOK' /\ MemoryOK' /\ UNCHANGED <<allocation, gdLock, faults, crashes>>
    BY SameDevice DEF Typed, CallWrite, memory, locks, budget, MemoryOK
  <1>2. PICK r \in Ranges : /\ my' = [my EXCEPT ![w] = [Idle EXCEPT !.at = r[1], !.end = r[2] + 1]]
                            /\ Disk!PromiseCall(w, r[1] .. r[2])
    BY DEF CallWrite
  <1>3. Becomes(w, r[1], r[2] + 1, 0, 0, "none")
    BY <1>2, MyIs DEF Typed
  <1>4. Goes(w, "gd")
    BY GotoIs DEF CallWrite, Typed, Places, FreePlaces
  <1>5. /\ call' = [q \in Writers |-> call'[q]]
        /\ \A q \in Writers \ {w} : call[q] = Disk!NoCall => call'[q] = Disk!NoCall
    <2>1. PICK B : Disk!PromiseCall(w, B)
      BY <1>2
    <2>2. call' = [q \in Writers |-> call'[q]]
      BY <2>1 DEF Disk!PromiseCall
    <2>3. ASSUME NEW q \in Writers \ {w}, call[q] = Disk!NoCall PROVE call'[q] = Disk!NoCall
      <3>1. call'[q] = [b \in DOMAIN call[q] |-> IF b \in B THEN call[q][b] \ {w} ELSE call[q][b]]
        BY <2>1 DEF Disk!PromiseCall
      <3>2. DOMAIN call[q] = {}
        BY <2>3 DEF Disk!NoCall
      <3>3. QED
        BY <3>1, <3>2 DEF Disk!NoCall
    <2>4. QED
      BY <2>2, <2>3
  <1>6. /\ r[1] \in Nat /\ r[2] + 1 \in Nat /\ r[1] < r[2] + 1 /\ r[2] + 1 <= Grains * BlocksPerGrain
    <2> DEFINE n == Grains * BlocksPerGrain
    <2>1. n \in Nat
      BY GrainAssumption DEF Grains
    <2>2. r[1] \in 0 .. n - 1 /\ r[2] \in 0 .. n - 1 /\ r[1] <= r[2]
      BY GrainAssumption DEF Blocks
    <2> HIDE DEF n
    <2>3. r[1] \in Nat /\ r[2] + 1 \in Nat /\ r[1] < r[2] + 1 /\ r[2] + 1 <= n
      BY <2>1, <2>2
    <2>4. QED
      BY <2>3 DEF n
  <1>7. WriterOK(w)'
    <2>1. /\ pc'[w] = "gd"
          /\ my'[w] = [at |-> r[1], end |-> r[2] + 1, table |-> 0, new |-> 0, purpose |-> "none"]
      BY <1>3, <1>4 DEF Becomes, Goes
    <2>2. QED
      BY <1>6, <2>1 DEF WriterOK, HasTwin, NewPlaces, HeldPlaces, FoundPlaces, TablePlaces, SeedPlaces,
         RgdPlaces, GdPlaces, GrainPlaces, EntryPlaces
  <1>8. ThreadsOK'
    BY <1>1, <1>3, <1>4, <1>5, <1>7, StepThreads DEF Typed
  <1>9. QED
    BY <1>1, <1>8 DEF Typed

\* A step of the lock's holder to another of its places, its locals as given.
LEMMA HolderMoves ==
    ASSUME Typed, NEW w \in Writers, NEW to \in HeldPlaces, Goto(w, to), pc[w] \in HeldPlaces,
           NEW table, NEW new, NEW purpose, Becomes(w, my[w].at, my[w].end, table, new, purpose),
           call' = call, allocation' = allocation, gdLock' \in {gdLock, w, NoOne},
           to \in TablePlaces => purpose \in {"primary", "twin", "seed"},
           to \in RgdPlaces => purpose \in {"twin", "seed"},
           to \in SeedPlaces => purpose = "seed",
           to \in NewPlaces => new \in Cells,
           (to \in TablePlaces \cup RgdPlaces /\ purpose = "twin") \/ to \in GdPlaces => table \in Cells
    PROVE  ThreadsOK'
  <1>1. Goes(w, to)
    BY GotoIs DEF Typed, Places
  <1>2. ThreadsOK /\ WriterOK(w) /\ call' = [q \in Writers |-> call'[q]] /\ allocation = w
    BY DEF ThreadsOK, Typed, WriterOK
  <1>3. pc[w] # "idle" /\ to # "idle"
    BY DEF HeldPlaces, FoundPlaces, TablePlaces, SeedPlaces, RgdPlaces, GdPlaces, GrainPlaces, EntryPlaces
  <1>4. WriterOK(w)'
    <2>1. /\ pc'[w] = to
          /\ my'[w] = [at |-> my[w].at, end |-> my[w].end, table |-> table, new |-> new,
                       purpose |-> purpose]
      BY <1>1 DEF Goes, Becomes
    <2>2. QED
      BY ONLY <1>2, <1>3, <2>1, allocation' = allocation,
           to \in TablePlaces => purpose \in {"primary", "twin", "seed"},
           to \in RgdPlaces => purpose \in {"twin", "seed"},
           to \in SeedPlaces => purpose = "seed",
           to \in NewPlaces => new \in Cells,
           (to \in TablePlaces \cup RgdPlaces /\ purpose = "twin") \/ to \in GdPlaces => table \in Cells
         DEF WriterOK, HasTwin
  <1>5. QED
    BY <1>1, <1>2, <1>4, StepThreads

LEMMA TypedSpace ==
    ASSUME Typed, NEW w \in Writers, TableSpace(w) \/ GrainSpace(w)
    PROVE  Typed'
  <1>1. PICK to \in {"tableZero", "grainZero", "grainData"} :
          TakeCell(w, to) /\ (to = "tableZero" <=> pc[w] = "tableSpace")
    BY DEF TableSpace, GrainSpace
  <1>2. cursor \in Cells /\ cursor \in 1 .. MaxCell /\ cursor' \in 2 .. MaxCell + 1
    BY <1>1, GrainAssumption DEF Typed, MemoryOK, TakeCell, Cells, FirstCell
  <1>3. DeviceOK'
    BY <1>1, <1>2, LengthIs DEF Typed, TakeCell
  <1>4. MemoryOK' /\ faults' = faults /\ crashes' = crashes
    BY <1>2 DEF Typed, MemoryOK, TableSpace, GrainSpace, budget
  <1>5. Becomes(w, my[w].at, my[w].end, my[w].table, cursor, my[w].purpose)
    BY <1>1, MyIs DEF Typed, TakeCell
  <1>6. WriterOK(w) /\ pc[w] \in {"tableSpace", "grainSpace"}
        /\ call' = call /\ allocation' = allocation /\ gdLock' = gdLock
    BY DEF TableSpace, GrainSpace, promises, locks, Typed, ThreadsOK
  <1>7. to \in HeldPlaces /\ pc[w] \in HeldPlaces /\ (to \in TablePlaces => pc[w] \in TablePlaces)
        /\ to \notin RgdPlaces /\ to \notin GdPlaces /\ to \notin SeedPlaces
    BY <1>1, <1>6 DEF HeldPlaces, FoundPlaces, TablePlaces, SeedPlaces, RgdPlaces, GdPlaces,
       GrainPlaces, EntryPlaces
  <1>8. to \in TablePlaces => /\ my[w].purpose \in {"primary", "twin", "seed"}
                              /\ my[w].purpose = "twin" => my[w].table \in Cells
    BY <1>6, <1>7 DEF WriterOK, HasTwin
  <1>9. ThreadsOK'
    BY <1>1, <1>2, <1>5, <1>6, <1>7, <1>8, HolderMoves DEF TakeCell
  <1>10. QED
    BY <1>3, <1>4, <1>9 DEF Typed

LEMMA TypedFlush ==
    ASSUME Typed, NEW w \in Writers,
           TableFlush(w) \/ RgdFlush(w) \/ GdFlush(w) \/ MergeFlush(w) \/ Flushed(w)
    PROVE  Typed'
  <1>1. DeviceOK'
    BY FlushIs DEF Typed, TableFlush, RgdFlush, GdFlush, MergeFlush, Flushed
  <1>2. /\ ThreadsOK /\ WriterOK(w) /\ faults' = faults /\ crashes' = crashes
        /\ call' = call /\ allocation' = allocation /\ gdLock' \in {gdLock, w, NoOne}
    BY DEF Typed, ThreadsOK, TableFlush, RgdFlush, GdFlush, MergeFlush, Flushed, budget, promises, locks
  <1> DEFINE i == Here(w).gt
             m == my[w]
  <1>3. CASE TableFlush(w)
    <2>1. pc[w] = "tableFlush" /\ MemoryOK' /\ Goto(w, AfterBlank(w))
      BY <1>3 DEF TableFlush, memory, Typed, MemoryOK
    <2>2. m.purpose \in {"primary", "twin", "seed"} /\ m.new \in Cells
          /\ (m.purpose = "twin" => m.table \in Cells)
      BY <1>2, <2>1 DEF WriterOK, HasTwin, TablePlaces, NewPlaces
    <2>3. CASE m.purpose = "primary"
      <3>1. PICK p \in {"twin", "primary"}, to \in {"tableSpace", "gdWrite"} :
              Goto(w, to) /\ my' = [my EXCEPT ![w].table = m.new, ![w].purpose = p]
        BY <1>3, <2>1, <2>3 DEF TableFlush, AfterBlank
      <3>2. Becomes(w, m.at, m.end, m.new, m.new, p)
        BY <1>2, <3>1, MyIs
      <3>3. to \in HeldPlaces /\ pc[w] \in HeldPlaces /\ to \notin RgdPlaces /\ to \notin NewPlaces
              /\ to \notin SeedPlaces
        BY <2>1 DEF HeldPlaces, NewPlaces, TablePlaces, RgdPlaces, SeedPlaces, GdPlaces, FoundPlaces,
           GrainPlaces, EntryPlaces
      <3>4. ThreadsOK'
        BY <1>2, <2>2, <3>1, <3>2, <3>3, HolderMoves
      <3>5. QED
        BY <1>1, <1>2, <2>1, <3>4 DEF Typed
    <2>4. CASE m.purpose \in {"twin", "seed"}
      <3>1. PICK to \in {"rgdWrite", "seedCopy"} :
              Goto(w, to) /\ my' = my /\ (to = "seedCopy" => m.purpose = "seed")
        BY <1>3, <2>1, <2>4 DEF TableFlush, AfterBlank
      <3>2. Becomes(w, m.at, m.end, m.table, m.new, m.purpose)
        BY <1>2, <3>1, MyIs
      <3>3. /\ to \in HeldPlaces /\ pc[w] \in HeldPlaces /\ to \notin TablePlaces /\ to \notin GdPlaces
            /\ to \in SeedPlaces => m.purpose = "seed"
        BY <2>1, <3>1 DEF HeldPlaces, NewPlaces, TablePlaces, RgdPlaces, SeedPlaces, GdPlaces, FoundPlaces,
           GrainPlaces, EntryPlaces
      <3>4. ThreadsOK'
        BY <1>2, <2>2, <2>4, <3>1, <3>2, <3>3, HolderMoves
      <3>5. QED
        BY <1>1, <1>2, <2>1, <3>4 DEF Typed
    <2>5. QED
      BY <2>2, <2>3, <2>4
  <1>4. CASE ~TableFlush(w)
    <2>1. Becomes(w, m.at, m.end, m.table, m.new, m.purpose)
      BY <1>2, <1>4, MyIs DEF RgdFlush, GdFlush, MergeFlush, Flushed
    <2>2. pc[w] \in HeldPlaces /\ i \in Indices
      <3>1. pc[w] \in HeldPlaces /\ pc[w] # "idle"
        BY <1>4, AfterFlushIs DEF RgdFlush, GdFlush, MergeFlush, Flushed, HeldPlaces, RgdPlaces,
           SeedPlaces, GdPlaces, FoundPlaces, GrainPlaces, EntryPlaces
      <3>2. QED
        BY <1>2, <3>1, HereIs
    <2>3. PICK to : /\ Goto(w, to) /\ to \in HeldPlaces /\ to \notin TablePlaces
                    /\ to \in RgdPlaces => pc[w] \in SeedPlaces /\ to = "rgdWrite"
                    /\ to \notin SeedPlaces
                    /\ to \in NewPlaces => pc[w] \in NewPlaces
                    /\ to \in GdPlaces => pc[w] = "rgdFlush" /\ m.purpose = "twin"
      <3>1. CASE RgdFlush(w)
        <4>1. PICK to \in {"gdWrite", "grainSpace"} :
                Goto(w, to) /\ pc[w] = "rgdFlush" /\ (to = "gdWrite" => m.purpose = "twin")
          BY <3>1 DEF RgdFlush
        <4>2. QED
          BY <4>1 DEF HeldPlaces, NewPlaces, TablePlaces, RgdPlaces, SeedPlaces, GdPlaces, FoundPlaces,
             GrainPlaces, EntryPlaces
      <3>2. CASE GdFlush(w)
        <4>1. Goto(w, "invalidate")
          BY <3>2 DEF GdFlush
        <4>2. QED
          BY <4>1 DEF HeldPlaces, NewPlaces, TablePlaces, RgdPlaces, SeedPlaces, GdPlaces, FoundPlaces,
             GrainPlaces, EntryPlaces
      <3>3. CASE MergeFlush(w)
        <4>1. Goto(w, "grainSpace")
          BY <3>3 DEF MergeFlush
        <4>2. QED
          BY <4>1 DEF HeldPlaces, NewPlaces, TablePlaces, RgdPlaces, SeedPlaces, GdPlaces, FoundPlaces,
             GrainPlaces, EntryPlaces
      <3>4. CASE Flushed(w)
        <4>1. PICK to \in {"rgdWrite", "entryRedundant", "entryPrimary"} :
                /\ Goto(w, to)
                /\ pc[w] \in {"seedFlush", "grainFlush", "entryFlush"}
                /\ to = "rgdWrite" <=> pc[w] = "seedFlush"
          BY <3>4, AfterFlushIs DEF Flushed
        <4>2. QED
          BY <4>1 DEF HeldPlaces, NewPlaces, TablePlaces, RgdPlaces, SeedPlaces, GdPlaces, FoundPlaces,
             GrainPlaces, EntryPlaces
      <3>5. QED
        BY <1>4, <3>1, <3>2, <3>3, <3>4
    <2>4. /\ to \in RgdPlaces => m.purpose \in {"twin", "seed"} /\ (m.purpose = "twin" => m.table \in Cells)
          /\ to \in SeedPlaces => m.purpose = "seed"
          /\ to \in NewPlaces => m.new \in Cells
          /\ to \in GdPlaces => m.table \in Cells
      BY ONLY <1>2, <2>3, <2>2 DEF WriterOK, HasTwin, RgdPlaces, SeedPlaces
    <2>5. ThreadsOK'
      BY <1>2, <2>1, <2>2, <2>3, <2>4, HolderMoves
    <2>6. MemoryOK'
      <3>1. /\ pc[w] = "rgdFlush" => m.new \in Cells
            /\ pc[w] = "gdFlush" => m.table \in Cells
        BY <1>2 DEF WriterOK, HasTwin, NewPlaces, RgdPlaces, GdPlaces
      <3>2. /\ \/ gd' = gd
               \/ pc[w] = "gdFlush" /\ gd' = [gd EXCEPT ![i] = m.table]
            /\ \/ rgd' = rgd
               \/ pc[w] = "rgdFlush" /\ rgd' = [rgd EXCEPT ![i] = m.new]
            /\ merged' = merged \/ merged' = merged \cup {i}
            /\ cursor' = cursor /\ tables' = tables /\ cache' = cache
        <4>1. CASE RgdFlush(w)
          BY <4>1 DEF RgdFlush
        <4>2. CASE GdFlush(w)
          BY <4>2 DEF GdFlush
        <4>3. CASE MergeFlush(w)
          BY <4>3 DEF MergeFlush
        <4>4. CASE Flushed(w)
          BY <4>4 DEF Flushed, memory
        <4>5. QED
          BY <1>4, <4>1, <4>2, <4>3, <4>4
      <3>3. QED
        BY <2>2, <3>1, <3>2 DEF Typed, MemoryOK
    <2>7. QED
      BY <1>1, <1>2, <2>5, <2>6 DEF Typed
  <1>5. QED
    BY <1>3, <1>4

LEMMA TypedStore ==
    ASSUME Typed, NEW w \in Writers, Store(w)
    PROVE  Typed'
  <1>1. DeviceOK'
    BY StoresFit, WriteIs DEF Typed, Store
  <1>2. MemoryOK' /\ faults' = faults /\ crashes' = crashes
    BY DEF Typed, MemoryOK, Store, memory, budget
  <1>3. /\ Becomes(w, my[w].at, my[w].end, my[w].table, my[w].new, my[w].purpose)
        /\ WriterOK(w) /\ call' = call /\ allocation' = allocation /\ gdLock' \in {gdLock, w}
    BY MyIs DEF Typed, ThreadsOK, Store, promises
  <1>4. PICK to : Goto(w, to) /\ to = AfterStore[pc[w]]
    BY DEF Store
  <1>5. /\ pc[w] \in HeldPlaces /\ to \in HeldPlaces
        /\ to \in TablePlaces => pc[w] \in TablePlaces
        /\ to \in RgdPlaces => pc[w] \in RgdPlaces
        /\ to \in SeedPlaces => pc[w] \in SeedPlaces
        /\ to \in GdPlaces => pc[w] \in GdPlaces
        /\ to \in NewPlaces => pc[w] \in NewPlaces
    BY <1>4, AfterStoreIs DEF Store, HeldPlaces, NewPlaces, TablePlaces, RgdPlaces, SeedPlaces, GdPlaces,
       FoundPlaces, GrainPlaces, EntryPlaces
  <1>6. /\ to \in TablePlaces => my[w].purpose \in {"primary", "twin", "seed"}
        /\ to \in RgdPlaces => my[w].purpose \in {"twin", "seed"}
        /\ to \in SeedPlaces => my[w].purpose = "seed"
        /\ to \in NewPlaces => my[w].new \in Cells
        /\ (to \in TablePlaces \cup RgdPlaces /\ my[w].purpose = "twin") \/ to \in GdPlaces
             => my[w].table \in Cells
    BY ONLY <1>3, <1>5 DEF WriterOK, HasTwin
  <1>7. ThreadsOK'
    BY <1>3, <1>4, <1>5, <1>6, HolderMoves DEF Typed
  <1>8. QED
    BY <1>1, <1>2, <1>7 DEF Typed

LEMMA TypedEnd ==
    ASSUME Typed, NEW w \in Writers, Through(w) \/ Refresh(w)
    PROVE  Typed'
  <1>1. pc[w] # "idle" /\ ChunkDone(w) /\ faults' = faults /\ crashes' = crashes
    BY DEF Through, Refresh, budget
  <1>2. ThreadsOK' /\ Here(w).gt \in Indices /\ Here(w).gte \in Slots
    BY <1>1, ChunkThreads, HereIs DEF Typed, ThreadsOK
  <1>3. CASE Through(w)
    <2>1. DeviceOK'
      BY <1>3, PayloadFits, WriteIs DEF Typed, Through
    <2>2. MemoryOK'
      BY <1>3 DEF Typed, MemoryOK, Through, memory
    <2>3. QED
      BY <1>1, <1>2, <2>1, <2>2 DEF Typed
  <1>4. CASE Refresh(w)
    <2>1. DeviceOK'
      BY <1>4, SameDevice DEF Typed, Refresh
    <2>2. CacheTyped(cache')
      <3>1. CASE cache.loaded = <<Here(w).gt, my[w].table>>
        <4>1. cache # NoCache
          <5>1. <<Here(w).gt, my[w].table>> # <<>> /\ NoCache.loaded = <<>>
            BY NoPair DEF NoCache
          <5>2. QED
            BY <3>1, <5>1
        <4>2. /\ cache = [loaded |-> cache.loaded, entries |-> cache.entries]
              /\ cache.loaded \in Indices \X Cells
              /\ cache.entries = [e \in Slots |-> cache.entries[e]]
          BY <4>1 DEF Typed, MemoryOK, CacheTyped
        <4>3. cache' = [cache EXCEPT !.entries[Here(w).gte] = my[w].new]
          BY <1>4, <3>1 DEF Refresh
        <4>4. /\ cache' = [loaded |-> cache'.loaded, entries |-> cache'.entries]
              /\ cache'.loaded = cache.loaded
              /\ cache'.entries = [cache.entries EXCEPT ![Here(w).gte] = my[w].new]
          BY ONLY <4>2, <4>3
        <4>5. cache'.entries = [e \in Slots |-> cache'.entries[e]]
          BY ONLY <4>2, <4>4
        <4>6. QED
          BY <4>2, <4>4, <4>5 DEF CacheTyped
      <3>2. QED
        BY <1>4, <3>1 DEF Refresh, Typed, MemoryOK
    <2>3. MemoryOK'
      BY <1>4, <2>2 DEF Typed, MemoryOK, Refresh
    <2>4. QED
      BY <1>1, <1>2, <2>1, <2>3 DEF Typed
  <1>5. QED
    BY <1>3, <1>4

\* The device after a call that failed.
LEMMA FailedDevice ==
    ASSUME Typed, NEW w \in Writers, Refused(w) \/ WriteFails(w) \/ FlushFails(w)
    PROVE  DeviceOK'
  <1>1. CASE UNCHANGED devVars
    BY <1>1, SameDevice DEF Typed
  <1>2. CASE WriteFails(w) /\ pc[w] \in DOMAIN AfterStore /\ DevWriteAll(Stores(w))
    BY <1>2, StoresFit, WriteIs DEF Typed
  <1>3. CASE DevWriteAll(Payload(w))
    BY <1>3, PayloadFits, WriteIs DEF Typed
  <1>4. CASE cursor <= MaxCell /\ DevWrite(Length, cursor)
    <2>1. cursor \in 1 .. MaxCell
      BY <1>4, GrainAssumption DEF Typed, MemoryOK
    <2>2. QED
      BY <1>4, <2>1, LengthIs DEF Typed
  <1>5. QED
    <2>1. CASE WriteFails(w)
      BY <1>1, <1>2, <1>3, <1>4, <2>1 DEF WriteFails
    <2>2. QED
      BY <1>1, <2>1 DEF Refused, FlushFails, DevFlushFails

LEMMA TypedFail ==
    ASSUME Typed, NEW w \in Writers, Refused(w) \/ WriteFails(w) \/ FlushFails(w)
    PROVE  Typed'
  <1>1. ThreadsOK'
    BY FailThreads DEF Typed, Refused, WriteFails, FlushFails
  <1>2. MemoryOK'
    BY DEF Typed, MemoryOK, Refused, WriteFails, FlushFails, memory
  <1>3. faults' \in Nat /\ crashes' \in Nat
    BY DEF Typed, Refused, WriteFails, FlushFails, budget
  <1>4. QED
    BY <1>1, <1>2, <1>3, FailedDevice DEF Typed

\* What opening makes of a device.
LEMMA OpenedTyped ==
    ASSUME NEW d, d[Length] \in 1 .. MaxCell, \A l \in Locs : Fits(l, d[l])
    PROVE  /\ Opened(d).gd \in [Indices -> {Unallocated} \cup Cells]
           /\ Opened(d).rgd \in [Indices -> {Unallocated} \cup Cells]
           /\ Opened(d).cursor \in 2 .. MaxCell + 1 /\ Opened(d).tables \subseteq Cells
           /\ \A i \in Indices : Opened(d).gd[i] = d[Gd(i)] /\ Opened(d).rgd[i] = d[Rgd(i)]
           /\ Opened(d).cursor = d[Length] + 1
           /\ \A c : c \in Opened(d).tables <=> c \in Named(d) /\ c \in FirstCell .. d[Length]
  <1>1. \A i \in Indices : {d[Gd(i)], d[Rgd(i)]} \subseteq {Unallocated} \cup Cells
    BY Locating DEF Fits
  <1>2. d[Length] + 1 \in 2 .. MaxCell + 1 /\ FirstCell .. d[Length] \subseteq Cells
    BY GrainAssumption DEF Cells, FirstCell
  <1>3. QED
    BY <1>1, <1>2 DEF Opened

LEMMA TypedOthers ==
    ASSUME Typed, (\E i \in Indices : ReaderLoads(i)) \/ Flush \/ Crash \/ UNCHANGED vars
    PROVE  Typed'
  <1>1. CASE \E i \in Indices : ReaderLoads(i)
    <2>1. PICK i \in Indices : ReaderLoads(i)
      BY <1>1
    <2>2. CacheTyped(cache')
      BY <2>1, InFileTyped, LookupTyped DEF ReaderLoads, Typed, MemoryOK
    <2>3. DeviceOK' /\ MemoryOK' /\ faults' = faults /\ crashes' = crashes
      BY <2>1, <2>2, SameDevice DEF ReaderLoads, Typed, MemoryOK, budget
    <2>4. UNCHANGED <<pc, my, call, allocation, gdLock>>
      BY <2>1 DEF ReaderLoads, promises, locks
    <2>5. QED
      BY <2>3, <2>4, SameThreads DEF Typed
  <1>2. CASE Flush
    <2>1. DeviceOK' /\ MemoryOK' /\ faults' = faults /\ crashes' = crashes
      BY <1>2, FlushIs DEF Flush, Typed, MemoryOK, memory, budget
    <2>2. UNCHANGED <<pc, my, call, allocation, gdLock>>
      BY <1>2 DEF Flush, Disk!PromiseFlush, locks
    <2>3. QED
      BY <2>1, <2>2, SameThreads DEF Typed
  <1>3. CASE Crash
    <2>1. PICK c \in CrashOutcomes : /\ DevCrash(c)
                                     /\ gd' = Opened(c).gd /\ rgd' = Opened(c).rgd
                                     /\ cursor' = Opened(c).cursor /\ tables' = Opened(c).tables
      BY <1>3 DEF Crash
    <2>2. DeviceOK' /\ \A l \in Locs : c[l] \in media[l]
      BY <2>1, CrashIs DEF Typed
    <2>3. c[Length] \in 1 .. MaxCell /\ \A l \in Locs : Fits(l, c[l])
      BY <2>2, Locating, LengthTyped DEF Typed, DeviceOK
    <2>4. MemoryOK'
      BY <1>3, <2>1, <2>3, OpenedTyped DEF Crash, MemoryOK, CacheTyped
    <2>5. faults' \in Nat /\ crashes' \in Nat
      BY <1>3 DEF Crash, Typed
    <2>6. /\ pc' = [w \in Writers |-> "idle"] /\ my' = [w \in Writers |-> Idle]
          /\ call' = [w \in Writers |-> Disk!NoCall] /\ allocation' = NoOne /\ gdLock' = NoOne
      BY <1>3 DEF Crash, Disk!PromiseCrash
    <2>7. QED
      BY <2>2, <2>4, <2>5, <2>6, IdleThreads DEF Typed
  <1>4. CASE UNCHANGED vars
    <2>1. DeviceOK' /\ MemoryOK' /\ faults' = faults /\ crashes' = crashes
      BY <1>4, SameDevice DEF vars, Typed, MemoryOK, memory, budget, devVars
    <2>2. UNCHANGED <<pc, my, call, allocation, gdLock>>
      BY <1>4 DEF vars, promises, locks
    <2>3. QED
      BY <2>1, <2>2, SameThreads DEF Typed
  <1>5. QED
    BY <1>1, <1>2, <1>3, <1>4

LEMMA TypedStep == Typed /\ [Next]_vars => Typed'
  <1> SUFFICES ASSUME Typed, [Next]_vars PROVE Typed'
    OBVIOUS
  <1>1. ASSUME NEW w \in Writers, WriterStep(w) PROVE Typed'
    BY <1>1, TypedMoves, TypedSpace, TypedFlush, TypedStore, TypedEnd, TypedFail DEF WriterStep
  <1>2. QED
    BY <1>1, TypedCall, TypedOthers DEF Next

LEMMA TypedInit == Init => Typed
  <1> SUFFICES ASSUME Init PROVE Typed
    OBVIOUS
  <1>1. /\ disk = [l \in Locs |-> disk[l]] /\ disk[Length] \in 1 .. MaxCell
        /\ disk[Header] \in [rgd : BOOLEAN, zeroed : BOOLEAN]
        /\ \A i \in Indices : {disk[Gd(i)], disk[Rgd(i)]} \subseteq {Unallocated} \cup Cells
    BY ImageAssumption DEF Init
  <1>2. \A l \in Locs : Fits(l, disk[l])
    <2>1. SUFFICES ASSUME NEW l \in Locs PROVE Fits(l, disk[l])
      OBVIOUS
    <2>2. ASSUME NEW i \in Indices, l = Gd(i) \/ l = Rgd(i) PROVE disk[l] \in {Unallocated} \cup Cells
      BY <1>1, <2>2
    <2>3. QED
      BY <1>1, <2>2 DEF Fits
  <1>3. media = [l \in Locs |-> {disk[l]}]
    BY <1>1 DEF Init
  <1>4. DeviceOK
    BY <1>1, <1>2, <1>3, Locating DEF DeviceOK
  <1>5. MemoryOK
    BY <1>1, <1>2, OpenedTyped DEF Init, MemoryOK, CacheTyped
  <1>6. /\ pc = [w \in Writers |-> "idle"] /\ my = [w \in Writers |-> Idle]
        /\ call = [w \in Writers |-> Disk!NoCall] /\ allocation = NoOne /\ gdLock = NoOne
    BY DEF Init, Disk!Init
  <1>7. ThreadsOK
    BY <1>6, StartThreads
  <1>8. faults \in Nat /\ crashes \in Nat
    BY GrainAssumption DEF Init
  <1>9. QED
    BY <1>4, <1>5, <1>7, <1>8 DEF Typed

\* The variables keep their types.
THEOREM TypeCorrect == Spec => []TypeOK
  <1>1. Typed => TypeOK
    <2>1. SUFFICES ASSUME Typed PROVE TypeOK
      OBVIOUS
    <2>2. Locations = Locs /\ (\A l \in Locs : disk[l] \in media[l])
      BY <2>1 DEF Typed, DeviceOK, Locations
    <2>3. disk[Header] \in [rgd : BOOLEAN, zeroed : BOOLEAN] /\ disk[Length] \in 1 .. MaxCell
      BY <2>1, LengthTyped, Locating DEF Typed, DeviceOK, Fits
    <2>4. \/ cache = NoCache
          \/ cache.loaded \in Indices \X Cells /\ DOMAIN cache.entries = Slots
      BY <2>1 DEF Typed, MemoryOK, CacheTyped
    <2>5. /\ allocation \in Writers \cup {NoOne} /\ gdLock \in {allocation, NoOne}
          /\ \A w \in Writers : pc[w] = "idle" => call[w] = Disk!NoCall
      BY <2>1 DEF Typed, ThreadsOK, WriterOK
    <2>6. QED
      BY <2>1, <2>2, <2>3, <2>4, <2>5 DEF Typed, MemoryOK, TypeOK
  <1>2. QED
    BY <1>1, TypedInit, TypedStep, PTL DEF Spec

-----------------------------------------------------------------------------
(* Space: the invariant *)

\* The cells that are a primary table, now or in what a crash may leave, and the
\* places that then name cells.
TableCells == {c \in Cells : \E i \in Indices : c \in media[Gd(i)]}
PointerPlaces == {Gd(i) : i \in Indices} \cup {Rgd(i) : i \in Indices}
                 \cup {At(c, e) : c \in TableCells, e \in Slots}

Claim(l, x) == l \in PointerPlaces /\ x \in media[l] /\ NamesGrain(x)

\* Whatever length a crash leaves, x is inside the file and below the cursor.
Settled(x) == \A n \in media[Length] : x <= n

\* No cell has two names and every name is of a cell of the file; the tables are
\* protected, and no redundant table is one of them.
Space ==
    /\ \A l \in PointerPlaces : \A x \in media[l] :
          NamesGrain(x) => x \in Cells /\ x < cursor /\ Settled(x)
    /\ \A l, m \in PointerPlaces : \A x \in media[l] \cap media[m] : NamesGrain(x) => l = m
    /\ TableCells \subseteq tables
    /\ \A i \in Indices : gd[i] < cursor /\ rgd[i] < cursor /\ rgd[i] \notin TableCells

\* A cell that has been handed out and is not named anywhere.
Fresh(c) ==
    /\ c \in Cells /\ c < cursor
    /\ \A l \in PointerPlaces : c \in media[l] => ~NamesGrain(c)
    /\ \A i \in Indices : gd[i] # c /\ rgd[i] # c

\* A table that may be named.
Ready(c) ==
    /\ Fresh(c) /\ Settled(c) /\ c \in tables
    /\ \A e \in Slots : media[At(c, e)] = {Unallocated}

\* What the holder of the allocation lock owns at place p, with table t, new cell n
\* and purpose u, for directory entry i.
Claims(p, t, n, u, i) ==
    /\ p \in TablePlaces \cup {"rgdWrite", "rgdFlush"} /\ u = "twin" => Ready(t)
    /\ p \in {"tableZero", "tableFlush"} =>
          /\ Fresh(n) /\ n <= disk[Length] /\ n \in tables
          /\ u = "twin" => n # t
    /\ p = "tableFlush" => \A e \in Slots : disk[At(n, e)] = Unallocated
    /\ p \in SeedPlaces \cup {"rgdWrite"} => Fresh(n) /\ Settled(n)
    /\ p = "rgdWrite" /\ u = "twin" => n # t
    /\ p = "rgdFlush" => disk[Rgd(i)] = n
    /\ p = "gdWrite" => Ready(t)
    /\ p = "gdFlush" => disk[Gd(i)] = t
    /\ p \in GrainPlaces => Fresh(n) /\ n <= disk[Length]
    /\ p \in EntryPlaces => Settled(n)

Owns(w) == Claims(pc[w], my[w].table, my[w].new, my[w].purpose, Here(w).gt)

Safe == Typed /\ Space /\ \A w \in Writers : Owns(w)

-----------------------------------------------------------------------------
(* Names *)

LEMMA CellsAre ==
    /\ \A c \in Cells : c \in Int /\ c # Unallocated /\ NamesGrain(c)
    /\ ~NamesGrain(Unallocated) /\ \A x : NamesGrain(x) => x # Unallocated
    /\ Unallocated \notin Cells
  BY GrainAssumption DEF Cells, FirstCell, Unallocated, NamesGrain, ZeroedGrain

LEMMA NamesKept ==
    ASSUME disk'[Header] = disk[Header]
    PROVE  \A x : NamesGrain(x)' <=> NamesGrain(x)
  BY DEF NamesGrain, UsesZeroed

LEMMA DirectoriesName ==
    ASSUME DeviceOK
    PROVE  /\ \A i \in Indices : /\ media[Gd(i)] \subseteq {Unallocated} \cup Cells
                                 /\ media[Rgd(i)] \subseteq {Unallocated} \cup Cells
           /\ PointerPlaces \subseteq Locs
  <1>1. \A i \in Indices : /\ media[Gd(i)] \subseteq {Unallocated} \cup Cells
                           /\ media[Rgd(i)] \subseteq {Unallocated} \cup Cells
    BY Locating DEF DeviceOK, Fits
  <1>2. QED
    BY <1>1, Locating DEF PointerPlaces, TableCells

\* A step after which nothing names a cell it did not name before.
Tame ==
    /\ disk'[Header] = disk[Header]
    /\ cursor <= cursor' /\ tables \subseteq tables'
    /\ \A i \in Indices : media'[Gd(i)] \subseteq media[Gd(i)] /\ media'[Rgd(i)] \subseteq media[Rgd(i)]
    /\ \A c \in TableCells, e \in Slots : media'[At(c, e)] \subseteq media[At(c, e)]
    /\ \A n \in media'[Length] : n \in media[Length] \/ (n \in Int /\ cursor <= n)

LEMMA TamePlaces ==
    ASSUME Typed, Tame
    PROVE  /\ TableCells' \subseteq TableCells /\ PointerPlaces' \subseteq PointerPlaces
           /\ \A l \in PointerPlaces' : media'[l] \subseteq media[l]
  <1>1. TableCells' \subseteq TableCells
    BY DEF TableCells, Tame
  <1>2. PointerPlaces' \subseteq PointerPlaces
    BY <1>1 DEF PointerPlaces
  <1>3. ASSUME NEW l \in PointerPlaces PROVE media'[l] \subseteq media[l]
    <2>1. CASE \E i \in Indices : l = Gd(i) \/ l = Rgd(i)
      BY <2>1 DEF Tame
    <2>2. CASE \E c \in TableCells, e \in Slots : l = At(c, e)
      BY <2>2 DEF Tame
    <2>3. QED
      BY <2>1, <2>2 DEF PointerPlaces
  <1>4. QED
    BY <1>1, <1>2, <1>3

LEMMA TameSpace ==
    ASSUME Typed, Typed', Space, Tame,
           \A i \in Indices : gd'[i] < cursor' /\ rgd'[i] < cursor' /\ rgd'[i] \notin TableCells
    PROVE  Space'
  <1>1. cursor \in Int /\ cursor' \in Int /\ cursor <= cursor'
    BY DEF Typed, MemoryOK, Tame
  <1>2. ASSUME NEW l \in PointerPlaces', NEW x \in media'[l], NamesGrain(x)'
        PROVE  x \in Cells /\ x < cursor' /\ Settled(x)'
    <2>1. x \in Cells /\ x \in Int /\ x < cursor /\ Settled(x)
      BY <1>2, TamePlaces, NamesKept, CellsAre DEF Space, Tame
    <2>2. ASSUME NEW n \in media'[Length] PROVE x <= n
      <3>1. CASE n \in media[Length]
        BY <2>1, <3>1 DEF Settled
      <3>2. CASE n \in Int /\ cursor <= n
        BY <1>1, <2>1, <3>2
      <3>3. QED
        BY <3>1, <3>2 DEF Tame
    <2>3. QED
      BY <1>1, <2>1, <2>2 DEF Settled
  <1>3. \A l, m \in PointerPlaces' : \A x \in media'[l] \cap media'[m] : NamesGrain(x)' => l = m
    BY TamePlaces, NamesKept DEF Space, Tame
  <1>4. TableCells' \subseteq tables' /\ \A i \in Indices : rgd'[i] \notin TableCells'
    BY TamePlaces DEF Space, Tame
  <1>5. QED
    BY <1>2, <1>3, <1>4 DEF Space

LEMMA TameFresh ==
    ASSUME Typed, Typed', Tame, NEW c, Fresh(c), \A i \in Indices : gd'[i] # c /\ rgd'[i] # c
    PROVE  Fresh(c)' /\ (Settled(c) => Settled(c)')
  <1>1. cursor \in Int /\ cursor' \in Int /\ cursor <= cursor' /\ c \in Int /\ c < cursor /\ c \in Cells
    BY CellsAre DEF Typed, MemoryOK, Tame, Fresh
  <1>2. \A l \in PointerPlaces' : c \in media'[l] => ~NamesGrain(c)'
    BY TamePlaces, NamesKept DEF Fresh, Tame
  <1>3. Settled(c) => Settled(c)'
    BY <1>1 DEF Settled, Tame
  <1>4. QED
    BY <1>1, <1>2, <1>3 DEF Fresh

\* A step that writes one fresh, settled cell's name at one place.
Names(p, x) ==
    /\ disk'[Header] = disk[Header] /\ cursor' = cursor /\ tables' = tables
    /\ media'[Length] = media[Length] /\ gd' = gd /\ rgd' = rgd
    /\ PointerPlaces' \subseteq PointerPlaces
    /\ \A l \in PointerPlaces' : media'[l] \subseteq media[l] \cup (IF l = p THEN {x} ELSE {})

LEMMA NamesSpace ==
    ASSUME Typed, Space, NEW p, NEW x, Fresh(x), Settled(x), Names(p, x), TableCells' \subseteq TableCells
    PROVE  Space'
  <1>1. ASSUME NEW l \in PointerPlaces', NEW y \in media'[l], NamesGrain(y)'
        PROVE  y \in Cells /\ y < cursor' /\ Settled(y)'
    <2>1. y \in Cells /\ y < cursor /\ Settled(y)
      BY <1>1, NamesKept DEF Space, Names, Fresh
    <2>2. QED
      BY <2>1 DEF Settled, Names
  <1>2. \A l, m \in PointerPlaces' : \A y \in media'[l] \cap media'[m] : NamesGrain(y)' => l = m
    BY NamesKept DEF Space, Names, Fresh
  <1>3. TableCells' \subseteq tables' /\ \A i \in Indices : rgd'[i] \notin TableCells'
    BY DEF Space, Names
  <1>4. \A i \in Indices : gd'[i] < cursor' /\ rgd'[i] < cursor'
    BY DEF Space, Names
  <1>5. QED
    BY <1>1, <1>2, <1>3, <1>4 DEF Space

LEMMA NamesFresh ==
    ASSUME Typed, NEW p, NEW x, Names(p, x), NEW c, Fresh(c), c # x
    PROVE  Fresh(c)' /\ (Settled(c) => Settled(c)')
  BY NamesKept DEF Names, Fresh, Settled
-----------------------------------------------------------------------------
(* Device writes *)

LEMMA WordsTame ==
    ASSUME Typed, NEW f, DevWriteAll(f), NEW c, c \notin TableCells,
           \A l \in DOMAIN f : \E k : l = At(c, k), cursor' = cursor, tables' = tables
    PROVE  /\ Tame /\ disk'[Length] = disk[Length] /\ media'[Length] = media[Length]
           /\ \A l \in Locs : IF l \in DOMAIN f THEN disk'[l] = f[l]
                              ELSE disk'[l] = disk[l] /\ media'[l] = media[l]
  <1>1. /\ Header \notin DOMAIN f /\ Length \notin DOMAIN f
        /\ \A l \in DOMAIN f : Fits(l, f[l])
        /\ \A i \in Indices : Gd(i) \notin DOMAIN f /\ Rgd(i) \notin DOMAIN f
        /\ \A t \in TableCells, e \in Slots : At(t, e) \notin DOMAIN f
    BY Locating DEF Fits
  <1>2. /\ disk'[Header] = disk[Header]
        /\ \A l \in Locs : IF l \in DOMAIN f THEN disk'[l] = f[l]
                           ELSE disk'[l] = disk[l] /\ media'[l] = media[l]
    BY <1>1, WriteIs DEF Typed
  <1>3. /\ \A i \in Indices : media'[Gd(i)] = media[Gd(i)] /\ media'[Rgd(i)] = media[Rgd(i)]
        /\ \A t \in TableCells, e \in Slots : media'[At(t, e)] = media[At(t, e)]
        /\ disk'[Length] = disk[Length] /\ media'[Length] = media[Length]
    BY <1>1, <1>2, Locating DEF TableCells
  <1>4. cursor <= cursor' /\ tables \subseteq tables'
    BY DEF Typed, MemoryOK
  <1>5. Tame
    BY <1>2, <1>3, <1>4 DEF Tame
  <1>6. QED
    BY <1>2, <1>3, <1>5

LEMMA OneWriteNames ==
    ASSUME Typed, NEW f, DevWriteAll(f), NEW p, DOMAIN f = {p}, p \notin {Length, Header},
           \A i \in Indices : p # Gd(i), Fits(p, f[p]),
           cursor' = cursor, tables' = tables, gd' = gd, rgd' = rgd
    PROVE  Names(p, f[p]) /\ TableCells' = TableCells
  <1>1. /\ disk'[Header] = disk[Header]
        /\ \A l \in Locs : media'[l] = IF l = p THEN media[l] \cup {f[p]} ELSE media[l]
    BY WriteIs DEF Typed
  <1>2. TableCells' = TableCells
    BY <1>1, Locating DEF TableCells
  <1>3. PointerPlaces' = PointerPlaces /\ PointerPlaces \subseteq Locs
    BY <1>2, DirectoriesName DEF PointerPlaces, Typed
  <1>4. media'[Length] = media[Length]
    BY <1>1, Locating
  <1>5. QED
    BY <1>1, <1>2, <1>3, <1>4 DEF Names

\* publish_directory_entry, primary: a table that is ready becomes a table.
LEMMA TableNamed ==
    ASSUME Typed, Space, NEW f, DevWriteAll(f), NEW i \in Indices, DOMAIN f = {Gd(i)}, Ready(f[Gd(i)]),
           cursor' = cursor, tables' = tables, gd' = gd, rgd' = rgd
    PROVE  Space' /\ disk'[Gd(i)] = f[Gd(i)]
  <1> DEFINE t == f[Gd(i)]
  <1>1. /\ t \in Cells /\ t < cursor /\ Settled(t) /\ t \in tables /\ Fresh(t)
        /\ \A e \in Slots : media[At(t, e)] = {Unallocated}
    BY DEF Ready, Fresh
  <1>2. Fits(Gd(i), t)
    BY <1>1, Locating DEF Fits
  <1>3. /\ disk'[Header] = disk[Header] /\ disk'[Gd(i)] = t
        /\ \A l \in Locs : media'[l] = IF l = Gd(i) THEN media[l] \cup {t} ELSE media[l]
    BY <1>2, WriteIs, Locating DEF Typed
  <1> HIDE DEF t
  <1>4. \A c : c \in TableCells' <=> c \in TableCells \/ c = t
    <2>1. \A j \in Indices : media'[Gd(j)] = IF j = i THEN media[Gd(j)] \cup {t} ELSE media[Gd(j)]
      BY <1>3, Locating
    <2>2. QED
      BY <1>1, <2>1 DEF TableCells
  <1>5. ASSUME NEW l \in PointerPlaces'
        PROVE  \/ l \in PointerPlaces /\ media'[l] = media[l] \cup (IF l = Gd(i) THEN {t} ELSE {})
               \/ media'[l] = {Unallocated}
    <2>1. CASE l \in PointerPlaces
      BY <1>3, <2>1, DirectoriesName DEF Typed
    <2>2. CASE \E e \in Slots : l = At(t, e)
      <3>1. PICK e \in Slots : l = At(t, e)
        BY <2>2
      <3>2. l \in Locs /\ l # Gd(i)
        BY <1>1, <3>1, Locating
      <3>3. media'[l] = media[l]
        BY <1>3, <3>2
      <3>4. QED
        BY <1>1, <3>1, <3>3
    <2>3. ASSUME NEW c \in TableCells', NEW e \in Slots, l = At(c, e)
          PROVE  l \in PointerPlaces \/ c = t
      BY <1>4, <2>3 DEF PointerPlaces
    <2>4. CASE \E j \in Indices : l = Gd(j) \/ l = Rgd(j)
      BY <2>1, <2>4 DEF PointerPlaces
    <2>5. QED
      BY <2>1, <2>2, <2>3, <2>4 DEF PointerPlaces
  <1>6. ASSUME NEW l \in PointerPlaces', NEW x \in media'[l], NamesGrain(x)'
        PROVE  /\ x \in Cells /\ x < cursor' /\ Settled(x)' /\ l \in PointerPlaces
               /\ x \in media[l] \/ (x = t /\ l = Gd(i))
    <2>1. NamesGrain(x) /\ l \in PointerPlaces /\ (x \in media[l] \/ (x = t /\ l = Gd(i)))
      BY <1>3, <1>5, <1>6, NamesKept, CellsAre
    <2>2. x \in Cells /\ x < cursor /\ Settled(x)
      BY <1>1, <2>1 DEF Space
    <2>3. media'[Length] = media[Length]
      BY <1>3, Locating
    <2>4. QED
      BY <2>1, <2>2, <2>3 DEF Settled
  <1>7. \A l, m \in PointerPlaces' : \A x \in media'[l] \cap media'[m] : NamesGrain(x)' => l = m
    <2>1. SUFFICES ASSUME NEW l \in PointerPlaces', NEW m \in PointerPlaces', NEW x \in media'[l] \cap media'[m],
                          NamesGrain(x)'
                   PROVE  l = m
      OBVIOUS
    <2>2. /\ l \in PointerPlaces /\ (x \in media[l] \/ (x = t /\ l = Gd(i)))
          /\ m \in PointerPlaces /\ (x \in media[m] \/ (x = t /\ m = Gd(i))) /\ NamesGrain(x)
      BY <1>3, <1>6, <2>1, NamesKept
    <2>3. QED
      BY <1>1, <2>2 DEF Space, Fresh
  <1>8. TableCells' \subseteq tables' /\ \A j \in Indices : rgd'[j] \notin TableCells'
    BY <1>1, <1>4 DEF Space, Fresh
  <1>9. \A j \in Indices : gd'[j] < cursor' /\ rgd'[j] < cursor'
    BY DEF Space
  <1>10. QED
    BY <1>3, <1>6, <1>7, <1>8, <1>9 DEF Space, t

-----------------------------------------------------------------------------
(* Who owns what *)

LEMMA OwnsBy ==
    ASSUME NEW w, NEW p, NEW t, NEW n, NEW u, NEW i, pc'[w] = p, my'[w].table = t, my'[w].new = n,
           my'[w].purpose = u, Here(w).gt' = i, Claims(p, t, n, u, i)'
    PROVE  Owns(w)'
  BY DEF Owns, Claims, Ready, Fresh, Settled

\* Places whose owner has no claim, whatever its locals.
FreeOfClaims == (FreePlaces \cup FoundPlaces \cup {"refresh"})

LEMMA NothingClaimed ==
    ASSUME NEW p, NEW t, NEW n, NEW u, NEW i,
           \/ p \in FreeOfClaims
           \/ p \notin HeldPlaces
           \/ p = "tableSpace" /\ u # "twin"
    PROVE  Claims(p, t, n, u, i)'
  <1>1. p \in FreeOfClaims \/ p \notin HeldPlaces => p \notin TablePlaces /\ p \notin RgdPlaces
    BY DEF FreeOfClaims, FreePlaces, FoundPlaces, TablePlaces, RgdPlaces, HeldPlaces
  <1>2. /\ p \notin {"tableZero", "tableFlush"} /\ p # "tableFlush"
        /\ p \notin SeedPlaces \cup {"rgdWrite"} /\ p # "rgdWrite" /\ p # "rgdFlush"
        /\ p # "gdWrite" /\ p # "gdFlush" /\ p \notin GrainPlaces /\ p \notin EntryPlaces
    BY DEF FreeOfClaims, FreePlaces, FoundPlaces, TablePlaces, SeedPlaces, RgdPlaces, GdPlaces, GrainPlaces,
       EntryPlaces, HeldPlaces
  <1>3. ~(p \in TablePlaces \cup {"rgdWrite", "rgdFlush"} /\ u = "twin")
    BY <1>1 DEF RgdPlaces
  <1>4. QED
    BY <1>2, <1>3 DEF Claims

LEMMA OwnsNothing ==
    ASSUME NEW w, pc'[w] \in FreeOfClaims \/ pc'[w] \notin HeldPlaces
    PROVE  Owns(w)'
  <1>1. PICK p, t, n, u, i : /\ pc'[w] = p /\ my'[w].table = t /\ my'[w].new = n
                             /\ my'[w].purpose = u /\ Here(w).gt' = i
    OBVIOUS
  <1>2. Claims(p, t, n, u, i)'
    BY <1>1, NothingClaimed
  <1>3. QED
    BY <1>1, <1>2, OwnsBy

LEMMA OthersOwnNothing ==
    ASSUME Typed, NEW w \in Writers, pc[w] \in HeldPlaces, NEW to, Goto(w, to)
    PROVE  \A q \in Writers \ {w} : Owns(q)'
  <1>1. \A q \in Writers \ {w} : pc'[q] = pc[q] /\ pc[q] \notin HeldPlaces
    BY DEF Typed, ThreadsOK, WriterOK, Goto
  <1>2. QED
    BY <1>1, OwnsNothing

spaceVars == <<devVars, cursor, tables, gd, rgd>>

LEMMA OwnsSame ==
    ASSUME UNCHANGED spaceVars, NEW q, pc'[q] = pc[q], my'[q] = my[q], Owns(q)
    PROVE  Owns(q)'
  BY DEF Owns, Claims, spaceVars, devVars, Fresh, Ready, Settled, PointerPlaces, TableCells, NamesGrain,
     UsesZeroed, Here, Address, Lesser

LEMMA SpaceSame ==
    ASSUME UNCHANGED spaceVars, Space
    PROVE  Space'
  BY DEF Space, spaceVars, devVars, Settled, PointerPlaces, TableCells, NamesGrain, UsesZeroed

LEMMA HereKept ==
    ASSUME NEW w, my'[w].at = my[w].at, my'[w].end = my[w].end
    PROVE  Here(w)' = Here(w)
  BY DEF Here
-----------------------------------------------------------------------------
(* The steps *)

\* The others' claims outlive a step of the holder; its own are what is left to show.
LEMMA HolderStep ==
    ASSUME Typed', Space', Typed, NEW w \in Writers, pc[w] \in HeldPlaces, NEW to, Goto(w, to), Owns(w)'
    PROVE  Safe'
  <1>1. \A q \in Writers : Owns(q)'
    BY OthersOwnNothing
  <1>2. QED
    BY <1>1 DEF Safe

\* Steps that leave alone all that the claims are about.
LEMMA QuietStep ==
    ASSUME Safe, Typed', UNCHANGED spaceVars, NEW w \in Writers, NEW to, Goto(w, to),
           \A q \in Writers \ {w} : my'[q] = my[q], Owns(w)'
    PROVE  Safe'
  <1>1. Space'
    BY SpaceSame DEF Safe
  <1>2. ASSUME NEW q \in Writers \ {w} PROVE Owns(q)'
    <2>1. pc'[q] = pc[q] /\ my'[q] = my[q] /\ Owns(q)
      BY DEF Goto, Safe, Typed, ThreadsOK
    <2>2. QED
      BY <2>1, OwnsSame
  <1>3. QED
    BY <1>1, <1>2 DEF Safe

\* The steps that only look, and give their writer nothing.
Looks(w) == \/ CallWrite(w) \/ BackingTable(w) \/ BackingGrain(w)
            \/ Invalidate(w) \/ LookAgain(w)

LEMMA SafeMoves ==
    ASSUME Safe, Typed', NEW w \in Writers,
           Looks(w) \/ Allocate(w) \/ Redundant(w)
    PROVE  Safe'
  <1>1. UNCHANGED spaceVars
    BY DEF spaceVars, memory, Looks, CallWrite, BackingTable, BackingGrain, Allocate, Invalidate, LookAgain, Redundant
  <1>2. my = [q \in Writers |-> my[q]] /\ pc \in [Writers -> Places]
        /\ my[w] = [at |-> my[w].at, end |-> my[w].end, table |-> my[w].table, new |-> my[w].new,
                    purpose |-> my[w].purpose]
    BY DEF Safe, Typed, ThreadsOK, WriterOK
  <1> DEFINE Unclaimed(to) == /\ Goto(w, to)
                         /\ \/ to \in FreeOfClaims
                            \/ to = "tableSpace" /\ my'[w].purpose # "twin"
             Moves == \E to : Unclaimed(to)
  <1>3. Moves
    <2>1. CASE Looks(w)
      BY <2>1 DEF Looks, CallWrite, BackingTable, BackingGrain, Invalidate, LookAgain, FreeOfClaims, FreePlaces,
         FoundPlaces
    <2>2. CASE Allocate(w)
      <3>1. PICK to \in {"tableSpace", "gt2"} : Goto(w, to)
        BY <2>2 DEF Allocate
      <3>2. my' = [my EXCEPT ![w].table = gd[Here(w).gt], ![w].purpose = "primary"]
        BY <2>2 DEF Allocate
      <3>3. my'[w].purpose = "primary"
        BY <1>2, <3>2
      <3>4. QED
        BY <3>1, <3>3 DEF FreeOfClaims, FoundPlaces
    <2>3. CASE Redundant(w)
      <3>1. PICK to \in {"tableSpace", "mergeWrite", "grainSpace"} :
              Goto(w, to) /\ (to = "tableSpace" => my' = [my EXCEPT ![w].purpose = "seed"])
        <4>1. \/ Goto(w, "tableSpace") /\ my' = [my EXCEPT ![w].purpose = "seed"]
              \/ Goto(w, "mergeWrite")
              \/ Goto(w, "grainSpace")
          BY <2>3 DEF Redundant
        <4>2. QED
          BY <4>1
      <3>2. to = "tableSpace" => my'[w].purpose = "seed"
        BY <1>2, <3>1
      <3>3. QED
        BY <3>1, <3>2 DEF FreeOfClaims, FoundPlaces
    <2> HIDE DEF Moves
    <2>4. QED
      BY <2>1, <2>2, <2>3, SMTT(30)
  <1>4. PICK to : Unclaimed(to)
    BY <1>3
  <1>5. Owns(w)'
    <2>1. PICK t, n, u, i : /\ my'[w].table = t /\ my'[w].new = n /\ my'[w].purpose = u
                            /\ Here(w).gt' = i
      OBVIOUS
    <2>2. pc'[w] = to
      BY <1>2, <1>4 DEF Goto
    <2>3. to \in FreeOfClaims \/ (to = "tableSpace" /\ u # "twin")
      BY <1>4, <2>1
    <2>4. Claims(to, t, n, u, i)'
      BY <2>3, NothingClaimed
    <2>5. QED
      BY <2>1, <2>2, <2>4, OwnsBy
  <1>6. \A q \in Writers \ {w} : my'[q] = my[q]
    <2>1. CASE Looks(w)
      BY <1>2, <2>1 DEF Looks, CallWrite, BackingTable, BackingGrain, Invalidate, LookAgain
    <2>2. CASE Allocate(w)
      BY <1>2, <2>2 DEF Allocate
    <2>3. CASE Redundant(w)
      BY <1>2, <2>3 DEF Redundant
    <2>4. QED
      BY <2>1, <2>2, <2>3, SMTT(30)
  <1>7. Goto(w, to)
    BY <1>4
  <1> HIDE DEF Unclaimed
  <1>8. QED
    BY <1>1, <1>5, <1>6, <1>7, QuietStep, SMTT(30)

LEMMA SafeSpace ==
    ASSUME Safe, Typed', NEW w \in Writers, TableSpace(w) \/ GrainSpace(w)
    PROVE  Safe'
  <1>1. PICK to \in {"tableZero", "grainZero", "grainData"} :
          TakeCell(w, to) /\ (to = "tableZero" <=> pc[w] = "tableSpace")
    BY DEF TableSpace, GrainSpace
  <1>2. /\ pc[w] \in {"tableSpace", "grainSpace"} /\ pc[w] \in HeldPlaces /\ gd' = gd /\ rgd' = rgd
        /\ tables \subseteq tables' /\ (pc[w] = "tableSpace" => cursor \in tables')
    BY DEF TableSpace, GrainSpace, HeldPlaces, TablePlaces, FoundPlaces
  <1>3. cursor \in Cells /\ cursor \in 1 .. MaxCell /\ cursor' = cursor + 1 /\ cursor \in Int
    BY <1>1, GrainAssumption DEF Safe, Typed, MemoryOK, TakeCell, Cells, FirstCell
  <1>4. /\ disk'[Length] = cursor /\ media'[Length] = media[Length] \cup {cursor}
        /\ \A l \in Locs \ {Length} : disk'[l] = disk[l] /\ media'[l] = media[l]
    BY <1>1, <1>3, LengthIs DEF Safe, Typed, TakeCell
  <1>5. Tame
    <2>1. /\ disk'[Header] = disk[Header]
          /\ \A i \in Indices : media'[Gd(i)] = media[Gd(i)] /\ media'[Rgd(i)] = media[Rgd(i)]
          /\ \A c \in TableCells, e \in Slots : media'[At(c, e)] = media[At(c, e)]
      BY <1>4, Locating DEF TableCells
    <2>2. cursor <= cursor' /\ \A n \in media'[Length] : n \in media[Length] \/ (n \in Int /\ cursor <= n)
      BY <1>3, <1>4
    <2>3. QED
      BY <1>2, <2>1, <2>2 DEF Tame
  <1>6. /\ \A i \in Indices : /\ gd'[i] < cursor' /\ rgd'[i] < cursor' /\ rgd'[i] \notin TableCells
                              /\ gd'[i] # cursor /\ rgd'[i] # cursor
    <2>1. ASSUME NEW i \in Indices PROVE gd[i] \in Int /\ rgd[i] \in Int
      BY CellsAre DEF Safe, Typed, MemoryOK, Unallocated
    <2>2. QED
      BY <1>2, <1>3, <2>1 DEF Safe, Space
  <1>7. Space'
    BY <1>5, <1>6, TameSpace DEF Safe
  <1>8. PICK c, t, n, u, i : /\ c = cursor /\ t = my[w].table /\ n = my[w].new /\ u = my[w].purpose
                             /\ i = Here(w).gt
    OBVIOUS
  <1>9. /\ pc'[w] = to /\ my'[w].new = c /\ my'[w].purpose = u /\ my'[w].table = t /\ Here(w).gt' = i
    <2>1. my = [q \in Writers |-> my[q]] /\ pc \in [Writers -> Places]
          /\ my[w] = [at |-> my[w].at, end |-> my[w].end, table |-> my[w].table, new |-> my[w].new,
                      purpose |-> my[w].purpose]
      BY DEF Safe, Typed, ThreadsOK, WriterOK
    <2>2. /\ pc'[w] = to /\ my'[w].at = my[w].at /\ my'[w].end = my[w].end
          /\ my'[w].new = c /\ my'[w].purpose = u /\ my'[w].table = t
      BY <1>1, <1>8, <2>1 DEF TakeCell, Goto
    <2>3. QED
      BY <1>8, <2>2, HereKept
  <1>10. Fresh(c)'
    <2>1. \A l \in PointerPlaces' : c \in media'[l] => ~NamesGrain(c)'
      BY <1>3, <1>5, <1>8, TamePlaces, NamesKept DEF Safe, Space, Tame
    <2>2. QED
      BY <1>3, <1>6, <1>8, <2>1 DEF Fresh
  <1>11. CASE to = "tableZero"
    <2>1. pc[w] = "tableSpace" /\ c \in tables'
      BY <1>1, <1>2, <1>8, <1>11
    <2>2. ASSUME u = "twin" PROVE Ready(t)' /\ t # c
      <3>1. Ready(t)
        BY <1>8, <2>1, <2>2 DEF Safe, Owns, Claims, TablePlaces
      <3>2. /\ t \in Cells /\ t \in Int /\ t < cursor
            /\ \A j \in Indices : gd'[j] # t /\ rgd'[j] # t
        BY <1>2, <3>1, CellsAre DEF Ready, Fresh
      <3>3. Fresh(t)' /\ Settled(t)'
        BY <1>5, <3>1, <3>2, TameFresh DEF Ready, Safe
      <3>4. \A e \in Slots : media'[At(t, e)] = {Unallocated}
        BY <1>4, <3>1, <3>2, Locating DEF Ready
      <3>5. t \in tables'
        BY <1>2, <3>1 DEF Ready
      <3>6. QED
        BY <1>3, <1>8, <3>2, <3>3, <3>4, <3>5 DEF Ready
    <2>3. c <= disk'[Length]
      BY <1>3, <1>4, <1>8
    <2>4. Claims("tableZero", t, c, u, i)'
      BY <1>10, <2>1, <2>2, <2>3 DEF Claims, GrainPlaces, EntryPlaces, SeedPlaces
    <2>5. QED
      BY <1>1, <1>2, <1>7, <1>9, <1>11, <2>4, OwnsBy, HolderStep DEF TakeCell, Safe
  <1>12. CASE to \in {"grainZero", "grainData"}
    <2>1. Fresh(c)' /\ c <= disk'[Length]
      BY <1>3, <1>4, <1>8, <1>10
    <2>2. Claims(to, t, c, u, i)'
      BY <1>12, <2>1 DEF Claims, EntryPlaces, SeedPlaces, TablePlaces
    <2>3. QED
      BY <1>1, <1>2, <1>7, <1>9, <2>2, OwnsBy, HolderStep DEF TakeCell, Safe
  <1>13. QED
    BY <1>11, <1>12

LEMMA FreshIsNoTable ==
    ASSUME NEW c, Fresh(c)
    PROVE  c \notin TableCells
  BY CellsAre DEF Fresh, TableCells, PointerPlaces

\* Where the stores that name nothing go.
WordPlaces == {"tableZero", "seedCopy", "mergeWrite", "grainZero", "grainData", "entryRedundant"}

LEMMA HolderIs ==
    ASSUME Typed, NEW w \in Writers, pc[w] # "idle"
    PROVE  WriterOK(w) /\ Here(w).gt \in Indices /\ Here(w).gte \in Slots
  <1>1. WriterOK(w)
    BY DEF Typed, ThreadsOK
  <1>2. QED
    BY <1>1, HereIs

LEMMA WordStores ==
    ASSUME Safe, NEW w \in Writers, pc[w] \in WordPlaces, DevWriteAll(Stores(w)),
           cursor' = cursor, tables' = tables
    PROVE  /\ Tame /\ StoreCell(w) \notin TableCells
           /\ disk'[Length] = disk[Length] /\ media'[Length] = media[Length]
           /\ \A l \in Locs : IF l \in DOMAIN Stores(w) THEN disk'[l] = Stores(w)[l]
                              ELSE disk'[l] = disk[l] /\ media'[l] = media[l]
           /\ \A l \in DOMAIN Stores(w) : \E k : l = At(StoreCell(w), k)
  <1>1. StoreCell(w) \notin TableCells
    <2>1. CASE pc[w] \in {"mergeWrite", "entryRedundant"}
      BY <2>1, HolderIs DEF StoreCell, Safe, Space
    <2>2. CASE pc[w] \in {"tableZero", "seedCopy", "grainZero", "grainData"}
      <3>1. Fresh(my[w].new)
        BY <2>2 DEF Safe, Owns, Claims, SeedPlaces, GrainPlaces
      <3>2. QED
        BY <2>2, <3>1, FreshIsNoTable DEF StoreCell
    <2>3. QED
      BY <2>1, <2>2 DEF WordPlaces
  <1>2. \A l \in DOMAIN Stores(w) : \E k : l = At(StoreCell(w), k)
    BY DomainsAre, AfterStoreIs DEF WordPlaces
  <1>3. QED
    BY <1>1, <1>2, WordsTame DEF Safe

LEMMA StoreSpace ==
    ASSUME Safe, Typed', NEW w \in Writers, pc[w] \in DOMAIN AfterStore, DevWriteAll(Stores(w)),
           cursor' = cursor, tables' = tables, gd' = gd, rgd' = rgd
    PROVE  Space'
  <1> DEFINE i == Here(w).gt
             new == my[w].new
             t == my[w].table
  <1>1. WriterOK(w) /\ i \in Indices /\ Here(w).gte \in Slots
    BY HolderIs, AfterStoreIs DEF Safe
  <1>2. CASE pc[w] \in WordPlaces
    <2>1. Tame
      BY <1>2, WordStores
    <2>2. \A j \in Indices : gd'[j] < cursor' /\ rgd'[j] < cursor' /\ rgd'[j] \notin TableCells
      BY DEF Safe, Space
    <2>3. QED
      BY <2>1, <2>2, TameSpace DEF Safe
  <1>3. CASE pc[w] = "rgdWrite"
    <2>1. DOMAIN Stores(w) = {Rgd(i)} /\ Stores(w)[Rgd(i)] = new
      BY <1>3, StoredIs
    <2>2. Fresh(new) /\ Settled(new) /\ Fits(Rgd(i), new)
      <3>1. Fresh(new) /\ Settled(new)
        BY <1>3 DEF Safe, Owns, Claims
      <3>2. QED
        BY <3>1, Locating DEF Fresh, Fits
    <2>3. /\ Rgd(i) \notin {Length, Header} /\ \A j \in Indices : Rgd(i) # Gd(j)
      BY Locating
    <2>4. Names(Rgd(i), new) /\ TableCells' = TableCells
      BY <2>1, <2>2, <2>3, OneWriteNames DEF Safe
    <2>5. QED
      BY <2>2, <2>4, NamesSpace DEF Safe
  <1>4. CASE pc[w] = "gdWrite"
    <2>1. DOMAIN Stores(w) = {Gd(i)} /\ Stores(w)[Gd(i)] = t /\ Ready(t)
      BY <1>4, StoredIs DEF Safe, Owns, Claims
    <2>2. QED
      BY <1>1, <2>1, TableNamed DEF Safe
  <1>5. CASE pc[w] = "entryPrimary"
    <2> DEFINE p == At(t, Here(w).gte)
    <2>1. DOMAIN Stores(w) = {p} /\ Stores(w)[p] = new
      BY <1>5, StoredIs
    <2>2. Fresh(new) /\ Settled(new) /\ Fits(p, new)
      <3>1. Fresh(new) /\ Settled(new)
        BY <1>5 DEF Safe, Owns, Claims, GrainPlaces, EntryPlaces
      <3>2. QED
        BY <3>1, Locating DEF Fits
    <2>3. p \notin {Length, Header} /\ \A j \in Indices : p # Gd(j)
      BY Locating
    <2> HIDE DEF p
    <2>4. Names(p, new) /\ TableCells' = TableCells
      BY <2>1, <2>2, <2>3, OneWriteNames DEF Safe
    <2>5. QED
      BY <2>2, <2>4, NamesSpace DEF Safe
  <1>6. QED
    BY <1>2, <1>3, <1>4, <1>5, AfterStoreIs DEF WordPlaces

LEMMA SafeStore ==
    ASSUME Safe, Typed', NEW w \in Writers, Store(w)
    PROVE  Safe'
  <1>1. /\ pc[w] \in DOMAIN AfterStore /\ DevWriteAll(Stores(w)) /\ Goto(w, AfterStore[pc[w]]) /\ my' = my
        /\ cursor' = cursor /\ tables' = tables /\ gd' = gd /\ rgd' = rgd
    BY DEF Store, memory
  <1>2. Space'
    BY <1>1, StoreSpace
  <1>3. PICK p, t, n, u, i : /\ p = pc[w] /\ t = my[w].table /\ n = my[w].new /\ u = my[w].purpose
                             /\ i = Here(w).gt
    OBVIOUS
  <1>4. /\ pc'[w] = AfterStore[p] /\ my'[w].table = t /\ my'[w].new = n /\ my'[w].purpose = u
        /\ Here(w).gt' = i /\ pc[w] \in HeldPlaces
    <2>1. pc'[w] = AfterStore[p]
      BY <1>1, <1>3 DEF Safe, Typed, ThreadsOK, Goto
    <2>2. pc[w] \in HeldPlaces
      BY <1>1, AfterStoreIs DEF HeldPlaces, TablePlaces, SeedPlaces, RgdPlaces, GdPlaces, FoundPlaces,
         GrainPlaces, EntryPlaces
    <2>3. QED
      BY <1>1, <1>3, <2>1, <2>2, HereKept
  <1>5. SUFFICES Claims(AfterStore[p], t, n, u, i)'
    <2>1. ASSUME Claims(AfterStore[p], t, n, u, i)' PROVE Safe'
      <3>1. Owns(w)'
        BY <1>4, <2>1, OwnsBy
      <3>2. QED
        BY <1>1, <1>2, <1>4, <3>1, HolderStep DEF Safe
    <2>2. QED
      BY <2>1
  <1>6. Claims(p, t, n, u, i) /\ i \in Indices
    BY <1>1, <1>3, HolderIs, AfterStoreIs DEF Safe, Owns
  <1>7. ASSUME p \in WordPlaces
        PROVE  /\ \A c : Fresh(c) => Fresh(c)' /\ (Settled(c) => Settled(c)')
               /\ disk'[Length] = disk[Length]
               /\ \A l \in Locs : IF l \in DOMAIN Stores(w) THEN disk'[l] = Stores(w)[l]
                                  ELSE disk'[l] = disk[l] /\ media'[l] = media[l]
    <2>1. /\ Tame /\ disk'[Length] = disk[Length]
          /\ \A l \in Locs : IF l \in DOMAIN Stores(w) THEN disk'[l] = Stores(w)[l]
                             ELSE disk'[l] = disk[l] /\ media'[l] = media[l]
      BY <1>1, <1>3, <1>7, WordStores
    <2>2. ASSUME NEW c, Fresh(c) PROVE Fresh(c)' /\ (Settled(c) => Settled(c)')
      <3>1. \A j \in Indices : gd'[j] # c /\ rgd'[j] # c
        BY <1>1, <2>2 DEF Fresh
      <3>2. QED
        BY <2>1, <2>2, <3>1, TameFresh DEF Safe
    <2>3. QED
      BY <2>1, <2>2
  <1>8. CASE p = "tableZero"
    <2>1. Fresh(n) /\ n <= disk[Length] /\ n \in tables /\ (u = "twin" => n # t /\ Ready(t))
      BY <1>6, <1>8 DEF Claims, TablePlaces
    <2>2. /\ DOMAIN Stores(w) = Span(n, Slots) /\ \A l \in DOMAIN Stores(w) : Stores(w)[l] = Unallocated
      BY <1>3, <1>8, StoredIs
    <2>3. \A e \in Slots : disk'[At(n, e)] = Unallocated
      BY <1>7, <1>8, <2>1, <2>2, Locating DEF WordPlaces, Span, Fresh
    <2>4. ASSUME u = "twin" PROVE Ready(t)'
      <3>1. Fresh(t) /\ Settled(t) /\ t \in tables /\ t \in Cells
            /\ \A e \in Slots : media[At(t, e)] = {Unallocated}
        BY <2>1, <2>4 DEF Ready, Fresh
      <3>2. Fresh(t)' /\ Settled(t)'
        BY <1>7, <1>8, <3>1 DEF WordPlaces
      <3>3. \A e \in Slots : media'[At(t, e)] = media[At(t, e)]
        BY <1>7, <1>8, <2>1, <2>2, <2>4, <3>1, Locating DEF WordPlaces, Span
      <3>4. QED
        BY <1>1, <3>1, <3>2, <3>3 DEF Ready
    <2>5. Fresh(n)' /\ n <= disk'[Length] /\ n \in tables'
      BY <1>1, <1>7, <1>8, <2>1 DEF WordPlaces
    <2>6. AfterStore[p] = "tableFlush"
      BY <1>8, AfterStoreIs
    <2>7. QED
      BY <2>1, <2>3, <2>4, <2>5, <2>6 DEF Claims, SeedPlaces, GrainPlaces, EntryPlaces
  <1>9. CASE p = "seedCopy"
    <2>1. Fresh(n) /\ Settled(n)
      BY <1>6, <1>9 DEF Claims, SeedPlaces
    <2>2. Fresh(n)' /\ Settled(n)' /\ AfterStore[p] = "seedFlush"
      BY <1>7, <1>9, <2>1, AfterStoreIs DEF WordPlaces
    <2>3. QED
      BY <2>2 DEF Claims, TablePlaces, GrainPlaces, EntryPlaces
  <1>10. CASE p \in {"grainZero", "grainData", "entryRedundant"}
    <2>1. Fresh(n) /\ n <= disk[Length] /\ (p \in EntryPlaces => Settled(n))
      BY <1>6, <1>10 DEF Claims, GrainPlaces, EntryPlaces
    <2>2. Fresh(n)' /\ n <= disk'[Length] /\ (p \in EntryPlaces => Settled(n)')
      BY <1>7, <1>10, <2>1 DEF WordPlaces
    <2>3. AfterStore[p] \in {"grainData", "grainFlush", "entryFlush"}
          /\ (AfterStore[p] = "entryFlush" => p \in EntryPlaces)
      BY <1>10, AfterStoreIs DEF EntryPlaces
    <2>4. QED
      BY <2>2, <2>3 DEF Claims, TablePlaces, SeedPlaces, EntryPlaces
  <1>11. CASE p \in {"mergeWrite", "entryPrimary"}
    <2>1. AfterStore[p] \in FreeOfClaims
      BY <1>11, AfterStoreIs DEF FreeOfClaims, FoundPlaces
    <2>2. QED
      BY <2>1, NothingClaimed
  <1>12. CASE p = "gdWrite"
    <2>1. DOMAIN Stores(w) = {Gd(i)} /\ Stores(w)[Gd(i)] = t /\ Ready(t)
      BY <1>3, <1>6, <1>12, StoredIs DEF Claims
    <2>2. disk'[Gd(i)] = t
      BY <1>1, <1>6, <2>1, TableNamed DEF Safe
    <2>3. AfterStore[p] = "gdFlush"
      BY <1>12, AfterStoreIs
    <2>4. QED
      BY <2>2, <2>3 DEF Claims, TablePlaces, SeedPlaces, GrainPlaces, EntryPlaces
  <1>13. CASE p = "rgdWrite"
    <2>1. Fresh(n) /\ Settled(n) /\ Fits(Rgd(i), n) /\ (u = "twin" => n # t /\ Ready(t))
      <3>1. Fresh(n) /\ Settled(n) /\ (u = "twin" => n # t /\ Ready(t))
        BY <1>6, <1>13 DEF Claims
      <3>2. QED
        BY <3>1, Locating DEF Fresh, Fits
    <2>2. /\ DOMAIN Stores(w) = {Rgd(i)} /\ Stores(w)[Rgd(i)] = n
          /\ Rgd(i) \notin {Length, Header} /\ \A j \in Indices : Rgd(i) # Gd(j)
      BY <1>3, <1>13, StoredIs, Locating
    <2>3. Names(Rgd(i), n)
      BY <1>1, <2>1, <2>2, OneWriteNames DEF Safe
    <2>4. /\ disk'[Rgd(i)] = n
          /\ \A l \in Locs \ {Rgd(i)} : media'[l] = media[l]
      BY <1>1, <1>6, <2>1, <2>2, WriteIs, Locating DEF Safe, Typed
    <2>5. ASSUME u = "twin" PROVE Ready(t)'
      <3>1. Fresh(t) /\ Settled(t) /\ t \in tables /\ t # n /\ t \in Cells
            /\ \A e \in Slots : media[At(t, e)] = {Unallocated}
        BY <2>1, <2>5 DEF Ready, Fresh
      <3>2. Fresh(t)' /\ Settled(t)'
        BY <2>3, <3>1, NamesFresh DEF Safe
      <3>3. \A e \in Slots : media'[At(t, e)] = {Unallocated}
        BY <2>4, <3>1, Locating
      <3>4. QED
        BY <1>1, <3>1, <3>2, <3>3 DEF Ready
    <2>6. AfterStore[p] = "rgdFlush"
      BY <1>13, AfterStoreIs
    <2>7. QED
      BY <2>4, <2>5, <2>6 DEF Claims, SeedPlaces, GrainPlaces, EntryPlaces
  <1>14. QED
    BY <1>1, <1>3, <1>8, <1>9, <1>10, <1>11, <1>12, <1>13, AfterStoreIs

LEMMA FlushTame ==
    ASSUME Typed, DevFlush, cursor' = cursor, tables' = tables
    PROVE  /\ Tame /\ disk' = disk /\ \A l \in Locs : media'[l] = {disk[l]}
           /\ \A c : c <= disk[Length] => Settled(c)'
  <1>1. disk' = disk /\ \A l \in Locs : media'[l] = {disk[l]} /\ media'[l] \subseteq media[l]
    BY FlushIs DEF Typed, DeviceOK
  <1>2. /\ \A i \in Indices : media'[Gd(i)] \subseteq media[Gd(i)] /\ media'[Rgd(i)] \subseteq media[Rgd(i)]
        /\ \A c \in TableCells, e \in Slots : media'[At(c, e)] \subseteq media[At(c, e)]
        /\ media'[Length] \subseteq media[Length] /\ media'[Length] = {disk[Length]}
    BY <1>1, Locating DEF TableCells
  <1>3. cursor <= cursor' /\ tables \subseteq tables'
    BY DEF Typed, MemoryOK
  <1>4. Tame
    BY <1>1, <1>2, <1>3 DEF Tame
  <1>5. QED
    BY <1>1, <1>2, <1>4 DEF Settled

\* What the directories in memory become at a flush is named on the device.
LEMMA FlushSpace ==
    ASSUME Safe, Typed', NEW w \in Writers,
           TableFlush(w) \/ RgdFlush(w) \/ GdFlush(w) \/ MergeFlush(w) \/ Flushed(w)
    PROVE  Space'
  <1> DEFINE i == Here(w).gt
             n == my[w].new
             t == my[w].table
  <1>1. DevFlush /\ cursor' = cursor /\ tables' = tables
    BY DEF TableFlush, RgdFlush, GdFlush, MergeFlush, Flushed, memory
  <1>2. Tame
    BY <1>1, FlushTame DEF Safe
  <1>3. pc[w] \in HeldPlaces /\ pc[w] # "idle"
    BY AfterFlushIs DEF TableFlush, RgdFlush, GdFlush, MergeFlush, Flushed, HeldPlaces, TablePlaces, RgdPlaces,
       SeedPlaces, GdPlaces, FoundPlaces, GrainPlaces, EntryPlaces
  <1>4. WriterOK(w) /\ i \in Indices
    BY <1>3, HolderIs DEF Safe
  <1>5. gd \in [Indices -> {Unallocated} \cup Cells] /\ rgd \in [Indices -> {Unallocated} \cup Cells]
        /\ \A j \in Indices : gd[j] < cursor /\ rgd[j] < cursor /\ rgd[j] \notin TableCells
    BY DEF Safe, Typed, MemoryOK, Space
  <1>6. \A j \in Indices : gd'[j] < cursor' /\ rgd'[j] < cursor' /\ rgd'[j] \notin TableCells
    <2>1. CASE gd' = gd /\ rgd' = rgd
      BY <1>1, <1>5, <2>1
    <2>2. CASE RgdFlush(w)
      <3>1. pc[w] = "rgdFlush" /\ rgd' = [rgd EXCEPT ![i] = n] /\ gd' = gd
        BY <2>2 DEF RgdFlush
      <3>2. n \in Cells /\ n = disk[Rgd(i)]
        BY <1>4, <3>1 DEF Safe, Owns, Claims, WriterOK, NewPlaces, RgdPlaces
      <3>3. n \in media[Rgd(i)] /\ Rgd(i) \in PointerPlaces /\ NamesGrain(n)
        BY <1>4, <3>2, Locating, CellsAre DEF Safe, Typed, DeviceOK, PointerPlaces
      <3>4. n < cursor
        BY <3>3 DEF Safe, Space
      <3>5. n \notin TableCells
        <4>1. SUFFICES ASSUME NEW j \in Indices, n \in media[Gd(j)] PROVE FALSE
          BY DEF TableCells
        <4>2. Gd(j) \in PointerPlaces
          BY DEF PointerPlaces
        <4>3. Gd(j) = Rgd(i)
          BY <3>3, <4>1, <4>2 DEF Safe, Space
        <4>4. QED
          BY <4>3, Locating
      <3>6. QED
        BY <1>1, <1>4, <1>5, <3>1, <3>4, <3>5
    <2>3. CASE GdFlush(w)
      <3>1. pc[w] = "gdFlush" /\ gd' = [gd EXCEPT ![i] = t] /\ rgd' = rgd
        BY <2>3 DEF GdFlush
      <3>2. t \in Cells /\ t = disk[Gd(i)]
        BY <1>4, <3>1 DEF Safe, Owns, Claims, WriterOK, HasTwin, GdPlaces
      <3>3. t \in media[Gd(i)] /\ Gd(i) \in PointerPlaces /\ NamesGrain(t)
        BY <1>4, <3>2, Locating, CellsAre DEF Safe, Typed, DeviceOK, PointerPlaces
      <3>4. t < cursor
        BY <3>3 DEF Safe, Space
      <3>5. QED
        BY <1>1, <1>4, <1>5, <3>1, <3>4
    <2>4. QED
      BY <2>1, <2>2, <2>3 DEF TableFlush, MergeFlush, Flushed, memory
  <1>7. QED
    BY <1>2, <1>6, TameSpace DEF Safe

LEMMA SafeFlush ==
    ASSUME Safe, Typed', NEW w \in Writers,
           TableFlush(w) \/ RgdFlush(w) \/ GdFlush(w) \/ MergeFlush(w) \/ Flushed(w)
    PROVE  Safe'
  <1>1. DevFlush /\ cursor' = cursor /\ tables' = tables
    BY DEF TableFlush, RgdFlush, GdFlush, MergeFlush, Flushed, memory
  <1>2. Tame /\ disk' = disk /\ (\A l \in Locs : media'[l] = {disk[l]})
        /\ \A c : c <= disk[Length] => Settled(c)'
    BY <1>1, FlushTame DEF Safe
  <1>3. Space'
    BY FlushSpace
  <1>4. PICK p, t, n, u, i : /\ p = pc[w] /\ t = my[w].table /\ n = my[w].new /\ u = my[w].purpose
                             /\ i = Here(w).gt
    OBVIOUS
  <1>5. pc[w] \in HeldPlaces /\ pc[w] # "idle"
    BY AfterFlushIs DEF TableFlush, RgdFlush, GdFlush, MergeFlush, Flushed, HeldPlaces, TablePlaces, RgdPlaces,
       SeedPlaces, GdPlaces, FoundPlaces, GrainPlaces, EntryPlaces
  <1>6. /\ Claims(p, t, n, u, i) /\ i \in Indices /\ WriterOK(w)
        /\ my = [q \in Writers |-> my[q]] /\ pc \in [Writers -> Places]
    BY <1>4, <1>5, HolderIs DEF Safe, Owns, Typed, ThreadsOK
  <1>7. ASSUME NEW to, Goto(w, to), NEW s, NEW v, Becomes(w, my[w].at, my[w].end, s, n, v),
               Claims(to, s, n, v, i)'
        PROVE  Safe'
    <2>1. pc'[w] = to
      BY <1>6, <1>7 DEF Goto
    <2>2. /\ my'[w].at = my[w].at /\ my'[w].end = my[w].end
          /\ my'[w].table = s /\ my'[w].new = n /\ my'[w].purpose = v
      BY <1>7 DEF Becomes
    <2>3. Here(w).gt' = i
      BY <1>4, <2>2, HereKept
    <2>4. Owns(w)'
      BY <1>7, <2>1, <2>2, <2>3, OwnsBy
    <2>5. QED
      BY <1>3, <1>5, <1>7, <2>4, HolderStep DEF Safe
  <1>8. ASSUME gd' = gd, rgd' = rgd, NEW c, Fresh(c) PROVE Fresh(c)' /\ (Settled(c) => Settled(c)')
    BY <1>2, <1>8, TameFresh DEF Fresh, Safe
  <1>9. CASE TableFlush(w)
    <2>1. p = "tableFlush" /\ Goto(w, AfterBlank(w)) /\ gd' = gd /\ rgd' = rgd
      BY <1>4, <1>9 DEF TableFlush, memory
    <2>2. /\ Fresh(n) /\ n <= disk[Length] /\ n \in tables /\ (u = "twin" => n # t /\ Ready(t))
          /\ \A e \in Slots : disk[At(n, e)] = Unallocated
      BY <1>6, <2>1 DEF Claims, TablePlaces
    <2>3. Fresh(n)' /\ Settled(n)' /\ n \in Cells
      BY <1>2, <1>8, <2>1, <2>2 DEF Fresh
    <2>4. Ready(n)'
      <3>1. \A e \in Slots : media'[At(n, e)] = {Unallocated}
        BY <1>2, <2>2, <2>3, Locating
      <3>2. QED
        BY <1>1, <2>2, <2>3, <3>1 DEF Ready
    <2>5. u \in {"primary", "twin", "seed"}
      BY <1>4, <1>6, <2>1 DEF WriterOK, TablePlaces
    <2>6. CASE u = "primary"
      <3>1. PICK to, v : /\ Goto(w, to) /\ my' = [my EXCEPT ![w].table = n, ![w].purpose = v]
                         /\ \/ to = "tableSpace"
                            \/ to = "gdWrite" /\ v = "primary"
        BY <1>4, <1>9, <2>1, <2>6 DEF TableFlush, AfterBlank
      <3>2. Becomes(w, my[w].at, my[w].end, n, n, v)
        BY <1>4, <3>1, MyIs DEF Safe, Typed
      <3>3. Claims(to, n, n, v, i)'
        BY <2>4, <3>1 DEF Claims, TablePlaces, SeedPlaces, GrainPlaces, EntryPlaces
      <3>4. QED
        BY <1>7, <3>1, <3>2, <3>3
    <2>7. CASE u = "twin"
      <3>1. Goto(w, "rgdWrite") /\ my' = my
        BY <1>4, <1>9, <2>1, <2>7 DEF TableFlush, AfterBlank
      <3>2. Becomes(w, my[w].at, my[w].end, t, n, u)
        BY <1>4, <3>1, MyIs DEF Safe, Typed
      <3>3. Ready(t)'
        <4>1. /\ Fresh(t) /\ Settled(t) /\ t \in tables /\ t \in Cells
              /\ \A e \in Slots : media[At(t, e)] = {Unallocated}
          BY <2>2, <2>7 DEF Ready, Fresh
        <4>2. Fresh(t)' /\ Settled(t)'
          BY <1>8, <2>1, <4>1
        <4>3. \A e \in Slots : media'[At(t, e)] = {Unallocated}
          BY <1>2, <4>1, Locating DEF Safe, Typed, DeviceOK
        <4>4. QED
          BY <1>1, <4>1, <4>2, <4>3 DEF Ready
      <3>4. Claims("rgdWrite", t, n, u, i)'
        BY <2>2, <2>3, <2>7, <3>3 DEF Claims, SeedPlaces, GrainPlaces, EntryPlaces
      <3>5. QED
        BY <1>7, <3>1, <3>2, <3>4
    <2>8. CASE u = "seed"
      <3>1. Goto(w, "seedCopy") /\ my' = my
        BY <1>4, <1>9, <2>1, <2>8 DEF TableFlush, AfterBlank
      <3>2. Becomes(w, my[w].at, my[w].end, t, n, u)
        BY <1>4, <3>1, MyIs DEF Safe, Typed
      <3>3. Claims("seedCopy", t, n, u, i)'
        BY <2>3 DEF Claims, TablePlaces, GrainPlaces, EntryPlaces
      <3>4. QED
        BY <1>7, <3>1, <3>2, <3>3
    <2>9. QED
      BY <2>5, <2>6, <2>7, <2>8
  <1>10. CASE ~TableFlush(w)
    <2>1. my' = my
      BY <1>10 DEF RgdFlush, GdFlush, MergeFlush, Flushed
    <2>2. Becomes(w, my[w].at, my[w].end, t, n, u)
      BY <1>4, <2>1, MyIs DEF Safe, Typed
    <2>3. SUFFICES \E to : Goto(w, to) /\ Claims(to, t, n, u, i)'
      BY <1>7, <2>2
    <2>4. CASE RgdFlush(w)
      <3>1. PICK to \in {"gdWrite", "grainSpace"} :
              Goto(w, to) /\ p = "rgdFlush" /\ (to = "gdWrite" => u = "twin")
        BY <1>4, <2>4 DEF RgdFlush
      <3>2. CASE to = "grainSpace"
        <4>1. Claims(to, t, n, u, i)'
          BY <3>2, NothingClaimed DEF FreeOfClaims, FoundPlaces
        <4>2. QED
          BY <3>1, <4>1
      <3>3. CASE to = "gdWrite"
        <4>1. Ready(t) /\ disk[Rgd(i)] = n
          BY <1>6, <3>1, <3>3 DEF Claims
        <4>2. /\ Fresh(t) /\ Settled(t) /\ t \in tables /\ t \in Cells
              /\ \A e \in Slots : media[At(t, e)] = {Unallocated}
          BY <4>1 DEF Ready, Fresh
        <4>3. n # t
          <5>1. n \in media[Rgd(i)] /\ Rgd(i) \in PointerPlaces
            BY <1>6, <4>1, Locating DEF Safe, Typed, DeviceOK, PointerPlaces
          <5>2. QED
            BY <4>2, <5>1, CellsAre DEF Fresh
        <4>4. \A j \in Indices : gd'[j] # t /\ rgd'[j] # t
          <5>1. gd' = gd /\ rgd' = [rgd EXCEPT ![i] = n]
            BY <1>4, <2>4 DEF RgdFlush
          <5>2. \A j \in Indices : gd[j] # t /\ rgd[j] # t
            BY <4>2 DEF Fresh
          <5>3. rgd \in [Indices -> {Unallocated} \cup Cells]
            BY DEF Safe, Typed, MemoryOK
          <5>4. QED
            BY <1>6, <4>3, <5>1, <5>2, <5>3
        <4>5. Fresh(t)' /\ Settled(t)'
          BY <1>2, <4>2, <4>4, TameFresh DEF Safe
        <4>6. \A e \in Slots : media'[At(t, e)] = {Unallocated}
          BY <1>2, <4>2, Locating DEF Safe, Typed, DeviceOK
        <4>7. Ready(t)'
          BY <1>1, <4>2, <4>5, <4>6 DEF Ready
        <4>8. Claims(to, t, n, u, i)'
          BY <3>3, <4>7 DEF Claims, TablePlaces, SeedPlaces, GrainPlaces, EntryPlaces
        <4>9. QED
          BY <3>1, <4>8
      <3>4. QED
        BY <3>2, <3>3
    <2>5. CASE GdFlush(w) \/ MergeFlush(w)
      <3>1. PICK to \in {"invalidate", "grainSpace"} : Goto(w, to)
        BY <2>5 DEF GdFlush, MergeFlush
      <3>2. Claims(to, t, n, u, i)'
        BY NothingClaimed DEF FreeOfClaims, FoundPlaces
      <3>3. QED
        BY <3>1, <3>2
    <2>6. CASE Flushed(w)
      <3>1. gd' = gd /\ rgd' = rgd /\ Goto(w, AfterFlush[p])
        BY <1>4, <2>6 DEF Flushed, memory
      <3>2. CASE p = "seedFlush"
        <4>1. Fresh(n) /\ Settled(n) /\ u = "seed"
          BY <1>4, <1>6, <3>2 DEF Claims, SeedPlaces, WriterOK
        <4>2. Fresh(n)' /\ Settled(n)'
          BY <1>8, <3>1, <4>1
        <4>3. Claims("rgdWrite", t, n, u, i)'
          BY <4>1, <4>2 DEF Claims, GrainPlaces, EntryPlaces
        <4>4. QED
          BY <3>1, <3>2, <4>3, AfterFlushIs
      <3>3. CASE p \in {"grainFlush", "entryFlush"}
        <4>1. Fresh(n) /\ n <= disk[Length]
          BY <1>6, <3>3 DEF Claims, GrainPlaces, EntryPlaces
        <4>2. Fresh(n)' /\ Settled(n)' /\ n <= disk'[Length]
          BY <1>2, <1>8, <3>1, <4>1
        <4>3. PICK to \in {"entryRedundant", "entryPrimary"} : Goto(w, to)
          BY <3>1, <3>3, AfterFlushIs
        <4>4. Claims(to, t, n, u, i)'
          BY <4>2, <4>3 DEF Claims, TablePlaces, SeedPlaces
        <4>5. QED
          BY <4>3, <4>4
      <3>4. QED
        BY <1>4, <2>6, <3>2, <3>3, AfterFlushIs DEF Flushed
    <2>7. QED
      BY <1>10, <2>4, <2>5, <2>6
  <1>11. QED
    BY <1>9, <1>10

\* What the lock's holder owns outlives a write outside the tables.
LEMMA OutsideTables ==
    ASSUME Safe, Typed', NEW f, DevWriteAll(f), NEW c, c \notin tables,
           \A l \in DOMAIN f : \E k : l = At(c, k),
           cursor' = cursor, tables' = tables, gd' = gd, rgd' = rgd,
           NEW q \in Writers, pc'[q] = pc[q], my'[q] = my[q]
    PROVE  Space' /\ Owns(q)'
  <1>1. c \notin TableCells
    BY DEF Safe, Space
  <1>2. /\ Tame /\ disk'[Length] = disk[Length]
        /\ \A l \in Locs : IF l \in DOMAIN f THEN disk'[l] = f[l]
                           ELSE disk'[l] = disk[l] /\ media'[l] = media[l]
    BY <1>1, WordsTame DEF Safe
  <1>3. Space'
    <2>1. \A j \in Indices : gd'[j] < cursor' /\ rgd'[j] < cursor' /\ rgd'[j] \notin TableCells
      BY DEF Safe, Space
    <2>2. QED
      BY <1>2, <2>1, TameSpace DEF Safe
  <1>4. ASSUME NEW x, Fresh(x) PROVE Fresh(x)' /\ (Settled(x) => Settled(x)')
    <2>1. \A j \in Indices : gd'[j] # x /\ rgd'[j] # x
      BY <1>4 DEF Fresh
    <2>2. QED
      BY <1>2, <1>4, <2>1, TameFresh DEF Safe
  <1>5. ASSUME NEW x \in Cells, x \in tables
        PROVE  \A e \in Slots : /\ disk'[At(x, e)] = disk[At(x, e)]
                                /\ media'[At(x, e)] = media[At(x, e)]
    <2>1. ASSUME NEW e \in Slots PROVE At(x, e) \notin DOMAIN f
      BY <1>5, Locating
    <2>2. QED
      BY <1>2, <2>1, Locating
  <1>6. ASSUME NEW x, Ready(x) PROVE Ready(x)'
    <2>1. /\ Fresh(x) /\ Settled(x) /\ x \in tables /\ x \in Cells
          /\ \A e \in Slots : media[At(x, e)] = {Unallocated}
      BY <1>6 DEF Ready, Fresh
    <2>2. QED
      BY <1>4, <1>5, <2>1 DEF Ready
  <1>7. CASE pc[q] \in HeldPlaces
    <2>1. PICK p, t, n, u, i : /\ p = pc[q] /\ t = my[q].table /\ n = my[q].new /\ u = my[q].purpose
                               /\ i = Here(q).gt
      OBVIOUS
    <2>2. pc[q] # "idle"
      BY <1>7 DEF HeldPlaces, TablePlaces, RgdPlaces, SeedPlaces, GdPlaces, FoundPlaces, GrainPlaces, EntryPlaces
    <2>3. Claims(p, t, n, u, i) /\ i \in Indices
      BY <2>1, <2>2, HolderIs DEF Safe, Owns
    <2>4. /\ disk'[Rgd(i)] = disk[Rgd(i)] /\ disk'[Gd(i)] = disk[Gd(i)]
      BY <1>2, <2>3, Locating
    <2>5. p = "tableFlush" => \A e \in Slots : disk'[At(n, e)] = Unallocated
      <3>1. ASSUME p = "tableFlush"
            PROVE  n \in Cells /\ n \in tables /\ \A e \in Slots : disk[At(n, e)] = Unallocated
        BY <2>3, <3>1 DEF Claims, Fresh
      <3>2. QED
        BY <1>5, <3>1
    <2>6. Claims(p, t, n, u, i)'
      <3>1. /\ (Fresh(n) => Fresh(n)' /\ (Settled(n) => Settled(n)')) /\ (Ready(t) => Ready(t)')
            /\ disk'[Length] = disk[Length] /\ (Fresh(n) => Fresh(n)')
        BY <1>2, <1>4, <1>6
      <3>2. p \in EntryPlaces => p \in GrainPlaces
        BY DEF GrainPlaces
      <3>3. QED
        BY <2>3, <2>4, <2>5, <3>1, <3>2 DEF Claims
    <2>7. /\ pc'[q] = p /\ my'[q].table = t /\ my'[q].new = n /\ my'[q].purpose = u /\ Here(q).gt' = i
      BY <2>1, HereKept
    <2>8. Owns(q)'
      BY <2>6, <2>7, OwnsBy
    <2>9. QED
      BY <1>3, <2>8
  <1>8. CASE pc[q] \notin HeldPlaces
    BY <1>3, <1>8, OwnsNothing
  <1>9. QED
    BY <1>7, <1>8

LEMMA PayloadSafe ==
    ASSUME Safe, Typed', NEW w \in Writers, ValidGrain(my[w].new), DevWriteAll(Payload(w)),
           cursor' = cursor, tables' = tables, gd' = gd, rgd' = rgd,
           NEW to, Goes(w, to), to \in FreeOfClaims, \A q \in Writers \ {w} : my'[q] = my[q]
    PROVE  Safe'
  <1>1. PICK c : c = my[w].new
    OBVIOUS
  <1>2. c \notin tables
    BY <1>1 DEF ValidGrain
  <1>3. \A l \in DOMAIN Payload(w) : \E k : l = At(c, k)
    <2>1. PICK K : DOMAIN Payload(w) = {At(my[w].new, k) : k \in K}
      BY PayloadIs
    <2>2. QED
      BY <1>1, <2>1
  <1>4. \A q \in Writers \ {w} : pc'[q] = pc[q] /\ my'[q] = my[q]
    BY DEF Goes
  <1>5. \A q \in Writers \ {w} : Owns(q)'
    BY <1>2, <1>3, <1>4, OutsideTables
  <1>6. Owns(w)'
    BY OwnsNothing DEF Goes
  <1>7. Space'
    <2>1. c \notin TableCells
      BY <1>2 DEF Safe, Space
    <2>2. Tame
      BY <1>3, <2>1, WordsTame DEF Safe
    <2>3. \A j \in Indices : gd'[j] < cursor' /\ rgd'[j] < cursor' /\ rgd'[j] \notin TableCells
      BY DEF Safe, Space
    <2>4. QED
      BY <2>2, <2>3, TameSpace DEF Safe
  <1>8. QED
    BY <1>5, <1>6, <1>7 DEF Safe

LEMMA SafeEnd ==
    ASSUME Safe, Typed', NEW w \in Writers, Through(w) \/ Refresh(w)
    PROVE  Safe'
  <1>1. /\ ChunkDone(w) /\ pc[w] # "idle" /\ cursor' = cursor /\ tables' = tables /\ gd' = gd /\ rgd' = rgd
        /\ my = [q \in Writers |-> my[q]]
    BY DEF Through, Refresh, memory, Safe, Typed, ThreadsOK
  <1>2. PICK to \in {"idle", "gd"} : Goes(w, to) /\ Goto(w, to)
    <2>1. PICK to \in {"idle", "gd"} : Goto(w, to)
      BY <1>1 DEF ChunkDone
    <2>2. Goes(w, to)
      BY <2>1, GotoIs DEF Safe, Typed, Places, FreePlaces
    <2>3. QED
      BY <2>1, <2>2
  <1>3. \A q \in Writers \ {w} : my'[q] = my[q]
    BY <1>1 DEF ChunkDone
  <1>4. to \in FreeOfClaims
    BY DEF FreeOfClaims, FreePlaces
  <1>5. CASE Through(w)
    BY <1>1, <1>2, <1>3, <1>4, <1>5, PayloadSafe DEF Through
  <1>6. CASE Refresh(w)
    <2>1. UNCHANGED spaceVars
      BY <1>1, <1>6 DEF Refresh, spaceVars
    <2>2. Owns(w)'
      BY <1>2, <1>4, OwnsNothing DEF Goes
    <2>3. QED
      BY <1>2, <1>3, <2>1, <2>2, QuietStep
  <1>7. QED
    BY <1>5, <1>6

LEMMA SafeFail ==
    ASSUME Safe, Typed', NEW w \in Writers, Refused(w) \/ WriteFails(w) \/ FlushFails(w)
    PROVE  Safe'
  <1>1. /\ Fail(w) /\ Goto(w, "idle") /\ cursor' = cursor /\ tables' = tables /\ gd' = gd /\ rgd' = rgd
        /\ my = [q \in Writers |-> my[q]]
    BY DEF Refused, WriteFails, FlushFails, Fail, memory, Safe, Typed, ThreadsOK
  <1>2. /\ Goes(w, "idle") /\ "idle" \in FreeOfClaims
    BY <1>1, FailThreads DEF Safe, Typed, FreeOfClaims, FreePlaces
  <1>3. \A q \in Writers \ {w} : my'[q] = my[q]
    BY <1>1 DEF Fail
  <1>4. Owns(w)'
    BY <1>2, OwnsNothing DEF Goes
  <1>5. CASE UNCHANGED devVars
    <2>1. UNCHANGED spaceVars
      BY <1>1, <1>5 DEF spaceVars
    <2>2. QED
      BY <1>1, <1>3, <1>4, <2>1, QuietStep
  <1>6. CASE pc[w] \in DOMAIN AfterStore /\ DevWriteAll(Stores(w))
    <2>1. Space'
      BY <1>1, <1>6, StoreSpace
    <2>2. pc[w] \in HeldPlaces
      BY <1>6, AfterStoreIs DEF HeldPlaces, TablePlaces, SeedPlaces, RgdPlaces, GdPlaces, FoundPlaces,
         GrainPlaces, EntryPlaces
    <2>3. QED
      BY <1>1, <1>4, <2>1, <2>2, HolderStep DEF Safe
  <1>7. CASE ValidGrain(my[w].new) /\ DevWriteAll(Payload(w))
    BY <1>1, <1>2, <1>3, <1>7, PayloadSafe
  <1>8. CASE pc[w] \in {"tableSpace", "grainSpace"} /\ cursor <= MaxCell /\ DevWrite(Length, cursor)
    <2>1. cursor \in 1 .. MaxCell /\ cursor \in Int
      BY <1>8, GrainAssumption DEF Safe, Typed, MemoryOK
    <2>2. /\ media'[Length] = media[Length] \cup {cursor}
          /\ \A l \in Locs \ {Length} : disk'[l] = disk[l] /\ media'[l] = media[l]
      BY <1>8, <2>1, LengthIs DEF Safe, Typed
    <2>3. Tame
      <3>1. /\ disk'[Header] = disk[Header]
            /\ \A i \in Indices : media'[Gd(i)] = media[Gd(i)] /\ media'[Rgd(i)] = media[Rgd(i)]
            /\ \A c \in TableCells, e \in Slots : media'[At(c, e)] = media[At(c, e)]
        BY <2>2, Locating DEF TableCells
      <3>2. cursor <= cursor' /\ \A n \in media'[Length] : n \in media[Length] \/ (n \in Int /\ cursor <= n)
        BY <1>1, <2>1, <2>2
      <3>3. QED
        BY <1>1, <3>1, <3>2 DEF Tame
    <2>4. \A j \in Indices : gd'[j] < cursor' /\ rgd'[j] < cursor' /\ rgd'[j] \notin TableCells
      BY <1>1 DEF Safe, Space
    <2>5. Space'
      BY <2>3, <2>4, TameSpace DEF Safe
    <2>6. pc[w] \in HeldPlaces
      BY <1>8 DEF HeldPlaces, TablePlaces, FoundPlaces
    <2>7. QED
      BY <1>1, <1>4, <2>5, <2>6, HolderStep DEF Safe
  <1>9. QED
    <2>1. ASSUME WriteFails(w), ~UNCHANGED devVars, pc[w] \in DOMAIN AfterStore
          PROVE  DevWriteAll(Stores(w))
      BY <2>1, AfterStoreIs DEF WriteFails
    <2>2. ASSUME WriteFails(w), ~UNCHANGED devVars, pc[w] = "through"
          PROVE  ValidGrain(my[w].new) /\ DevWriteAll(Payload(w))
      BY <2>2, AfterStoreIs DEF WriteFails
    <2>3. ASSUME WriteFails(w), ~UNCHANGED devVars, pc[w] \in {"tableSpace", "grainSpace"}
          PROVE  cursor <= MaxCell /\ DevWrite(Length, cursor)
      BY <2>3, AfterStoreIs DEF WriteFails
    <2>4. CASE WriteFails(w)
      <3>1. \/ pc[w] \in DOMAIN AfterStore \/ pc[w] = "through"
            \/ pc[w] \in {"tableSpace", "grainSpace"}
        BY <2>4 DEF WriteFails
      <3>2. QED
        BY <1>5, <1>6, <1>7, <1>8, <2>1, <2>2, <2>3, <2>4, <3>1
    <2>5. QED
      BY <1>5, <2>4 DEF Refused, FlushFails, DevFlushFails

LEMMA AllIdle ==
    ASSUME Typed', Space', \A w \in Writers : pc'[w] = "idle"
    PROVE  Safe'
  <1>1. "idle" \in FreeOfClaims
    BY DEF FreeOfClaims, FreePlaces
  <1>2. QED
    BY <1>1, OwnsNothing DEF Safe

\* A crash keeps every claim it leaves inside the file it leaves.
LEMMA SafeCrash ==
    ASSUME Safe, Typed', Crash
    PROVE  Safe'
  <1>1. PICK c \in CrashOutcomes : /\ DevCrash(c)
                                   /\ gd' = Opened(c).gd /\ rgd' = Opened(c).rgd
                                   /\ cursor' = Opened(c).cursor /\ tables' = Opened(c).tables
    BY DEF Crash
  <1>2. /\ \A l \in Locs : c[l] \in media[l] /\ disk'[l] = c[l] /\ media'[l] = {c[l]}
        /\ disk'[Header] = disk[Header]
    BY <1>1, CrashIs DEF Safe, Typed
  <1>3. c[Length] \in 1 .. MaxCell /\ (\A l \in Locs : Fits(l, c[l])) /\ c[Length] \in media[Length]
    BY <1>2, Locating, LengthTyped DEF Safe, Typed, DeviceOK
  <1>4. /\ \A i \in Indices : gd'[i] = c[Gd(i)] /\ rgd'[i] = c[Rgd(i)]
        /\ cursor' = c[Length] + 1
        /\ \A x : x \in tables' <=> x \in Named(c) /\ x \in FirstCell .. c[Length]
    BY <1>1, <1>3, OpenedTyped
  <1>5. TableCells' \subseteq TableCells /\ PointerPlaces' \subseteq PointerPlaces
        /\ \A x \in TableCells' : \E i \in Indices : x = c[Gd(i)]
    <2>1. TableCells' \subseteq TableCells /\ \A x \in TableCells' : \E i \in Indices : x = c[Gd(i)]
      BY <1>2, Locating DEF TableCells
    <2>2. QED
      BY <2>1 DEF PointerPlaces
  <1>6. \A l \in PointerPlaces' : c[l] \in media[l] /\ media'[l] = {c[l]}
    BY <1>2, <1>5, DirectoriesName DEF Safe, Typed
  <1>7. ASSUME NEW l \in PointerPlaces, c[l] \in media[l], NamesGrain(c[l])
        PROVE  /\ c[l] \in Cells /\ c[l] < cursor' /\ Settled(c[l])' /\ c[l] \in FirstCell .. c[Length]
    <2>1. c[l] \in Cells /\ c[l] <= c[Length] /\ c[l] \in Int
      BY <1>3, <1>7, CellsAre DEF Safe, Space, Settled
    <2>2. media'[Length] = {c[Length]}
      BY <1>2, Locating
    <2>3. QED
      BY <1>3, <1>4, <2>1, <2>2, GrainAssumption DEF Settled, Cells, FirstCell
  <1>8. ASSUME NEW l \in PointerPlaces', NEW x \in media'[l], NamesGrain(x)'
        PROVE  x \in Cells /\ x < cursor' /\ Settled(x)'
    BY <1>2, <1>5, <1>6, <1>7, <1>8, NamesKept
  <1>9. \A l, m \in PointerPlaces' : \A x \in media'[l] \cap media'[m] : NamesGrain(x)' => l = m
    BY <1>2, <1>5, <1>6, NamesKept DEF Safe, Space
  <1>10. \A i \in Indices : /\ Gd(i) \in PointerPlaces /\ c[Gd(i)] \in media[Gd(i)]
                            /\ Rgd(i) \in PointerPlaces /\ c[Rgd(i)] \in media[Rgd(i)]
                            /\ c[Gd(i)] \in {Unallocated} \cup Cells /\ c[Rgd(i)] \in {Unallocated} \cup Cells
    BY <1>2, <1>3, Locating DEF PointerPlaces, Fits
  <1>11. TableCells' \subseteq tables'
    <2>1. SUFFICES ASSUME NEW x \in TableCells' PROVE x \in tables'
      OBVIOUS
    <2>2. PICK i \in Indices : x = c[Gd(i)]
      BY <1>5
    <2>3. x \in Cells /\ NamesGrain(x)
      BY CellsAre DEF TableCells
    <2>4. x \in FirstCell .. c[Length]
      BY <1>7, <1>10, <2>2, <2>3
    <2>5. x \in Named(c)
      BY <2>2 DEF Named
    <2>6. QED
      BY <1>4, <2>4, <2>5
  <1>12. ASSUME NEW i \in Indices
         PROVE  gd'[i] < cursor' /\ rgd'[i] < cursor' /\ rgd'[i] \notin TableCells'
    <2>1. 0 < cursor' /\ gd'[i] = c[Gd(i)] /\ rgd'[i] = c[Rgd(i)]
      BY <1>3, <1>4
    <2>2. c[Gd(i)] < cursor' /\ c[Rgd(i)] < cursor'
      <3>1. c[Gd(i)] \in Cells => c[Gd(i)] < cursor'
        BY <1>7, <1>10, CellsAre
      <3>2. c[Rgd(i)] \in Cells => c[Rgd(i)] < cursor'
        BY <1>7, <1>10, CellsAre
      <3>3. QED
        BY <1>10, <2>1, <3>1, <3>2 DEF Unallocated
    <2>3. c[Rgd(i)] \notin TableCells'
      <3>1. SUFFICES ASSUME c[Rgd(i)] \in TableCells' PROVE FALSE
        OBVIOUS
      <3>2. PICK j \in Indices : c[Rgd(i)] = c[Gd(j)]
        BY <1>5, <3>1
      <3>3. NamesGrain(c[Rgd(i)])
        BY <3>1, CellsAre DEF TableCells
      <3>4. Rgd(i) = Gd(j)
        BY <1>10, <3>2, <3>3 DEF Safe, Space
      <3>5. QED
        BY <3>4, Locating
    <2>4. QED
      BY <2>1, <2>2, <2>3
  <1>13. Space'
    BY <1>8, <1>9, <1>11, <1>12 DEF Space
  <1>14. \A w \in Writers : pc'[w] = "idle"
    BY DEF Crash
  <1>15. QED
    BY <1>13, <1>14, AllIdle

LEMMA SafeOthers ==
    ASSUME Safe, Typed', (\E i \in Indices : ReaderLoads(i)) \/ Flush \/ Crash \/ UNCHANGED vars
    PROVE  Safe'
  <1>1. CASE UNCHANGED <<spaceVars, pc, my>>
    <2>1. Space'
      BY <1>1, SpaceSame DEF Safe
    <2>2. \A w \in Writers : Owns(w)'
      BY <1>1, OwnsSame DEF Safe
    <2>3. QED
      BY <2>1, <2>2 DEF Safe
  <1>2. CASE Flush
    <2>1. DevFlush /\ cursor' = cursor /\ tables' = tables /\ gd' = gd /\ rgd' = rgd
          /\ \A w \in Writers : pc'[w] = "idle"
      BY <1>2 DEF Flush, memory
    <2>2. Tame
      BY <2>1, FlushTame DEF Safe
    <2>3. \A j \in Indices : gd'[j] < cursor' /\ rgd'[j] < cursor' /\ rgd'[j] \notin TableCells
      BY <2>1 DEF Safe, Space
    <2>4. Space'
      BY <2>2, <2>3, TameSpace DEF Safe
    <2>5. QED
      BY <2>1, <2>4, AllIdle
  <1>3. CASE \E i \in Indices : ReaderLoads(i)
    BY <1>1, <1>3 DEF ReaderLoads, spaceVars
  <1>4. CASE UNCHANGED vars
    BY <1>1, <1>4 DEF vars, memory, spaceVars, devVars
  <1>5. QED
    BY <1>2, <1>3, <1>4, SafeCrash

LEMMA SafeStep == Safe /\ [Next]_vars => Safe'
  <1> SUFFICES ASSUME Safe, [Next]_vars PROVE Safe'
    OBVIOUS
  <1>1. Typed'
    BY TypedStep DEF Safe
  <1>2. ASSUME NEW w \in Writers, CallWrite(w) \/ WriterStep(w) PROVE Safe'
    BY <1>1, <1>2, SafeMoves, SafeSpace, SafeFlush, SafeStore, SafeEnd, SafeFail DEF WriterStep, Looks
  <1>3. QED
    BY <1>1, <1>2, SafeOthers DEF Next

-----------------------------------------------------------------------------
(* The property *)

\* A pointer of the device, as NoSharedSpace counts them, and the place it is at.
EntryAt(d, i, e) == <<<<"entry", i, e>>, d[At(d[Gd(i)], e)]>>

LEMMA PointersAre ==
    ASSUME NEW p
    PROVE  p \in Pointers(disk) <=>
             \/ (\E i \in Indices : (p = <<Gd(i), disk[Gd(i)]>> \/ p = <<Rgd(i), disk[Rgd(i)]>>))
             \/ \E i \in Indices, e \in Slots : disk[Gd(i)] # Unallocated /\ p = EntryAt(disk, i, e)
  BY DEF Pointers, Primary, EntryAt

LEMMA EntryIsNoDirectory ==
    /\ \A i, j, e : <<"entry", j, e>> # Gd(i) /\ <<"entry", j, e>> # Rgd(i)
    /\ \A i, e, j, f : <<"entry", i, e>> = <<"entry", j, f>> => i = j /\ e = f
  BY DEF Gd, Rgd

LEMMA SpaceIsDistinct ==
    ASSUME Typed, Space
    PROVE  NoSharedSpace
  <1>1. \A i \in Indices : /\ Gd(i) \in PointerPlaces /\ Rgd(i) \in PointerPlaces
                           /\ disk[Gd(i)] # Unallocated =>
                                 /\ disk[Gd(i)] \in TableCells /\ NamesGrain(disk[Gd(i)])
                                 /\ \A e \in Slots : At(disk[Gd(i)], e) \in PointerPlaces
    <2>1. \A i \in Indices : disk[Gd(i)] \in media[Gd(i)] /\ disk[Gd(i)] \in {Unallocated} \cup Cells
      BY Locating, DirectoriesName DEF Typed, DeviceOK
    <2>2. QED
      BY <2>1, CellsAre DEF PointerPlaces, TableCells
  <1>2. \A l \in PointerPlaces : disk[l] \in media[l]
    BY DirectoriesName DEF Typed, DeviceOK
  <1>3. \A i, j \in Indices : disk[Gd(i)] # Unallocated /\ disk[Gd(i)] = disk[Gd(j)] => i = j
    BY <1>1, <1>2, Locating DEF Space
  <1>4. ASSUME NEW p \in Used(disk)
        PROVE  \E l \in PointerPlaces :
                  /\ p[2] = disk[l] /\ NamesGrain(disk[l])
                  /\ \/ (\E i \in Indices : ((l = Gd(i) \/ l = Rgd(i)) /\ p = <<l, disk[l]>>))
                     \/ \E i \in Indices, e \in Slots :
                           /\ disk[Gd(i)] # Unallocated /\ l = At(disk[Gd(i)], e)
                           /\ p = <<<<"entry", i, e>>, disk[l]>>
    <2>1. p \in Pointers(disk) /\ NamesGrain(p[2])
      BY DEF Used
    <2>2. CASE (\E i \in Indices : (p = <<Gd(i), disk[Gd(i)]>> \/ p = <<Rgd(i), disk[Rgd(i)]>>))
      <3>1. PICK i \in Indices : (p = <<Gd(i), disk[Gd(i)]>> \/ p = <<Rgd(i), disk[Rgd(i)]>>)
        BY <2>2
      <3>2. PICK l : (l = Gd(i) \/ l = Rgd(i)) /\ p = <<l, disk[l]>>
        BY <3>1
      <3>3. l \in PointerPlaces /\ p[2] = disk[l]
        BY <1>1, <3>2
      <3>4. QED
        BY <2>1, <3>2, <3>3
    <2>3. CASE \E i \in Indices, e \in Slots : disk[Gd(i)] # Unallocated /\ p = EntryAt(disk, i, e)
      <3>1. PICK i \in Indices, e \in Slots : disk[Gd(i)] # Unallocated /\ p = EntryAt(disk, i, e)
        BY <2>3
      <3>2. PICK l : l = At(disk[Gd(i)], e)
        OBVIOUS
      <3>3. l \in PointerPlaces /\ p = <<<<"entry", i, e>>, disk[l]>> /\ p[2] = disk[l]
        BY <1>1, <3>1, <3>2 DEF EntryAt
      <3>4. QED
        BY <2>1, <3>1, <3>2, <3>3
    <2>4. QED
      BY <2>1, <2>2, <2>3, PointersAre
  <1>5. ASSUME NEW p \in Used(disk), NEW q \in Used(disk), p[2] = q[2] PROVE p = q
    <2>1. PICK l \in PointerPlaces :
                  /\ p[2] = disk[l] /\ NamesGrain(disk[l])
                  /\ \/ (\E i \in Indices : ((l = Gd(i) \/ l = Rgd(i)) /\ p = <<l, disk[l]>>))
                     \/ \E i \in Indices, e \in Slots :
                           /\ disk[Gd(i)] # Unallocated /\ l = At(disk[Gd(i)], e)
                           /\ p = <<<<"entry", i, e>>, disk[l]>>
      BY <1>4
    <2>2. PICK m \in PointerPlaces :
                  /\ q[2] = disk[m] /\ NamesGrain(disk[m])
                  /\ \/ (\E i \in Indices : ((m = Gd(i) \/ m = Rgd(i)) /\ q = <<m, disk[m]>>))
                     \/ \E i \in Indices, e \in Slots :
                           /\ disk[Gd(i)] # Unallocated /\ m = At(disk[Gd(i)], e)
                           /\ q = <<<<"entry", i, e>>, disk[m]>>
      BY <1>4
    <2>3. l = m
      BY <1>2, <1>5, <2>1, <2>2 DEF Space
    <2>4. CASE (\E i \in Indices : ((l = Gd(i) \/ l = Rgd(i)) /\ p = <<l, disk[l]>>))
      BY <2>2, <2>3, <2>4, Locating
    <2>5. CASE \E i \in Indices, e \in Slots :
                  /\ disk[Gd(i)] # Unallocated /\ l = At(disk[Gd(i)], e)
                  /\ p = <<<<"entry", i, e>>, disk[l]>>
      <3>1. PICK i \in Indices, e \in Slots :
                  /\ disk[Gd(i)] # Unallocated /\ l = At(disk[Gd(i)], e)
                  /\ p = <<<<"entry", i, e>>, disk[l]>>
        BY <2>5
      <3>2. PICK j \in Indices, f \in Slots :
                  /\ disk[Gd(j)] # Unallocated /\ m = At(disk[Gd(j)], f)
                  /\ q = <<<<"entry", j, f>>, disk[m]>>
        BY <2>2, <2>3, <3>1, Locating
      <3>3. disk[Gd(i)] = disk[Gd(j)] /\ e = f
        <4>1. PICK a, b : a = disk[Gd(i)] /\ b = disk[Gd(j)]
          OBVIOUS
        <4>2. At(a, e) = At(b, f)
          BY <2>3, <3>1, <3>2, <4>1
        <4>3. QED
          BY <4>1, <4>2, Locating
      <3>4. i = j
        BY <1>3, <3>1, <3>3
      <3>5. <<"entry", i, e>> = <<"entry", j, f>> /\ disk[l] = disk[m]
        BY <2>3, <3>3, <3>4
      <3>6. QED
        BY <3>1, <3>2, <3>5
    <2>6. QED
      BY <2>1, <2>4, <2>5
  <1>6. ASSUME NEW p \in Used(disk) PROVE p[2] \in FirstCell .. disk[Length]
    <2>1. PICK l \in PointerPlaces : p[2] = disk[l] /\ NamesGrain(disk[l])
      BY <1>4
    <2>2. disk[l] \in Cells /\ disk[l] <= disk[Length] /\ disk[Length] \in Int
      BY <1>2, <2>1, Locating, LengthTyped DEF Space, Settled, Typed, DeviceOK
    <2>3. QED
      BY <2>1, <2>2, GrainAssumption DEF Cells, FirstCell
  <1>7. QED
    BY <1>5, <1>6 DEF NoSharedSpace, DistinctSpace

LEMMA SafeInit == Init /\ NoSharedSpace => Safe
  <1> SUFFICES ASSUME Init, NoSharedSpace PROVE Safe
    OBVIOUS
  <1>1. Typed
    BY TypedInit
  <1>2. /\ \A l \in Locs : media[l] = {disk[l]}
        /\ gd = Opened(disk).gd /\ rgd = Opened(disk).rgd
        /\ cursor = Opened(disk).cursor /\ tables = Opened(disk).tables
        /\ \A w \in Writers : pc[w] = "idle"
    <2>1. DOMAIN disk = Locs
      BY <1>1 DEF Typed, DeviceOK
    <2>2. QED
      BY <2>1 DEF Init
  <1>3. disk[Length] \in 1 .. MaxCell /\ \A l \in Locs : Fits(l, disk[l])
    BY <1>1, LengthTyped DEF Typed, DeviceOK
  <1>4. /\ \A i \in Indices : gd[i] = disk[Gd(i)] /\ rgd[i] = disk[Rgd(i)]
        /\ cursor = disk[Length] + 1
        /\ \A x : x \in tables <=> x \in Named(disk) /\ x \in FirstCell .. disk[Length]
    BY <1>2, <1>3, OpenedTyped
  <1>5. \A x : x \in TableCells <=> x \in Cells /\ \E i \in Indices : x = disk[Gd(i)]
    BY <1>2, Locating DEF TableCells
  <1>6. ASSUME NEW l \in PointerPlaces, NamesGrain(disk[l])
        PROVE  \E p \in Used(disk) :
                  /\ p[2] = disk[l]
                  /\ \/ p[1] = l /\ (\E i \in Indices : (l = Gd(i) \/ l = Rgd(i)))
                     \/ \E i \in Indices, e \in Slots : p[1] = <<"entry", i, e>> /\ l = At(disk[Gd(i)], e)
    <2>1. CASE (\E i \in Indices : (l = Gd(i) \/ l = Rgd(i)))
      <3>1. PICK p : p = <<l, disk[l]>>
        OBVIOUS
      <3>2. p \in Pointers(disk)
        BY <2>1, <3>1, PointersAre
      <3>3. p[2] = disk[l] /\ p[1] = l
        BY <3>1
      <3>4. QED
        BY <1>6, <2>1, <3>2, <3>3 DEF Used
    <2>2. CASE \E c \in TableCells, e \in Slots : l = At(c, e)
      <3>1. PICK c \in TableCells, e \in Slots : l = At(c, e)
        BY <2>2
      <3>2. PICK i \in Indices : c = disk[Gd(i)] /\ c # Unallocated
        BY <1>5, CellsAre
      <3>3. PICK p : p = EntryAt(disk, i, e)
        OBVIOUS
      <3>4. p \in Pointers(disk)
        BY <3>2, <3>3, PointersAre
      <3>5. p[2] = disk[l] /\ p[1] = <<"entry", i, e>>
        BY <3>1, <3>2, <3>3 DEF EntryAt
      <3>6. QED
        BY <1>6, <3>1, <3>2, <3>4, <3>5 DEF Used
    <2>3. QED
      BY <2>1, <2>2 DEF PointerPlaces
  <1>7. ASSUME NEW l \in PointerPlaces, NamesGrain(disk[l])
        PROVE  disk[l] \in FirstCell .. disk[Length] /\ disk[l] \in Cells /\ disk[l] < cursor /\ Settled(disk[l])
    <2>1. disk[l] \in FirstCell .. disk[Length]
      BY <1>6, <1>7 DEF NoSharedSpace
    <2>2. QED
      BY <1>2, <1>3, <1>4, <2>1, Locating, GrainAssumption DEF Settled, Cells, FirstCell
  <1>8. ASSUME NEW l \in PointerPlaces, NEW m \in PointerPlaces, disk[l] = disk[m], NamesGrain(disk[l])
        PROVE  l = m
    <2>1. PICK p \in Used(disk) :
                  /\ p[2] = disk[l]
                  /\ \/ p[1] = l /\ (\E i \in Indices : (l = Gd(i) \/ l = Rgd(i)))
                     \/ \E i \in Indices, e \in Slots : p[1] = <<"entry", i, e>> /\ l = At(disk[Gd(i)], e)
      BY <1>6, <1>8
    <2>2. PICK q \in Used(disk) :
                  /\ q[2] = disk[m]
                  /\ \/ q[1] = m /\ (\E i \in Indices : (m = Gd(i) \/ m = Rgd(i)))
                     \/ \E i \in Indices, e \in Slots : q[1] = <<"entry", i, e>> /\ m = At(disk[Gd(i)], e)
      BY <1>6, <1>8
    <2>3. p = q
      BY <1>8, <2>1, <2>2 DEF NoSharedSpace, DistinctSpace
    <2>4. QED
      BY <2>1, <2>2, <2>3, EntryIsNoDirectory
  <1>9. \A i \in Indices : Gd(i) \in PointerPlaces /\ Rgd(i) \in PointerPlaces
    BY DEF PointerPlaces
  <1>10. \A i \in Indices : /\ disk[Gd(i)] \in {Unallocated} \cup Cells
                            /\ disk[Rgd(i)] \in {Unallocated} \cup Cells
    BY <1>3, Locating DEF Fits
  <1>11. TableCells \subseteq tables
    <2>1. ASSUME NEW x \in TableCells PROVE x \in Named(disk) /\ x \in FirstCell .. disk[Length]
      BY <1>5, <1>7, <1>9, CellsAre DEF Named
    <2>2. QED
      BY <1>4, <2>1
  <1>12. ASSUME NEW i \in Indices PROVE gd[i] < cursor /\ rgd[i] < cursor /\ rgd[i] \notin TableCells
    <2>1. 0 < cursor
      BY <1>3, <1>4
    <2>2. gd[i] < cursor /\ rgd[i] < cursor
      BY <1>4, <1>7, <1>9, <1>10, <2>1, CellsAre DEF Unallocated
    <2>3. rgd[i] \notin TableCells
      <3>1. SUFFICES ASSUME NEW j \in Indices, disk[Rgd(i)] = disk[Gd(j)], disk[Rgd(i)] \in Cells PROVE FALSE
        BY <1>4, <1>5
      <3>2. Rgd(i) = Gd(j)
        BY <1>8, <1>9, <3>1, CellsAre
      <3>3. QED
        BY <3>2, Locating
    <2>4. QED
      BY <2>2, <2>3
  <1>13. \A l \in PointerPlaces : media[l] = {disk[l]}
    BY <1>1, <1>2, DirectoriesName DEF Typed
  <1>14. Space
    <2>1. \A l \in PointerPlaces : \A x \in media[l] :
             NamesGrain(x) => x \in Cells /\ x < cursor /\ Settled(x)
      BY <1>7, <1>13
    <2>2. \A l, m \in PointerPlaces : \A x \in media[l] \cap media[m] : NamesGrain(x) => l = m
      BY <1>8, <1>13
    <2>3. QED
      BY <1>11, <1>12, <2>1, <2>2 DEF Space
  <1>15. ASSUME NEW w \in Writers PROVE Owns(w)
    <2>1. pc[w] = "idle"
      BY <1>2
    <2>2. QED
      BY <2>1 DEF Owns, Claims, TablePlaces, SeedPlaces, GrainPlaces, EntryPlaces
  <1>16. QED
    BY <1>1, <1>14, <1>15 DEF Safe

\* allocate_sectors, publish_directory_entry and update_gt_entry: from an image
\* whose tables and grains share no host space, no two ever share any and all of
\* them lie inside the file, after every step, failed call and crash.
THEOREM SpaceIsNotShared == Spec /\ NoSharedSpace => []NoSharedSpace
  <1>1. Safe => NoSharedSpace
    BY SpaceIsDistinct DEF Safe
  <1>2. QED
    BY <1>1, SafeInit, SafeStep, PTL DEF Spec

\* Of any two of its structures, none share host space, whatever else the image names.
THEOREM SpaceIsDistinctAlways == Spec /\ NoSharedSpace => []DistinctSpace
  <1>1. NoSharedSpace => DistinctSpace
    BY DEF NoSharedSpace
  <1>2. QED
    BY <1>1, SpaceIsNotShared, PTL
=============================================================================
