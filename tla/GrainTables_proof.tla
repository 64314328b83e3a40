-------------------------- MODULE GrainTables_proof --------------------------
(***************************************************************************)
(* What the write path of GrainWriter believes of the tables it uses is    *)
(* what the device holds: the cached table is the device's, an entry that  *)
(* names a grain never changes, and a thread past its second look still    *)
(* finds its entry empty. And the redundant copies it keeps: one that      *)
(* covers its primary table covers it after every step and in whatever a   *)
(* crash may leave, and one that was merged is complete. For any number of *)
(* writers, tables, slots, blocks and cells, wherever a crash falls, and   *)
(* whatever device call fails, but for a primary entry written by a call   *)
(* that reports an error.                                                  *)
(***************************************************************************)
EXTENDS GrainWriter_proof

-----------------------------------------------------------------------------
(* The invariant *)

\* A write of a primary entry that fails has had no effect.
EntryIsReliable == "entryPrimary" \notin DirtyAt

\* Where a thread uses the table of its chunk; where moreover it has seen that its
\* entry names no grain; and where it makes a table or the copy of one.
UsePlaces == {"gt", "refresh"} \cup FoundPlaces \cup GrainPlaces
SeenPlaces == {"redundant", "mergeWrite", "mergeFlush", "grainSpace"} \cup GrainPlaces
MakePlaces == TablePlaces \cup SeedPlaces \cup RgdPlaces

\* Directory entry i names a table, whose entry e names no grain.
Vacant(i, e) == gd[i] # Unallocated /\ ~NamesGrain(disk[At(gd[i], e)])

\* What is so at place p, with table t, new cell n and purpose u, of entry e of
\* table i.
Knows(p, t, n, u, i, e) ==
    /\ p \in UsePlaces => t = gd[i] /\ gd[i] # Unallocated
    /\ p = "refresh" => disk[At(gd[i], e)] = n
    /\ p \in SeenPlaces => Vacant(i, e)
    /\ p \in MakePlaces /\ u = "seed" => t = gd[i] /\ Vacant(i, e)
    /\ (p \in MakePlaces /\ u # "seed") \/ p \in GdPlaces => gd[i] = Unallocated

KnowsTable(w) ==
    Knows(pc[w], my[w].table, my[w].new, my[w].purpose, Here(w).gt, Here(w).gte)

\* The directory in memory names what the device's does.
TablesAgree == \A i \in Indices : gd[i] # Unallocated => disk[Gd(i)] = gd[i]

Coherent == TablesAgree /\ CacheCoherent /\ \A w \in Writers : KnowsTable(w)

-----------------------------------------------------------------------------
(* What a quiet step keeps *)

\* The directory stays, and of the device what it names.
Quiet ==
    /\ gd' = gd /\ disk'[Header] = disk[Header]
    /\ \A i \in Indices : gd[i] # Unallocated =>
          disk'[Gd(i)] = gd[i] /\ \A e \in Slots : disk'[At(gd[i], e)] = disk[At(gd[i], e)]

LEMMA KnowsSame ==
    ASSUME Quiet, NEW i \in Indices, NEW e \in Slots, NEW p, NEW t, NEW n, NEW u, Knows(p, t, n, u, i, e)
    PROVE  Knows(p, t, n, u, i, e)'
  <1>1. Vacant(i, e) => Vacant(i, e)'
    BY NamesKept DEF Quiet, Vacant
  <1>2. p = "refresh" => p \in UsePlaces
    BY DEF UsePlaces
  <1>3. QED
    BY <1>1, <1>2 DEF Quiet, Knows

\* A place where nothing is known of a table.
LEMMA NothingKnown ==
    ASSUME NEW p, p \in FreePlaces \ {"gt"}, NEW t, NEW n, NEW u, NEW i, NEW e
    PROVE  Knows(p, t, n, u, i, e) /\ Knows(p, t, n, u, i, e)'
  <1>1. /\ p \notin UsePlaces /\ p # "refresh" /\ p \notin SeenPlaces /\ p \notin MakePlaces
        /\ p \notin GdPlaces
    BY DEF FreePlaces, UsePlaces, SeenPlaces, MakePlaces, TablePlaces, SeedPlaces, RgdPlaces, GdPlaces,
       FoundPlaces, GrainPlaces, EntryPlaces
  <1>2. QED
    BY <1>1 DEF Knows

LEMMA KnowsBy ==
    ASSUME NEW w, NEW p, NEW t, NEW n, NEW u, NEW i, NEW e, pc'[w] = p, my'[w].table = t,
           my'[w].new = n, my'[w].purpose = u, Here(w).gt' = i, Here(w).gte' = e, Knows(p, t, n, u, i, e)'
    PROVE  KnowsTable(w)'
  BY DEF KnowsTable, Knows, Vacant, NamesGrain, UsesZeroed

LEMMA OtherKnows ==
    ASSUME Typed, Quiet, NEW q \in Writers, pc'[q] = pc[q], my'[q] = my[q], KnowsTable(q)
    PROVE  KnowsTable(q)'
  <1>1. PICK p, t, n, u, i, e : /\ p = pc[q] /\ t = my[q].table /\ n = my[q].new /\ u = my[q].purpose
                                /\ i = Here(q).gt /\ e = Here(q).gte
    OBVIOUS
  <1>2. /\ pc'[q] = p /\ my'[q].table = t /\ my'[q].new = n /\ my'[q].purpose = u
        /\ Here(q).gt' = i /\ Here(q).gte' = e
    BY <1>1, HereKept
  <1>3. Knows(p, t, n, u, i, e)
    BY <1>1 DEF KnowsTable
  <1>4. Knows(p, t, n, u, i, e)'
    <2>1. CASE p = "idle"
      BY <2>1, NothingKnown DEF FreePlaces
    <2>2. CASE p # "idle"
      BY <1>1, <1>3, <2>2, HolderIs, KnowsSame
    <2>3. QED
      BY <2>1, <2>2
  <1>5. QED
    BY <1>2, <1>4, KnowsBy

LEMMA AgreeSame == TablesAgree /\ Quiet => TablesAgree'
  BY DEF TablesAgree, Quiet

\* The thread whose refresh is due is where it was.
StillDue == \A q \in Writers : pc[q] = "refresh" => pc'[q] = pc[q] /\ my'[q] = my[q]

LEMMA CacheSame ==
    ASSUME Typed, CacheCoherent, Quiet, StillDue, cache' = cache
    PROVE  CacheCoherent'
  <1>1. SUFFICES ASSUME cache # NoCache PROVE CacheCoherent'
    BY DEF CacheCoherent, NoCache
  <1>2. PICK i, c : i = cache.loaded[1] /\ c = cache.loaded[2]
    OBVIOUS
  <1>3. i \in Indices /\ c \in Cells /\ c = gd[i] /\ c # Unallocated
    BY <1>1, <1>2, CellsAre DEF Typed, MemoryOK, CacheTyped, CacheCoherent
  <1>4. ASSUME NEW e \in Slots
        PROVE  \/ cache.entries[e] = disk'[At(c, e)]
               \/ \E q \in Writers : /\ pc'[q] = "refresh" /\ <<Here(q).gt', Here(q).gte'>> = <<i, e>>
                                     /\ my'[q].new = disk'[At(c, e)]
    <2>1. disk'[At(c, e)] = disk[At(c, e)]
      BY <1>3 DEF Quiet
    <2>2. CASE cache.entries[e] = disk[At(c, e)]
      BY <2>1, <2>2
    <2>3. CASE \E q \in Writers : /\ pc[q] = "refresh" /\ <<Here(q).gt, Here(q).gte>> = <<i, e>>
                                  /\ my[q].new = disk[At(c, e)]
      <3>1. PICK q \in Writers : /\ pc[q] = "refresh" /\ <<Here(q).gt, Here(q).gte>> = <<i, e>>
                                 /\ my[q].new = disk[At(c, e)]
        BY <2>3
      <3>2. pc'[q] = "refresh" /\ my'[q] = my[q] /\ Here(q).gt' = Here(q).gt /\ Here(q).gte' = Here(q).gte
        BY <3>1, HereKept DEF StillDue
      <3>3. QED
        BY <2>1, <3>1, <3>2
    <2>4. QED
      BY <1>1, <1>2, <2>2, <2>3 DEF CacheCoherent
  <1>5. QED
    BY <1>2, <1>3, <1>4 DEF CacheCoherent, Quiet

-----------------------------------------------------------------------------
(* Quiet steps *)

LEMMA TablesAre ==
    ASSUME Typed, TablesAgree, NEW i \in Indices, gd[i] # Unallocated
    PROVE  gd[i] \in Cells /\ gd[i] \in TableCells /\ disk[Gd(i)] = gd[i]
  BY Locating DEF Typed, MemoryOK, DeviceOK, TablesAgree, TableCells

LEMMA SameIsQuiet ==
    ASSUME TablesAgree, UNCHANGED devVars, gd' = gd
    PROVE  Quiet
  BY DEF Quiet, TablesAgree, devVars

LEMMA FlushIsQuiet ==
    ASSUME Typed, TablesAgree, DevFlush, gd' = gd
    PROVE  Quiet
  BY FlushIs DEF Quiet, TablesAgree, Typed

LEMMA WordsAreQuiet ==
    ASSUME Typed, TablesAgree, NEW f, DevWriteAll(f), NEW c, c \notin TableCells,
           \A l \in DOMAIN f : \E k : l = At(c, k), cursor' = cursor, tables' = tables, gd' = gd
    PROVE  Quiet
  <1>1. /\ disk'[Header] = disk[Header]
        /\ \A l \in Locs : l \notin DOMAIN f => disk'[l] = disk[l]
    BY WordsTame DEF Tame
  <1>2. ASSUME NEW i \in Indices, gd[i] # Unallocated
        PROVE  disk'[Gd(i)] = gd[i] /\ \A e \in Slots : disk'[At(gd[i], e)] = disk[At(gd[i], e)]
    <2>1. gd[i] \in Cells /\ gd[i] \in TableCells /\ disk[Gd(i)] = gd[i]
      BY <1>2, TablesAre
    <2>2. /\ Gd(i) \in Locs /\ Gd(i) \notin DOMAIN f
          /\ \A e \in Slots : At(gd[i], e) \in Locs /\ At(gd[i], e) \notin DOMAIN f
      BY <2>1, Locating
    <2>3. QED
      BY <1>1, <2>1, <2>2
  <1>3. QED
    BY <1>1, <1>2 DEF Quiet

\* A write of a directory entry that names no table yet.
LEMMA EntryIsQuiet ==
    ASSUME Typed, TablesAgree, NEW l, l \notin {Length, Header}, NEW f, DevWriteAll(f), DOMAIN f = {l},
           Fits(l, f[l]), gd' = gd, \A i \in Indices : gd[i] # Unallocated => l # Gd(i),
           \A c, e : l # At(c, e)
    PROVE  Quiet
  <1>1. /\ disk'[Header] = disk[Header]
        /\ \A m \in Locs : m # l => disk'[m] = disk[m]
    BY WriteIs DEF Typed
  <1>2. ASSUME NEW i \in Indices, gd[i] # Unallocated
        PROVE  disk'[Gd(i)] = gd[i] /\ \A e \in Slots : disk'[At(gd[i], e)] = disk[At(gd[i], e)]
    <2>1. gd[i] \in Cells /\ disk[Gd(i)] = gd[i]
      BY <1>2, TablesAre
    <2>2. Gd(i) \in Locs /\ \A e \in Slots : At(gd[i], e) \in Locs
      BY <2>1, Locating
    <2>3. QED
      BY <1>1, <1>2, <2>1, <2>2
  <1>3. QED
    BY <1>1, <1>2 DEF Quiet

LEMMA LengthIsQuiet ==
    ASSUME Typed, TablesAgree, cursor <= MaxCell, DevWrite(Length, cursor), gd' = gd
    PROVE  Quiet
  <1>1. cursor \in 1 .. MaxCell
    BY GrainAssumption DEF Typed, MemoryOK
  <1>2. \A l \in Locs \ {Length} : disk'[l] = disk[l]
    BY <1>1, LengthIs DEF Typed
  <1>3. ASSUME NEW i \in Indices, gd[i] # Unallocated
        PROVE  disk'[Gd(i)] = gd[i] /\ \A e \in Slots : disk'[At(gd[i], e)] = disk[At(gd[i], e)]
    <2>1. gd[i] \in Cells /\ disk[Gd(i)] = gd[i]
      BY <1>3, TablesAre
    <2>2. /\ Gd(i) \in Locs /\ Gd(i) # Length
          /\ \A e \in Slots : At(gd[i], e) \in Locs /\ At(gd[i], e) # Length
      BY <2>1, Locating
    <2>3. QED
      BY <1>2, <2>1, <2>2
  <1>4. QED
    BY <1>2, <1>3, Locating DEF Quiet

LEMMA StoreIsQuiet ==
    ASSUME Safe, TablesAgree, NEW w \in Writers, KnowsTable(w), pc[w] \in DOMAIN AfterStore,
           pc[w] # "entryPrimary", DevWriteAll(Stores(w)), cursor' = cursor, tables' = tables, gd' = gd
    PROVE  Quiet
  <1>1. WriterOK(w) /\ Here(w).gt \in Indices
    BY HolderIs, AfterStoreIs DEF Safe
  <1>2. CASE pc[w] \in WordPlaces
    BY <1>2, WordStores, WordsAreQuiet DEF Safe
  <1>3. CASE pc[w] = "rgdWrite"
    <2>1. PICK l : l = Rgd(Here(w).gt)
      OBVIOUS
    <2>2. DOMAIN Stores(w) = {l} /\ Fits(l, Stores(w)[l])
      BY <1>3, <2>1, StoredIs, StoresFit DEF Safe
    <2>3. l \notin {Length, Header} /\ (\A j \in Indices : l # Gd(j)) /\ \A c, e : l # At(c, e)
      BY <2>1, Locating
    <2>4. QED
      BY <2>2, <2>3, EntryIsQuiet DEF Safe
  <1>4. CASE pc[w] = "gdWrite"
    <2>1. PICK l, i : i = Here(w).gt /\ l = Gd(i)
      OBVIOUS
    <2>2. DOMAIN Stores(w) = {l} /\ Fits(l, Stores(w)[l])
      BY <1>4, <2>1, StoredIs, StoresFit DEF Safe
    <2>3. gd[i] = Unallocated
      BY <1>4, <2>1 DEF KnowsTable, Knows, GdPlaces
    <2>4. /\ l \notin {Length, Header} /\ (\A j \in Indices : gd[j] # Unallocated => l # Gd(j))
          /\ \A c, e : l # At(c, e)
      BY <2>1, <2>3, Locating
    <2>5. QED
      BY <2>2, <2>4, EntryIsQuiet DEF Safe
  <1>5. QED
    BY <1>2, <1>3, <1>4, AfterStoreIs DEF WordPlaces

LEMMA PayloadIsQuiet ==
    ASSUME Safe, TablesAgree, NEW w \in Writers, ValidGrain(my[w].new), DevWriteAll(Payload(w)),
           cursor' = cursor, tables' = tables, gd' = gd
    PROVE  Quiet
  <1>1. PICK c : c = my[w].new
    OBVIOUS
  <1>2. c \notin TableCells
    BY <1>1 DEF ValidGrain, Safe, Space
  <1>3. \A l \in DOMAIN Payload(w) : \E k : l = At(c, k)
    <2>1. PICK K : DOMAIN Payload(w) = {At(my[w].new, k) : k \in K}
      BY PayloadIs
    <2>2. QED
      BY <1>1, <2>1
  <1>4. QED
    BY <1>2, <1>3, WordsAreQuiet DEF Safe

-----------------------------------------------------------------------------
(* Lookups *)

LEMMA OneHolder ==
    ASSUME Typed, NEW w \in Writers, NEW q \in Writers, pc[w] \in HeldPlaces, pc[q] \in HeldPlaces
    PROVE  q = w
  BY DEF Typed, ThreadsOK, WriterOK

\* A lookup of a table the directory names leaves the slot coherent.
LEMMA LookupCoherent ==
    ASSUME Typed, CacheCoherent, UNCHANGED devVars, gd' = gd, StillDue, NEW i \in Indices, NEW c,
           c = gd[i], c # Unallocated, cache' = Lookup(i, c), TablesAgree
    PROVE  CacheCoherent'
  <1>1. CASE cache' = cache
    BY <1>1, SameIsQuiet, CacheSame
  <1>2. CASE cache' = Loaded(i, c)
    <2>1. /\ cache'.loaded[1] = i /\ cache'.loaded[2] = c
          /\ \A e \in Slots : cache'.entries[e] = disk'[At(c, e)]
      BY <1>2 DEF Loaded, TableAt, devVars
    <2>2. QED
      BY <2>1 DEF CacheCoherent
  <1>3. QED
    BY <1>1, <1>2 DEF Lookup

\* What the holder of the lock looks up is what the device holds, unless its own
\* refresh is due.
LEMMA LookupSees ==
    ASSUME Typed, CacheCoherent, NEW w \in Writers, pc[w] \in HeldPlaces, pc[w] # "refresh",
           NEW i \in Indices, NEW e \in Slots, NEW c, c = gd[i], c # Unallocated
    PROVE  Lookup(i, c).entries[e] = disk[At(c, e)]
  <1>1. CASE cache.loaded = <<i, c>>
    <2>1. cache # NoCache /\ cache.loaded[1] = i /\ cache.loaded[2] = c
      BY <1>1 DEF NoCache
    <2>2. \A q \in Writers : pc[q] # "refresh"
      BY OneHolder DEF HeldPlaces
    <2>3. QED
      BY <1>1, <2>1, <2>2 DEF CacheCoherent, Lookup
  <1>2. CASE cache.loaded # <<i, c>>
    BY <1>2 DEF Lookup, Loaded, TableAt
  <1>3. QED
    BY <1>1, <1>2

-----------------------------------------------------------------------------
(* The steps *)

\* The others know what they knew; what the mover knows is left to show.
LEMMA StepKnown ==
    ASSUME Typed, Coherent, Quiet, CacheCoherent', NEW w \in Writers, NEW to, Goto(w, to),
           \A q \in Writers \ {w} : my'[q] = my[q], KnowsTable(w)'
    PROVE  Coherent'
  <1>1. \A q \in Writers \ {w} : pc'[q] = pc[q]
    BY DEF Goto, Typed, ThreadsOK
  <1>2. \A q \in Writers : KnowsTable(q)'
    BY <1>1, OtherKnows DEF Coherent
  <1>3. TablesAgree'
    BY AgreeSame DEF Coherent
  <1>4. QED
    BY <1>2, <1>3 DEF Coherent

LEMMA MoveKnown ==
    ASSUME Typed, Coherent, Quiet, CacheCoherent', NEW w \in Writers, pc[w] # "idle", NEW to, Goto(w, to),
           NEW t, NEW n, NEW u, Becomes(w, my[w].at, my[w].end, t, n, u),
           Knows(to, t, n, u, Here(w).gt, Here(w).gte)
    PROVE  Coherent'
  <1>1. PICK i, e : i = Here(w).gt /\ e = Here(w).gte
    OBVIOUS
  <1>2. i \in Indices /\ e \in Slots
    BY <1>1, HolderIs
  <1>3. pc'[w] = to
    BY DEF Goto, Typed, ThreadsOK
  <1>4. /\ my'[w].at = my[w].at /\ my'[w].end = my[w].end /\ my'[w].table = t /\ my'[w].new = n
        /\ my'[w].purpose = u /\ \A q \in Writers \ {w} : my'[q] = my[q]
    BY DEF Becomes
  <1>5. Here(w).gt' = i /\ Here(w).gte' = e
    BY <1>1, <1>4, HereKept
  <1>6. Knows(to, t, n, u, i, e)'
    BY <1>1, <1>2, KnowsSame
  <1>7. KnowsTable(w)'
    BY <1>3, <1>4, <1>5, <1>6, KnowsBy
  <1>8. QED
    BY <1>4, <1>7, StepKnown

LEMMA EndKnown ==
    ASSUME Typed, Coherent, Quiet, CacheCoherent', NEW w \in Writers, NEW to \in {"idle", "gd"}, Goto(w, to),
           \A q \in Writers \ {w} : my'[q] = my[q]
    PROVE  Coherent'
  <1>1. PICK t, n, u, i, e : /\ my'[w].table = t /\ my'[w].new = n /\ my'[w].purpose = u
                             /\ Here(w).gt' = i /\ Here(w).gte' = e
    OBVIOUS
  <1>2. pc'[w] = to
    BY DEF Goto, Typed, ThreadsOK
  <1>3. Knows(to, t, n, u, i, e)'
    BY NothingKnown DEF FreePlaces
  <1>4. KnowsTable(w)'
    BY <1>1, <1>2, <1>3, KnowsBy
  <1>5. QED
    BY <1>4, StepKnown

\* Only the mover's place changes, so no other refresh is lost.
LEMMA DueStays ==
    ASSUME Typed, NEW w \in Writers, pc[w] # "refresh", NEW to, Goto(w, to),
           \A q \in Writers \ {w} : my'[q] = my[q]
    PROVE  StillDue
  BY DEF Goto, Typed, ThreadsOK, StillDue

\* The members of the sets of places, for the leaves that read them off.
LEMMA PlacesAre ==
    /\ \A p \in SeenPlaces : p \in UsePlaces
    /\ {"gt", "gt2", "invalidate", "redundant", "mergeWrite", "mergeFlush", "grainSpace", "grainZero",
        "grainData", "grainFlush", "entryRedundant", "entryFlush", "entryPrimary", "refresh"} = UsePlaces
    /\ {"redundant", "mergeWrite", "mergeFlush", "grainSpace", "grainZero",
        "grainData", "grainFlush", "entryRedundant", "entryFlush", "entryPrimary"} = SeenPlaces
    /\ {"tableSpace", "tableZero", "tableFlush", "seedCopy", "seedFlush", "rgdWrite", "rgdFlush"} = MakePlaces
    /\ GdPlaces = {"gdWrite", "gdFlush"}
    /\ FreePlaces = {"idle", "gd", "gt", "allocate", "through"}
    /\ HeldPlaces = {"invalidate", "gt2", "refresh"} \cup SeenPlaces \cup MakePlaces \cup GdPlaces
  BY DEF UsePlaces, SeenPlaces, MakePlaces, FreePlaces, HeldPlaces, TablePlaces, SeedPlaces, RgdPlaces,
     GdPlaces, FoundPlaces, GrainPlaces, EntryPlaces

LEMMA KnownLooks ==
    ASSUME Typed, Typed', Coherent, NEW w \in Writers,
           BackingTable(w) \/ BackingGrain(w) \/ Allocate(w) \/ LookAgain(w)
    PROVE  Coherent'
  <1> DEFINE i == Here(w).gt
             e == Here(w).gte
             m == my[w]
  <1>1. /\ pc[w] \in {"gd", "gt", "allocate", "gt2"} /\ gd' = gd /\ UNCHANGED devVars
        /\ ThreadsOK
    BY DEF BackingTable, BackingGrain, Allocate, LookAgain, memory, Typed
  <1>2. i \in Indices /\ e \in Slots
    BY <1>1, HolderIs
  <1>3. Quiet
    BY <1>1, SameIsQuiet DEF Coherent
  <1>4. Knows(pc[w], m.table, m.new, m.purpose, i, e)
    BY DEF Coherent, KnowsTable
  <1> HIDE DEF i, e
  <1>5. CASE BackingTable(w)
    <2>1. CASE gd[i] = Unallocated
      <3>1. Goto(w, "allocate") /\ cache' = cache /\ my' = [my EXCEPT ![w].table = gd[i]]
        BY <1>5, <2>1 DEF BackingTable, memory, i
      <3>2. Becomes(w, m.at, m.end, gd[i], m.new, m.purpose)
        BY <1>1, <3>1, MyIs
      <3>3. CacheCoherent'
        BY <1>1, <1>3, <3>1, <3>2, DueStays, CacheSame DEF Coherent, Becomes
      <3>4. Knows("allocate", gd[i], m.new, m.purpose, i, e)
        BY NothingKnown DEF FreePlaces
      <3>5. QED
        BY <1>1, <1>3, <3>1, <3>2, <3>3, <3>4, MoveKnown DEF i, e
    <2>2. CASE gd[i] # Unallocated
      <3>1. Goto(w, "gt") /\ cache' = cache /\ my' = [my EXCEPT ![w].table = gd[i]]
        BY <1>5, <2>2 DEF BackingTable, memory, i
      <3>2. Becomes(w, m.at, m.end, gd[i], m.new, m.purpose)
        BY <1>1, <3>1, MyIs
      <3>3. CacheCoherent'
        BY <1>1, <1>3, <3>1, <3>2, DueStays, CacheSame DEF Coherent, Becomes
      <3>4. Knows("gt", gd[i], m.new, m.purpose, i, e)
        BY <2>2, PlacesAre DEF Knows
      <3>5. QED
        BY <1>1, <1>3, <3>1, <3>2, <3>3, <3>4, MoveKnown DEF i, e
    <2>3. QED
      BY <2>1, <2>2
  <1>6. CASE BackingGrain(w) \/ LookAgain(w)
    <2>1. PICK c : c = m.table
      OBVIOUS
    <2>2. c = gd[i] /\ c # Unallocated
      BY <1>4, <1>6, <2>1, PlacesAre DEF BackingGrain, LookAgain, Knows
    <2>3. cache' = Lookup(i, c)
      BY <1>6, <2>1 DEF BackingGrain, LookAgain, i
    <2>4. PICK to, x : /\ Goto(w, to) /\ Becomes(w, m.at, m.end, c, x, m.purpose)
                       /\ to \notin {"allocate", "through"} =>
                             /\ LookAgain(w) /\ to \in {"redundant", "grainSpace"}
                             /\ ~NamesGrain(Lookup(i, c).entries[e])
      <3>1. my' = my \/ \E x : my' = [my EXCEPT ![w].new = x]
        BY <1>6 DEF BackingGrain, LookAgain
      <3>2. PICK x : Becomes(w, m.at, m.end, c, x, m.purpose)
        BY <1>1, <2>1, <3>1, MyIs
      <3>3. CASE BackingGrain(w)
        <4>1. PICK to \in {"allocate", "through"} : Goto(w, to)
          BY <3>3 DEF BackingGrain
        <4>2. QED
          BY <3>2, <4>1
      <3>4. CASE LookAgain(w)
        <4>1. PICK to \in {"through", "redundant", "grainSpace"} :
                 Goto(w, to) /\ (to # "through" => ~NamesGrain(Lookup(i, c).entries[e]))
          BY <2>1, <3>4 DEF LookAgain, i, e
        <4>2. QED
          BY <3>2, <3>4, <4>1
      <3>5. QED
        BY <1>6, <3>3, <3>4
    <2>5. CacheCoherent'
      <3>1. StillDue
        BY <1>1, <2>4, DueStays DEF Becomes
      <3>2. QED
        BY <1>1, <1>2, <2>2, <2>3, <3>1, LookupCoherent DEF Coherent
    <2>6. Knows(to, c, x, m.purpose, i, e)
      <3>1. CASE to \in {"allocate", "through"}
        BY <3>1, NothingKnown DEF FreePlaces
      <3>2. CASE to \notin {"allocate", "through"}
        <4>1. pc[w] = "gt2" /\ to \in {"redundant", "grainSpace"}
          BY <2>4, <3>2 DEF LookAgain
        <4>2. Lookup(i, c).entries[e] = disk[At(c, e)]
          BY <1>2, <2>2, <4>1, LookupSees, PlacesAre DEF Coherent
        <4>3. Vacant(i, e)
          BY <2>2, <2>4, <3>2, <4>2 DEF Vacant
        <4>4. QED
          BY <2>2, <4>1, <4>3, PlacesAre DEF Knows
      <3>3. QED
        BY <3>1, <3>2
    <2>7. QED
      BY <1>1, <1>3, <2>4, <2>5, <2>6, MoveKnown DEF i, e
  <1>7. CASE Allocate(w)
    <2>1. PICK to \in {"tableSpace", "gt2"} :
             /\ Goto(w, to) /\ cache' = cache
             /\ my' = [my EXCEPT ![w].table = gd[i], ![w].purpose = "primary"]
             /\ gd[i] = Unallocated <=> to = "tableSpace"
      BY <1>7 DEF Allocate, memory, i
    <2>2. Becomes(w, m.at, m.end, gd[i], m.new, "primary")
      BY <1>1, <2>1, MyIs
    <2>3. CacheCoherent'
      BY <1>1, <1>3, <2>1, <2>2, DueStays, CacheSame DEF Coherent, Becomes
    <2>4. Knows(to, gd[i], m.new, "primary", i, e)
      BY <2>1, PlacesAre DEF Knows
    <2>5. QED
      BY <1>1, <1>3, <2>1, <2>2, <2>3, <2>4, MoveKnown DEF i, e
  <1>8. QED
    BY <1>5, <1>6, <1>7

\* A step of the holder that changes neither the slot nor its chunk.
LEMMA HeldKnown ==
    ASSUME Typed, Coherent, Quiet, cache' = cache, NEW w \in Writers, pc[w] # "idle", pc[w] # "refresh",
           NEW to, Goto(w, to), NEW t, NEW n, NEW u, Becomes(w, my[w].at, my[w].end, t, n, u),
           Knows(to, t, n, u, Here(w).gt, Here(w).gte)
    PROVE  Coherent'
  <1>1. CacheCoherent'
    BY DueStays, CacheSame DEF Coherent, Becomes
  <1>2. QED
    BY <1>1, MoveKnown

LEMMA KnownInvalidate ==
    ASSUME Typed, Coherent, NEW w \in Writers, Invalidate(w)
    PROVE  Coherent'
  <1>1. /\ pc[w] = "invalidate" /\ Goto(w, "gt2") /\ my' = my /\ ThreadsOK
        /\ gd' = gd /\ UNCHANGED devVars /\ (cache' = cache \/ cache' = NoCache)
    BY DEF Invalidate, Typed
  <1>2. Quiet
    BY <1>1, SameIsQuiet DEF Coherent
  <1>3. PICK t, n, u, i, e : /\ t = my[w].table /\ n = my[w].new /\ u = my[w].purpose
                             /\ i = Here(w).gt /\ e = Here(w).gte
    OBVIOUS
  <1>4. Knows("gt2", t, n, u, i, e)
    <2>1. Knows("invalidate", t, n, u, i, e)
      BY <1>1, <1>3 DEF Coherent, KnowsTable
    <2>2. QED
      BY <2>1, PlacesAre DEF Knows
  <1>5. Becomes(w, my[w].at, my[w].end, t, n, u)
    BY <1>1, <1>3, MyIs
  <1>6. CacheCoherent'
    <2>1. CASE cache' = cache
      BY <1>1, <1>2, <2>1, DueStays, CacheSame DEF Coherent
    <2>2. CASE cache' = NoCache
      BY <2>2 DEF CacheCoherent, NoCache
    <2>3. QED
      BY <1>1, <2>1, <2>2
  <1>7. QED
    BY <1>1, <1>2, <1>3, <1>4, <1>5, <1>6, MoveKnown

LEMMA KnownRedundant ==
    ASSUME Typed, Coherent, NEW w \in Writers, Redundant(w)
    PROVE  Coherent'
  <1>1. pc[w] = "redundant" /\ ThreadsOK /\ gd' = gd /\ UNCHANGED devVars /\ cache' = cache
    BY DEF Redundant, Typed
  <1>2. Quiet
    BY <1>1, SameIsQuiet DEF Coherent
  <1>3. PICK t, n, u, i, e : /\ t = my[w].table /\ n = my[w].new /\ u = my[w].purpose
                             /\ i = Here(w).gt /\ e = Here(w).gte
    OBVIOUS
  <1>4. t = gd[i] /\ Vacant(i, e)
    <2>1. Knows("redundant", t, n, u, i, e)
      BY <1>1, <1>3 DEF Coherent, KnowsTable
    <2>2. QED
      BY <2>1, PlacesAre DEF Knows
  <1>5. \/ Goto(w, "tableSpace") /\ my' = [my EXCEPT ![w].purpose = "seed"]
        \/ (Goto(w, "mergeWrite") \/ Goto(w, "grainSpace")) /\ my' = my
    BY DEF Redundant
  <1>6. CASE Goto(w, "tableSpace") /\ my' = [my EXCEPT ![w].purpose = "seed"]
    <2>1. Becomes(w, my[w].at, my[w].end, t, n, "seed")
      BY <1>1, <1>3, <1>6, MyIs
    <2>2. Knows("tableSpace", t, n, "seed", i, e)
      BY <1>4, PlacesAre DEF Knows
    <2>3. QED
      BY <1>1, <1>2, <1>3, <1>6, <2>1, <2>2, HeldKnown
  <1>7. CASE (Goto(w, "mergeWrite") \/ Goto(w, "grainSpace")) /\ my' = my
    <2>1. PICK to \in {"mergeWrite", "grainSpace"} : Goto(w, to)
      BY <1>7
    <2>2. Becomes(w, my[w].at, my[w].end, t, n, u)
      BY <1>1, <1>3, <1>7, MyIs
    <2>3. Knows(to, t, n, u, i, e)
      BY <1>4, PlacesAre DEF Knows, Vacant
    <2>4. QED
      BY <1>1, <1>2, <1>3, <2>1, <2>2, <2>3, HeldKnown
  <1>8. QED
    BY <1>5, <1>6, <1>7

LEMMA KnownSpace ==
    ASSUME Typed, Coherent, NEW w \in Writers, TableSpace(w) \/ GrainSpace(w)
    PROVE  Coherent'
  <1>1. PICK to, x : /\ \/ pc[w] = "tableSpace" /\ to = "tableZero"
                        \/ pc[w] = "grainSpace" /\ to \in {"grainZero", "grainData"}
                     /\ Goto(w, to) /\ my' = [my EXCEPT ![w].new = x]
    BY DEF TableSpace, GrainSpace, TakeCell
  <1>2. ThreadsOK /\ gd' = gd /\ cache' = cache /\ cursor <= MaxCell /\ DevWrite(Length, cursor)
    BY DEF TableSpace, GrainSpace, TakeCell, Typed
  <1>3. Quiet
    BY <1>2, LengthIsQuiet DEF Coherent
  <1>4. PICK t, n, u, i, e : /\ t = my[w].table /\ n = my[w].new /\ u = my[w].purpose
                             /\ i = Here(w).gt /\ e = Here(w).gte
    OBVIOUS
  <1>5. Becomes(w, my[w].at, my[w].end, t, x, u)
    BY <1>1, <1>2, <1>4, MyIs
  <1>6. Knows(to, t, x, u, i, e)
    <2>1. Knows(pc[w], t, n, u, i, e)
      BY <1>4 DEF Coherent, KnowsTable
    <2>2. QED
      BY <1>1, <2>1, PlacesAre DEF Knows
  <1>7. QED
    BY <1>1, <1>2, <1>3, <1>4, <1>5, <1>6, HeldKnown

LEMMA KnownTableFlush ==
    ASSUME Typed, Coherent, NEW w \in Writers, TableFlush(w)
    PROVE  Coherent'
  <1>1. pc[w] = "tableFlush" /\ ThreadsOK /\ DevFlush /\ gd' = gd /\ cache' = cache /\ Goto(w, AfterBlank(w))
    BY DEF TableFlush, memory, Typed
  <1>2. Quiet
    BY <1>1, FlushIsQuiet DEF Coherent
  <1>3. PICK t, n, u, i, e : /\ t = my[w].table /\ n = my[w].new /\ u = my[w].purpose
                             /\ i = Here(w).gt /\ e = Here(w).gte
    OBVIOUS
  <1>4. Knows("tableFlush", t, n, u, i, e) /\ u \in {"primary", "twin", "seed"}
    BY <1>1, <1>3 DEF Coherent, KnowsTable, ThreadsOK, WriterOK, TablePlaces
  <1>5. CASE u = "primary"
    <2>1. PICK to, v : /\ to = "tableSpace" \/ to = "gdWrite"
                       /\ v = "twin" \/ v = "primary"
                       /\ Goto(w, to) /\ my' = [my EXCEPT ![w].table = n, ![w].purpose = v]
      BY <1>1, <1>3, <1>5 DEF TableFlush, AfterBlank
    <2>2. Becomes(w, my[w].at, my[w].end, n, n, v)
      BY <1>1, <1>3, <2>1, MyIs
    <2>3. Knows(to, n, n, v, i, e)
      BY <1>4, <1>5, <2>1, PlacesAre DEF Knows
    <2>4. QED
      BY <1>1, <1>2, <1>3, <2>1, <2>2, <2>3, HeldKnown
  <1>6. CASE u # "primary"
    <2>1. PICK to \in {"rgdWrite", "seedCopy"} : Goto(w, to) /\ my' = my /\ (to = "seedCopy" => u = "seed")
      BY <1>1, <1>3, <1>4, <1>6 DEF TableFlush, AfterBlank
    <2>2. Becomes(w, my[w].at, my[w].end, t, n, u)
      BY <1>1, <1>3, <2>1, MyIs
    <2>3. Knows(to, t, n, u, i, e)
      BY <1>4, <2>1, PlacesAre DEF Knows
    <2>4. QED
      BY <1>1, <1>2, <1>3, <2>1, <2>2, <2>3, HeldKnown
  <1>7. QED
    BY <1>5, <1>6

LEMMA KnownFlushed ==
    ASSUME Typed, Coherent, NEW w \in Writers, RgdFlush(w) \/ MergeFlush(w) \/ Flushed(w)
    PROVE  Coherent'
  <1>1. /\ ThreadsOK /\ DevFlush /\ gd' = gd /\ cache' = cache /\ my' = my
        /\ pc[w] \in {"rgdFlush", "mergeFlush"} \cup DOMAIN AfterFlush
    BY DEF RgdFlush, MergeFlush, Flushed, memory, Typed
  <1>2. Quiet
    BY <1>1, FlushIsQuiet DEF Coherent
  <1>3. PICK t, n, u, i, e : /\ t = my[w].table /\ n = my[w].new /\ u = my[w].purpose
                             /\ i = Here(w).gt /\ e = Here(w).gte
    OBVIOUS
  <1>4. Knows(pc[w], t, n, u, i, e) /\ WriterOK(w)
    BY <1>1, <1>3 DEF Coherent, KnowsTable, ThreadsOK
  <1>5. PICK to : Goto(w, to) /\ Knows(to, t, n, u, i, e)
    <2>1. CASE RgdFlush(w)
      <3>1. pc[w] = "rgdFlush" /\ u \in {"twin", "seed"}
        BY <1>3, <1>4, <2>1 DEF RgdFlush, WriterOK, RgdPlaces
      <3>2. CASE u = "twin"
        <4>1. Goto(w, "gdWrite")
          BY <1>3, <2>1, <3>2 DEF RgdFlush
        <4>2. Knows("gdWrite", t, n, u, i, e)
          BY <1>4, <3>1, <3>2, PlacesAre DEF Knows
        <4>3. QED
          BY <4>1, <4>2
      <3>3. CASE u = "seed"
        <4>1. Goto(w, "grainSpace")
          BY <1>3, <2>1, <3>3 DEF RgdFlush
        <4>2. Knows("grainSpace", t, n, u, i, e)
          BY <1>4, <3>1, <3>3, PlacesAre DEF Knows, Vacant
        <4>3. QED
          BY <4>1, <4>2
      <3>4. QED
        BY <3>1, <3>2, <3>3
    <2>2. CASE MergeFlush(w)
      <3>1. pc[w] = "mergeFlush" /\ Goto(w, "grainSpace")
        BY <2>2 DEF MergeFlush
      <3>2. Knows("grainSpace", t, n, u, i, e)
        BY <1>4, <3>1, PlacesAre DEF Knows
      <3>3. QED
        BY <3>1, <3>2
    <2>3. CASE Flushed(w)
      <3>1. pc[w] \in {"seedFlush", "grainFlush", "entryFlush"} /\ Goto(w, AfterFlush[pc[w]])
        BY <2>3, AfterFlushIs DEF Flushed
      <3>2. CASE pc[w] = "seedFlush"
        <4>1. Knows("rgdWrite", t, n, u, i, e)
          BY <1>4, <3>2, PlacesAre DEF Knows
        <4>2. QED
          BY <3>1, <3>2, <4>1, AfterFlushIs
      <3>3. CASE pc[w] \in {"grainFlush", "entryFlush"}
        <4>1. PICK to \in {"entryRedundant", "entryPrimary"} : Goto(w, to)
          BY <3>1, <3>3, AfterFlushIs
        <4>2. Knows(to, t, n, u, i, e)
          BY <1>4, <3>3, PlacesAre DEF Knows
        <4>3. QED
          BY <4>1, <4>2
      <3>4. QED
        BY <3>1, <3>2, <3>3
    <2>4. QED
      BY <2>1, <2>2, <2>3
  <1>6. Becomes(w, my[w].at, my[w].end, t, n, u)
    BY <1>1, <1>3, MyIs
  <1>7. pc[w] # "idle" /\ pc[w] # "refresh"
    BY <1>1, AfterFlushIs
  <1>8. QED
    BY <1>1, <1>2, <1>3, <1>5, <1>6, <1>7, HeldKnown

LEMMA TableIsOfOne ==
    ASSUME Safe, TablesAgree, NEW i \in Indices, NEW j \in Indices, gd[i] # Unallocated, gd[i] = gd[j]
    PROVE  i = j
  <1>1. PICK c : c = gd[i]
    OBVIOUS
  <1>2. c \in Cells /\ NamesGrain(c) /\ disk[Gd(i)] = c /\ disk[Gd(j)] = c
    BY <1>1, TablesAre, CellsAre DEF Safe
  <1>3. /\ c \in media[Gd(i)] /\ c \in media[Gd(j)]
        /\ Gd(i) \in PointerPlaces /\ Gd(j) \in PointerPlaces
    BY <1>2, Locating DEF Safe, Typed, DeviceOK, PointerPlaces
  <1>4. Gd(i) = Gd(j)
    BY <1>2, <1>3 DEF Safe, Space
  <1>5. QED
    BY <1>4, Locating

\* While w holds the lock, of the others only what a "gt" knows matters.
LEMMA OthersAtGt ==
    ASSUME Typed, Coherent, NEW w \in Writers, pc[w] \in HeldPlaces, NEW q \in Writers \ {w},
           pc'[q] = pc[q], my'[q] = my[q],
           \A i \in Indices : gd[i] # Unallocated => gd'[i] = gd[i]
    PROVE  KnowsTable(q)'
  <1>1. PICK p, t, n, u, i, e : /\ p = pc[q] /\ t = my[q].table /\ n = my[q].new /\ u = my[q].purpose
                                /\ i = Here(q).gt /\ e = Here(q).gte
    OBVIOUS
  <1>2. /\ pc'[q] = p /\ my'[q].table = t /\ my'[q].new = n /\ my'[q].purpose = u
        /\ Here(q).gt' = i /\ Here(q).gte' = e
    BY <1>1, HereKept
  <1>3. p \in FreePlaces
    BY <1>1, OneHolder DEF Typed, ThreadsOK, Places
  <1>4. Knows(p, t, n, u, i, e)'
    <2>1. CASE p = "gt"
      <3>1. t = gd[i] /\ gd[i] # Unallocated /\ i \in Indices
        BY <1>1, <2>1, HolderIs, PlacesAre DEF Coherent, KnowsTable, Knows
      <3>2. QED
        BY <2>1, <3>1, PlacesAre DEF Knows
    <2>2. CASE p # "gt"
      BY <1>3, <2>2, NothingKnown
    <2>3. QED
      BY <2>1, <2>2
  <1>5. QED
    BY <1>2, <1>4, KnowsBy

LEMMA KnownGdFlush ==
    ASSUME Safe, Typed', Coherent, NEW w \in Writers, GdFlush(w)
    PROVE  Coherent'
  <1>1. PICK t, n, u, i, e : /\ t = my[w].table /\ n = my[w].new /\ u = my[w].purpose
                             /\ i = Here(w).gt /\ e = Here(w).gte
    OBVIOUS
  <1>2. /\ pc[w] = "gdFlush" /\ DevFlush /\ gd' = [gd EXCEPT ![i] = t] /\ cache' = cache /\ my' = my
        /\ Goto(w, "invalidate")
    BY <1>1 DEF GdFlush
  <1>3. /\ disk[Gd(i)] = t /\ t \in Cells /\ t # Unallocated /\ gd[i] = Unallocated
        /\ i \in Indices /\ pc[w] \in HeldPlaces
    <2>1. WriterOK(w) /\ i \in Indices
      BY <1>1, <1>2, HolderIs DEF Safe
    <2>2. t \in Cells
      BY <1>1, <1>2, <2>1 DEF WriterOK, HasTwin, GdPlaces
    <2>3. disk[Gd(i)] = t
      BY <1>1, <1>2 DEF Safe, Owns, Claims
    <2>4. gd[i] = Unallocated
      BY <1>1, <1>2 DEF Coherent, KnowsTable, Knows, GdPlaces
    <2>5. QED
      BY <1>2, <2>1, <2>2, <2>3, <2>4, CellsAre, PlacesAre
  <1>4. /\ gd'[i] = t /\ \A j \in Indices \ {i} : gd'[j] = gd[j]
        /\ disk' = disk
    BY <1>2, <1>3, FlushIs DEF Safe, Typed, MemoryOK
  <1>5. pc'[w] = "invalidate" /\ \A q \in Writers \ {w} : pc'[q] = pc[q] /\ my'[q] = my[q]
    BY <1>2 DEF Goto, Safe, Typed, ThreadsOK
  <1>6. TablesAgree'
    BY <1>3, <1>4 DEF TablesAgree, Coherent
  <1>7. CacheCoherent'
    <2>1. SUFFICES ASSUME cache # NoCache PROVE CacheCoherent'
      BY <1>2 DEF CacheCoherent, NoCache
    <2>2. PICK j, c : j = cache.loaded[1] /\ c = cache.loaded[2]
      OBVIOUS
    <2>3. j \in Indices /\ c = gd[j] /\ c # Unallocated
      BY <2>1, <2>2, CellsAre DEF Safe, Typed, MemoryOK, CacheTyped, Coherent, CacheCoherent
    <2>4. c = gd'[j]
      BY <1>3, <1>4, <2>3
    <2>5. ASSUME NEW f \in Slots
          PROVE  \/ cache.entries[f] = disk'[At(c, f)]
                 \/ \E q \in Writers : /\ pc'[q] = "refresh" /\ <<Here(q).gt', Here(q).gte'>> = <<j, f>>
                                       /\ my'[q].new = disk'[At(c, f)]
      <3>1. \A q \in Writers : pc[q] # "refresh"
        BY <1>2, <1>3, OneHolder, PlacesAre DEF Safe
      <3>2. QED
        BY <1>4, <2>1, <2>2, <3>1 DEF Coherent, CacheCoherent
    <2>6. QED
      BY <1>2, <2>2, <2>4, <2>5 DEF CacheCoherent
  <1>8. KnowsTable(w)'
    <2>1. Knows("invalidate", t, n, u, i, e)'
      BY <1>3, <1>4, PlacesAre DEF Knows
    <2>2. Here(w).gt' = i /\ Here(w).gte' = e
      BY <1>1, <1>2, HereKept
    <2>3. QED
      BY <1>1, <1>2, <1>5, <2>1, <2>2, KnowsBy
  <1>9. \A q \in Writers \ {w} : KnowsTable(q)'
    BY <1>3, <1>4, <1>5, OthersAtGt DEF Safe
  <1>10. QED
    BY <1>6, <1>7, <1>8, <1>9 DEF Coherent

\* update_gt_entry's write of the primary entry, which had named no grain.
EntryWritten(w) ==
    /\ disk'[Header] = disk[Header] /\ ~NamesGrain(disk[At(gd[Here(w).gt], Here(w).gte)])
    /\ gd[Here(w).gt] # Unallocated /\ disk'[At(gd[Here(w).gt], Here(w).gte)] = my[w].new
    /\ \A l \in Locs : l # At(gd[Here(w).gt], Here(w).gte) => disk'[l] = disk[l]

LEMMA EntryIsWritten ==
    ASSUME Safe, Coherent, NEW w \in Writers, pc[w] = "entryPrimary", DevWriteAll(Stores(w))
    PROVE  EntryWritten(w)
  <1>1. PICK t, n, i, e : /\ t = my[w].table /\ n = my[w].new /\ i = Here(w).gt /\ e = Here(w).gte
    OBVIOUS
  <1>2. i \in Indices /\ e \in Slots /\ t = gd[i] /\ Vacant(i, e)
    BY <1>1, HolderIs, PlacesAre DEF Safe, Coherent, KnowsTable, Knows
  <1>3. PICK l : l = At(t, e)
    OBVIOUS
  <1>4. DOMAIN Stores(w) = {l} /\ Stores(w)[l] = n
    BY <1>1, <1>3, StoredIs
  <1>5. Header \notin DOMAIN Stores(w) /\ \A m \in DOMAIN Stores(w) : Fits(m, Stores(w)[m])
    BY StoresFit, AfterStoreIs DEF Safe
  <1>6. t \in Cells /\ l \in Locs
    BY <1>2, <1>3, TablesAre, Locating DEF Safe, Coherent, Vacant
  <1>7. /\ disk'[Header] = disk[Header] /\ disk'[l] = n
        /\ \A m \in Locs : m # l => disk'[m] = disk[m]
    BY <1>4, <1>5, <1>6, WriteIs DEF Safe, Typed
  <1>8. QED
    BY <1>1, <1>2, <1>3, <1>7 DEF EntryWritten, Vacant

LEMMA KnownEntry ==
    ASSUME Safe, Typed', Coherent, NEW w \in Writers, pc[w] = "entryPrimary", Store(w)
    PROVE  Coherent'
  <1>1. PICK t, n, u, i, e : /\ t = my[w].table /\ n = my[w].new /\ u = my[w].purpose
                             /\ i = Here(w).gt /\ e = Here(w).gte
    OBVIOUS
  <1>2. /\ DevWriteAll(Stores(w)) /\ gd' = gd /\ cache' = cache /\ my' = my /\ Goto(w, "refresh")
        /\ pc[w] \in HeldPlaces
    BY AfterStoreIs, PlacesAre DEF Store, memory
  <1>3. i \in Indices /\ e \in Slots /\ t = gd[i] /\ t # Unallocated /\ t \in Cells
    BY <1>1, HolderIs, PlacesAre, TablesAre DEF Safe, Coherent, KnowsTable, Knows
  <1>4. disk'[At(t, e)] = n /\ \A l \in Locs : l # At(t, e) => disk'[l] = disk[l]
    BY <1>1, <1>2, <1>3, EntryIsWritten DEF EntryWritten
  <1>5. pc'[w] = "refresh" /\ \A q \in Writers \ {w} : pc'[q] = pc[q] /\ my'[q] = my[q]
    BY <1>2 DEF Goto, Safe, Typed, ThreadsOK
  <1>6. TablesAgree'
    BY <1>2, <1>4, Locating DEF TablesAgree, Coherent
  <1>7. Here(w).gt' = i /\ Here(w).gte' = e
    BY <1>1, <1>2, HereKept
  <1>8. CacheCoherent'
    <2>1. SUFFICES ASSUME cache # NoCache PROVE CacheCoherent'
      BY <1>2 DEF CacheCoherent, NoCache
    <2>2. PICK j, c : j = cache.loaded[1] /\ c = cache.loaded[2]
      OBVIOUS
    <2>3. j \in Indices /\ c = gd[j] /\ c # Unallocated /\ c \in Cells
      BY <2>1, <2>2, CellsAre DEF Safe, Typed, MemoryOK, CacheTyped, Coherent, CacheCoherent
    <2>4. ASSUME NEW f \in Slots
          PROVE  \/ cache.entries[f] = disk'[At(c, f)]
                 \/ \E q \in Writers : /\ pc'[q] = "refresh" /\ <<Here(q).gt', Here(q).gte'>> = <<j, f>>
                                       /\ my'[q].new = disk'[At(c, f)]
      <3>1. \A q \in Writers : pc[q] # "refresh"
        BY <1>2, OneHolder, PlacesAre DEF Safe
      <3>2. cache.entries[f] = disk[At(c, f)]
        BY <2>1, <2>2, <3>1 DEF Coherent, CacheCoherent
      <3>3. CASE At(c, f) = At(t, e)
        <4>1. c = t /\ f = e
          BY <3>3, Locating
        <4>2. j = i
          BY <1>3, <2>3, <4>1, TableIsOfOne DEF Coherent
        <4>3. QED
          BY <1>1, <1>2, <1>4, <1>5, <1>7, <4>1, <4>2
      <3>4. CASE At(c, f) # At(t, e)
        BY <1>4, <2>3, <3>2, <3>4, Locating
      <3>5. QED
        BY <3>3, <3>4
    <2>5. QED
      BY <1>2, <2>2, <2>3, <2>4 DEF CacheCoherent
  <1>9. KnowsTable(w)'
    <2>1. Knows("refresh", t, n, u, i, e)'
      BY <1>2, <1>3, <1>4, PlacesAre DEF Knows
    <2>2. QED
      BY <1>1, <1>2, <1>5, <1>7, <2>1, KnowsBy
  <1>10. \A q \in Writers \ {w} : KnowsTable(q)'
    BY <1>2, <1>5, OthersAtGt DEF Safe
  <1>11. QED
    BY <1>6, <1>8, <1>9, <1>10 DEF Coherent

LEMMA KnownStore ==
    ASSUME Safe, Coherent, NEW w \in Writers, pc[w] # "entryPrimary", Store(w)
    PROVE  Coherent'
  <1>1. /\ pc[w] \in DOMAIN AfterStore /\ DevWriteAll(Stores(w)) /\ gd' = gd /\ cache' = cache /\ my' = my
        /\ cursor' = cursor /\ tables' = tables /\ Goto(w, AfterStore[pc[w]])
    BY DEF Store, memory
  <1>2. Quiet
    BY <1>1, StoreIsQuiet DEF Coherent
  <1>3. PICK p, t, n, u, i, e : /\ p = pc[w] /\ t = my[w].table /\ n = my[w].new /\ u = my[w].purpose
                                /\ i = Here(w).gt /\ e = Here(w).gte
    OBVIOUS
  <1>4. Knows(p, t, n, u, i, e)
    BY <1>3 DEF Coherent, KnowsTable
  <1>5. Knows(AfterStore[p], t, n, u, i, e)
    <2>1. CASE p = "tableZero"
      BY <1>4, <2>1, AfterStoreIs, PlacesAre DEF Knows
    <2>2. CASE p = "seedCopy"
      BY <1>4, <2>2, AfterStoreIs, PlacesAre DEF Knows
    <2>3. CASE p = "rgdWrite"
      BY <1>4, <2>3, AfterStoreIs, PlacesAre DEF Knows
    <2>4. CASE p = "gdWrite"
      BY <1>4, <2>4, AfterStoreIs, PlacesAre DEF Knows
    <2>5. CASE p \in {"mergeWrite", "grainZero", "grainData", "entryRedundant"}
      <3>1. t = gd[i] /\ gd[i] # Unallocated /\ Vacant(i, e)
        BY <1>4, <2>5, PlacesAre DEF Knows
      <3>2. AfterStore[p] \in {"mergeFlush", "grainData", "grainFlush", "entryFlush"}
        BY <2>5, AfterStoreIs
      <3>3. QED
        BY <3>1, <3>2, PlacesAre DEF Knows
    <2>6. QED
      BY <1>1, <1>3, <2>1, <2>2, <2>3, <2>4, <2>5, AfterStoreIs
  <1>6. ThreadsOK /\ pc[w] # "idle" /\ pc[w] # "refresh"
    BY <1>1, AfterStoreIs DEF Safe, Typed
  <1>7. Becomes(w, my[w].at, my[w].end, t, n, u)
    BY <1>1, <1>3, <1>6, MyIs
  <1>8. QED
    BY <1>1, <1>2, <1>3, <1>5, <1>6, <1>7, HeldKnown DEF Safe

\* After the refresh the slot holds what was written.
LEMMA Refreshed ==
    ASSUME Safe, Coherent, NEW w \in Writers, Refresh(w)
    PROVE  CacheCoherent'
  <1>1. PICK t, n, i, e : t = my[w].table /\ n = my[w].new /\ i = Here(w).gt /\ e = Here(w).gte
    OBVIOUS
  <1>2. /\ pc[w] = "refresh" /\ disk' = disk /\ gd' = gd /\ pc[w] \in HeldPlaces
        /\ cache' = IF cache.loaded = <<i, t>> THEN [cache EXCEPT !.entries[e] = n] ELSE cache
    BY <1>1, PlacesAre DEF Refresh, devVars
  <1>3. i \in Indices /\ e \in Slots /\ t = gd[i] /\ disk[At(t, e)] = n
    BY <1>1, <1>2, HolderIs, PlacesAre DEF Safe, Coherent, KnowsTable, Knows
  <1>4. SUFFICES ASSUME cache # NoCache PROVE CacheCoherent'
    <2>1. cache = NoCache => cache' = NoCache
      BY <1>2, NoPair DEF NoCache
    <2>2. QED
      BY <1>4, <2>1 DEF CacheCoherent
  <1>5. PICK j, c : j = cache.loaded[1] /\ c = cache.loaded[2]
    OBVIOUS
  <1>6. /\ cache = [loaded |-> cache.loaded, entries |-> cache.entries] /\ cache.loaded = <<j, c>>
        /\ cache.entries = [f \in Slots |-> cache.entries[f]] /\ c = gd[j]
    BY <1>4, <1>5 DEF Safe, Typed, MemoryOK, CacheTyped, Coherent, CacheCoherent
  <1>7. ASSUME NEW f \in Slots PROVE cache.entries[f] = disk[At(c, f)] \/ (j = i /\ f = e)
    <2>1. CASE cache.entries[f] = disk[At(c, f)]
      BY <2>1
    <2>2. CASE \E q \in Writers : /\ pc[q] = "refresh" /\ <<Here(q).gt, Here(q).gte>> = <<j, f>>
                                  /\ my[q].new = disk[At(c, f)]
      <3>1. PICK q \in Writers : pc[q] = "refresh" /\ <<Here(q).gt, Here(q).gte>> = <<j, f>>
        BY <2>2
      <3>2. q = w
        BY <1>2, <3>1, OneHolder DEF Safe
      <3>3. QED
        BY <1>1, <3>1, <3>2
    <2>3. QED
      BY <1>4, <1>5, <2>1, <2>2 DEF Coherent, CacheCoherent
  <1>8. CASE j = i
    <2>1. cache.loaded = <<i, t>> /\ c = t
      BY <1>3, <1>6, <1>8
    <2>2. cache' = [cache EXCEPT !.entries[e] = n]
      BY <1>2, <2>1
    <2>3. /\ cache'.loaded = <<j, c>>
          /\ \A f \in Slots : cache'.entries[f] = IF f = e THEN n ELSE cache.entries[f]
      BY <1>3, <1>6, <2>2
    <2>4. \A f \in Slots : cache'.entries[f] = disk'[At(c, f)]
      BY <1>2, <1>3, <1>7, <2>1, <2>3
    <2>5. QED
      BY <1>2, <1>6, <2>3, <2>4 DEF CacheCoherent
  <1>9. CASE j # i
    <2>1. cache' = cache
      BY <1>2, <1>6, <1>9
    <2>2. \A f \in Slots : cache.entries[f] = disk[At(c, f)]
      BY <1>7, <1>9
    <2>3. QED
      BY <1>2, <1>5, <1>6, <2>1, <2>2 DEF CacheCoherent
  <1>10. QED
    BY <1>8, <1>9

LEMMA EndIsQuiet ==
    ASSUME Safe, TablesAgree, NEW w \in Writers, Through(w) \/ Refresh(w)
    PROVE  Quiet
  <1>1. gd' = gd /\ cursor' = cursor /\ tables' = tables
    BY DEF Through, Refresh, memory
  <1>2. QED
    BY <1>1, PayloadIsQuiet, SameIsQuiet DEF Through, Refresh

LEMMA KnownEnd ==
    ASSUME Safe, Coherent, NEW w \in Writers, Through(w) \/ Refresh(w)
    PROVE  Coherent'
  <1>1. ChunkDone(w)
    BY DEF Through, Refresh
  <1>2. Quiet
    BY EndIsQuiet DEF Coherent
  <1>3. PICK to \in {"idle", "gd"} : Goto(w, to)
    BY <1>1 DEF ChunkDone
  <1>4. \A q \in Writers \ {w} : my'[q] = my[q]
    BY <1>1 DEF ChunkDone, Safe, Typed, ThreadsOK
  <1>5. CacheCoherent'
    <2>1. CASE Through(w)
      <3>1. pc[w] # "refresh" /\ cache' = cache
        BY <2>1 DEF Through, memory
      <3>2. QED
        BY <1>2, <1>3, <1>4, <3>1, DueStays, CacheSame DEF Safe, Coherent
    <2>2. CASE Refresh(w)
      BY <2>2, Refreshed
    <2>3. QED
      BY <2>1, <2>2
  <1>6. QED
    BY <1>2, <1>3, <1>4, <1>5, EndKnown DEF Safe

-----------------------------------------------------------------------------
(* Errors, calls, the other callers and crashes *)

LEMMA FailIsQuiet ==
    ASSUME Safe, Coherent, EntryIsReliable, NEW w \in Writers, Refused(w) \/ WriteFails(w) \/ FlushFails(w)
    PROVE  Quiet /\ pc[w] # "refresh" /\ cache' = cache
  <1>1. gd' = gd /\ cursor' = cursor /\ tables' = tables /\ cache' = cache
    BY DEF Refused, WriteFails, FlushFails, memory
  <1>2. ASSUME UNCHANGED devVars PROVE Quiet
    BY <1>1, <1>2, SameIsQuiet DEF Coherent
  <1>3. ASSUME WriteFails(w), ~UNCHANGED devVars PROVE Quiet
    <2>1. pc[w] \in DirtyAt /\ pc[w] # "entryPrimary"
      BY <1>3 DEF WriteFails, EntryIsReliable
    <2>2. CASE pc[w] \in DOMAIN AfterStore
      <3>1. DevWriteAll(Stores(w))
        BY <1>3, <2>2, AfterStoreIs DEF WriteFails
      <3>2. TablesAgree /\ KnowsTable(w)
        BY DEF Coherent
      <3>3. QED
        BY <1>1, <2>1, <2>2, <3>1, <3>2, StoreIsQuiet
    <2>3. CASE pc[w] = "through"
      <3>1. ValidGrain(my[w].new) /\ DevWriteAll(Payload(w))
        BY <1>3, <2>3, AfterStoreIs DEF WriteFails
      <3>2. QED
        BY <1>1, <3>1, PayloadIsQuiet DEF Coherent
    <2>4. CASE pc[w] \in {"tableSpace", "grainSpace"}
      <3>1. cursor <= MaxCell /\ DevWrite(Length, cursor)
        BY <1>3, <2>4, AfterStoreIs DEF WriteFails
      <3>2. QED
        BY <1>1, <3>1, LengthIsQuiet DEF Safe, Coherent
    <2>5. QED
      BY <1>3, <2>2, <2>3, <2>4 DEF WriteFails
  <1>4. Quiet
    BY <1>2, <1>3 DEF Refused, FlushFails, DevFlushFails
  <1>5. pc[w] # "refresh"
    BY AfterStoreIs, AfterFlushIs DEF Refused, WriteFails, FlushFails
  <1>6. QED
    BY <1>1, <1>4, <1>5

LEMMA KnownFail ==
    ASSUME Safe, Coherent, EntryIsReliable, NEW w \in Writers, Refused(w) \/ WriteFails(w) \/ FlushFails(w)
    PROVE  Coherent'
  <1>1. Goto(w, "idle") /\ \A q \in Writers \ {w} : my'[q] = my[q]
    BY DEF Refused, WriteFails, FlushFails, Fail, Safe, Typed, ThreadsOK
  <1>2. Quiet /\ pc[w] # "refresh" /\ cache' = cache
    BY FailIsQuiet
  <1>3. CacheCoherent'
    BY <1>1, <1>2, DueStays, CacheSame DEF Safe, Coherent
  <1>4. QED
    BY <1>1, <1>2, <1>3, EndKnown DEF Safe

LEMMA KnownCall ==
    ASSUME Safe, Coherent, NEW w \in Writers, CallWrite(w)
    PROVE  Coherent' /\ Quiet
  <1>1. /\ pc[w] = "idle" /\ Goto(w, "gd") /\ cache' = cache /\ gd' = gd /\ UNCHANGED devVars
        /\ \A q \in Writers \ {w} : my'[q] = my[q]
    BY DEF CallWrite, memory, Safe, Typed, ThreadsOK
  <1>2. Quiet
    BY <1>1, SameIsQuiet DEF Coherent
  <1>3. CacheCoherent'
    BY <1>1, <1>2, DueStays, CacheSame DEF Safe, Coherent
  <1>4. QED
    BY <1>1, <1>2, <1>3, EndKnown DEF Safe

LEMMA KnownQuietly ==
    ASSUME Safe, Coherent, (\E i \in Indices : ReaderLoads(i)) \/ Flush \/ UNCHANGED vars
    PROVE  Coherent' /\ Quiet
  <1>1. pc' = pc /\ my' = my /\ gd' = gd
    BY DEF ReaderLoads, Flush, vars, memory
  <1>2. Quiet
    <2>1. CASE UNCHANGED devVars
      BY <1>1, <2>1, SameIsQuiet DEF Coherent
    <2>2. CASE DevFlush
      BY <1>1, <2>2, FlushIsQuiet DEF Safe, Coherent
    <2>3. QED
      BY <2>1, <2>2 DEF ReaderLoads, Flush, vars, devVars
  <1>3. StillDue
    BY <1>1 DEF StillDue
  <1>4. CacheCoherent'
    <2>1. CASE \E i \in Indices : ReaderLoads(i)
      <3>1. PICK i \in Indices : ReaderLoads(i)
        BY <2>1
      <3> PICK c : c = gd[i]
        OBVIOUS
      <3>2. InFile(c) /\ cache' = Lookup(i, c) /\ UNCHANGED devVars
        BY <3>1 DEF ReaderLoads
      <3>3. c # Unallocated
        BY <3>2, InFileTyped DEF Safe, Typed
      <3>4. QED
        BY <1>1, <1>3, <3>1, <3>2, <3>3, LookupCoherent DEF Safe, Coherent
    <2>2. CASE Flush \/ UNCHANGED vars
      <3>1. cache' = cache
        BY <2>2 DEF Flush, vars, memory
      <3>2. QED
        BY <1>2, <1>3, <3>1, CacheSame DEF Safe, Coherent
    <2>3. QED
      BY <2>1, <2>2
  <1>5. \A q \in Writers : KnowsTable(q)'
    BY <1>1, <1>2, OtherKnows DEF Safe, Coherent
  <1>6. QED
    BY <1>2, <1>4, <1>5, AgreeSame DEF Coherent

\* All threads idle, no table cached, the directory as the device has it.
LEMMA StartKnown ==
    ASSUME cache = NoCache, \A i \in Indices : gd[i] = disk[Gd(i)], \A w \in Writers : pc[w] = "idle"
    PROVE  Coherent
  <1>1. ASSUME NEW w \in Writers PROVE KnowsTable(w)
    BY NothingKnown DEF KnowsTable, FreePlaces
  <1>2. QED
    BY <1>1 DEF Coherent, TablesAgree, CacheCoherent

LEMMA KnownCrash ==
    ASSUME Safe, Crash
    PROVE  Coherent'
  <1>1. PICK c \in CrashOutcomes : DevCrash(c) /\ gd' = Opened(c).gd
    BY DEF Crash
  <1>2. \A l \in Locs : c[l] \in media[l] /\ disk'[l] = c[l]
    BY <1>1, CrashIs DEF Safe, Typed
  <1>3. c[Length] \in 1 .. MaxCell /\ \A l \in Locs : Fits(l, c[l])
    BY <1>2, Locating, LengthTyped DEF Safe, Typed, DeviceOK
  <1>4. \A i \in Indices : gd'[i] = disk'[Gd(i)]
    BY <1>1, <1>2, <1>3, OpenedTyped, Locating
  <1>5. cache' = NoCache /\ \A w \in Writers : pc'[w] = "idle"
    BY DEF Crash
  <1>6. ASSUME NEW w \in Writers PROVE KnowsTable(w)'
    <2>1. PICK t, n, u, i, e : /\ my'[w].table = t /\ my'[w].new = n /\ my'[w].purpose = u
                               /\ Here(w).gt' = i /\ Here(w).gte' = e
      OBVIOUS
    <2>2. Knows("idle", t, n, u, i, e)'
      BY NothingKnown DEF FreePlaces
    <2>3. QED
      BY <1>5, <2>1, <2>2, KnowsBy
  <1>7. TablesAgree'
    BY <1>4 DEF TablesAgree
  <1>8. CacheCoherent'
    BY <1>5 DEF CacheCoherent, NoCache
  <1>9. QED
    BY <1>6, <1>7, <1>8 DEF Coherent

-----------------------------------------------------------------------------
(* Every step, and the tables *)

LEMMA CoherentStep == EntryIsReliable /\ Safe /\ Coherent /\ [Next]_vars => Coherent'
  <1> SUFFICES ASSUME EntryIsReliable, Safe, Coherent, [Next]_vars PROVE Coherent'
    OBVIOUS
  <1>1. Typed' /\ Typed
    BY TypedStep DEF Safe
  <1>2. ASSUME NEW w \in Writers, WriterStep(w) PROVE Coherent'
    <2>1. CASE BackingTable(w) \/ BackingGrain(w) \/ Allocate(w) \/ LookAgain(w)
      BY <1>1, <2>1, KnownLooks
    <2>2. CASE TableSpace(w) \/ GrainSpace(w) \/ TableFlush(w) \/ Invalidate(w) \/ Redundant(w)
      BY <1>1, <2>2, KnownSpace, KnownTableFlush, KnownInvalidate, KnownRedundant
    <2>3. CASE RgdFlush(w) \/ GdFlush(w) \/ MergeFlush(w) \/ Flushed(w)
      BY <1>1, <2>3, KnownFlushed, KnownGdFlush
    <2>4. CASE Store(w)
      BY <1>1, <2>4, KnownStore, KnownEntry
    <2>5. CASE Through(w) \/ Refresh(w)
      BY <2>5, KnownEnd
    <2>6. CASE Refused(w) \/ WriteFails(w) \/ FlushFails(w)
      BY <2>6, KnownFail
    <2>7. QED
      BY <1>2, <2>1, <2>2, <2>3, <2>4, <2>5, <2>6 DEF WriterStep
  <1>3. QED
    BY <1>2, KnownCall, KnownQuietly, KnownCrash DEF Next

LEMMA CoherentInit == Init => Coherent
  <1> SUFFICES ASSUME Init PROVE Coherent
    OBVIOUS
  <1>1. Typed
    BY TypedInit
  <1>2. gd = Opened(disk).gd /\ cache = NoCache /\ \A w \in Writers : pc[w] = "idle"
    BY DEF Init
  <1>3. disk[Length] \in 1 .. MaxCell /\ \A l \in Locs : Fits(l, disk[l])
    BY <1>1, LengthTyped DEF Typed, DeviceOK
  <1>4. \A i \in Indices : gd[i] = disk[Gd(i)]
    BY <1>2, <1>3, OpenedTyped
  <1>5. QED
    BY <1>2, <1>4, StartKnown

\* lookup_grain, invalidate_cached_gt and update_gt_entry: the cached table is at
\* every step the device's, but for the entry whose writer is about to refresh it,
\* when a primary entry whose write fails is left as it was.
THEOREM CacheIsCoherent == EntryIsReliable => (Spec /\ NoSharedSpace => []CacheCoherent)
  <1> SUFFICES ASSUME EntryIsReliable PROVE Spec /\ NoSharedSpace => []CacheCoherent
    OBVIOUS
  <1>1. Safe /\ Coherent /\ [Next]_vars => Safe' /\ Coherent'
    BY SafeStep, CoherentStep
  <1>2. Init /\ NoSharedSpace => Safe /\ Coherent
    BY SafeInit, CoherentInit
  <1>3. Coherent => CacheCoherent
    BY DEF Coherent
  <1>4. QED
    BY <1>1, <1>2, <1>3, PTL DEF Spec

-----------------------------------------------------------------------------
(* Entries *)

\* What PublishedNeverMoves says of one step.
EntriesStay ==
    \A i \in Indices :
          gd[i] # Unallocated /\ crashes' = crashes =>
            /\ gd'[i] = gd[i]
            /\ \A e \in Slots :
                  LET l == At(gd[i], e) IN NamesGrain(disk[l]) => disk'[l] = disk[l]

LEMMA QuietStays == Quiet => EntriesStay
  BY DEF Quiet, EntriesStay

LEMMA GdFlushStays ==
    ASSUME Safe, Coherent, NEW w \in Writers, GdFlush(w)
    PROVE  EntriesStay
  <1>1. PICK t, i : t = my[w].table /\ i = Here(w).gt
    OBVIOUS
  <1>2. pc[w] = "gdFlush" /\ DevFlush /\ gd' = [gd EXCEPT ![i] = t]
    BY <1>1 DEF GdFlush
  <1>3. gd[i] = Unallocated
    BY <1>1, <1>2 DEF Coherent, KnowsTable, Knows, GdPlaces
  <1>4. disk' = disk /\ \A j \in Indices \ {i} : gd'[j] = gd[j]
    BY <1>2, FlushIs DEF Safe, Typed, MemoryOK
  <1>5. QED
    BY <1>3, <1>4 DEF EntriesStay

LEMMA EntryStays ==
    ASSUME Safe, Coherent, NEW w \in Writers, pc[w] = "entryPrimary", Store(w)
    PROVE  EntriesStay
  <1>1. DevWriteAll(Stores(w)) /\ gd' = gd
    BY DEF Store, memory
  <1>2. PICK i, e, l : i = Here(w).gt /\ e = Here(w).gte /\ l = At(gd[i], e)
    OBVIOUS
  <1>3. ~NamesGrain(disk[l]) /\ \A m \in Locs : m # l => disk'[m] = disk[m]
    BY <1>1, <1>2, EntryIsWritten DEF EntryWritten
  <1>4. ASSUME NEW j \in Indices, gd[j] # Unallocated, NEW f \in Slots, NamesGrain(disk[At(gd[j], f)])
        PROVE  disk'[At(gd[j], f)] = disk[At(gd[j], f)]
    <2>1. At(gd[j], f) \in Locs
      BY <1>4, TablesAre, Locating DEF Safe, Coherent
    <2>2. QED
      BY <1>3, <1>4, <2>1
  <1>5. QED
    BY <1>1, <1>4 DEF EntriesStay

LEMMA StepStays == EntryIsReliable /\ Safe /\ Coherent /\ [Next]_vars => EntriesStay
  <1> SUFFICES ASSUME EntryIsReliable, Safe, Coherent, [Next]_vars PROVE EntriesStay
    OBVIOUS
  <1>1. Typed /\ TablesAgree /\ \A w \in Writers : KnowsTable(w)
    BY DEF Safe, Coherent
  <1>2. ASSUME NEW w \in Writers, WriterStep(w) PROVE EntriesStay
    <2>1. CASE GdFlush(w)
      BY <2>1, GdFlushStays
    <2>2. CASE Store(w)
      <3>1. pc[w] \in DOMAIN AfterStore /\ DevWriteAll(Stores(w)) /\ gd' = gd /\ cursor' = cursor /\ tables' = tables
        BY <2>2 DEF Store, memory
      <3>2. QED
        BY <1>1, <2>2, <3>1, StoreIsQuiet, EntryStays, QuietStays
    <2>3. CASE Through(w) \/ Refresh(w)
      BY <1>1, <2>3, EndIsQuiet, QuietStays
    <2>4. CASE Refused(w) \/ WriteFails(w) \/ FlushFails(w)
      BY <2>4, FailIsQuiet, QuietStays
    <2>5. CASE TableSpace(w) \/ GrainSpace(w)
      <3>1. cursor <= MaxCell /\ DevWrite(Length, cursor) /\ gd' = gd
        BY <2>5 DEF TableSpace, GrainSpace, TakeCell
      <3>2. QED
        BY <1>1, <3>1, LengthIsQuiet, QuietStays
    <2>6. CASE TableFlush(w) \/ RgdFlush(w) \/ MergeFlush(w) \/ Flushed(w)
      <3>1. DevFlush /\ gd' = gd
        BY <2>6 DEF TableFlush, RgdFlush, MergeFlush, Flushed, memory
      <3>2. QED
        BY <1>1, <3>1, FlushIsQuiet, QuietStays
    <2>7. CASE \/ BackingTable(w) \/ BackingGrain(w) \/ Allocate(w) \/ LookAgain(w)
               \/ Invalidate(w) \/ Redundant(w)
      <3>1. UNCHANGED devVars /\ gd' = gd
        BY <2>7 DEF BackingTable, BackingGrain, Allocate, LookAgain, Invalidate, Redundant, memory
      <3>2. QED
        BY <1>1, <3>1, SameIsQuiet, QuietStays
    <2>8. QED
      BY <1>2, <2>1, <2>2, <2>3, <2>4, <2>5, <2>6, <2>7 DEF WriterStep
  <1>3. CASE Crash
    <2>1. crashes' # crashes
      BY <1>1, <1>3 DEF Crash, Typed
    <2>2. QED
      BY <2>1 DEF EntriesStay
  <1>4. QED
    BY <1>2, <1>3, KnownCall, KnownQuietly, QuietStays DEF Next

\* backing_sector and update_gt_entry: within a session a directory entry that
\* names a table, and a table entry that names a grain, keep naming it, when a
\* primary entry whose write fails is left as it was.
THEOREM EntriesNeverMove == EntryIsReliable => (Spec /\ NoSharedSpace => PublishedNeverMoves)
  <1> SUFFICES ASSUME EntryIsReliable PROVE Spec /\ NoSharedSpace => PublishedNeverMoves
    OBVIOUS
  <1>1. Safe /\ Coherent /\ [Next]_vars => Safe' /\ Coherent'
    BY SafeStep, CoherentStep
  <1>2. Init /\ NoSharedSpace => Safe /\ Coherent
    BY SafeInit, CoherentInit
  <1>3. Safe /\ Coherent /\ [Next]_vars => [EntriesStay]_vars
    BY StepStays
  <1>4. Spec /\ NoSharedSpace => [][EntriesStay]_vars
    BY <1>1, <1>2, <1>3, PTL DEF Spec
  <1>5. QED
    BY <1>4 DEF PublishedNeverMoves, EntriesStay

-----------------------------------------------------------------------------
(* What a step does to the device *)

Settles == \A l \in Locs : disk'[l] = disk[l] /\ media'[l] \subseteq media[l]
Lengthens == \A l \in Locs \ {Length} : disk'[l] = disk[l] /\ media'[l] = media[l]
Only(c) == \A l \in Locs : (\A k : l # At(c, k)) => disk'[l] = disk[l] /\ media'[l] = media[l]

\* The stores that change a directory or a table that one names.
NamingPlaces == {"mergeWrite", "entryRedundant", "entryPrimary", "rgdWrite", "gdWrite"}
NamingStore(w) == pc[w] \in NamingPlaces /\ DevWriteAll(Stores(w))
PayloadStore(w) == pc[w] = "through" /\ ValidGrain(my[w].new) /\ DevWriteAll(Payload(w))

Kinds == \/ Settles
         \/ Lengthens
         \/ \E c : Fresh(c) /\ Only(c)
         \/ \E w \in Writers : NamingStore(w)
         \/ \E w \in Writers : PayloadStore(w)

LEMMA SameSettles == UNCHANGED devVars => Settles
  BY DEF devVars, Settles

LEMMA FlushSettles == Typed /\ DevFlush => Settles
  BY FlushIs DEF Typed, DeviceOK, Settles

LEMMA SpaceLengthens ==
    ASSUME Typed, cursor <= MaxCell, DevWrite(Length, cursor)
    PROVE  Lengthens
  <1>1. cursor \in 1 .. MaxCell
    BY GrainAssumption DEF Typed, MemoryOK
  <1>2. QED
    BY <1>1, LengthIs DEF Typed, Lengthens

LEMMA StoreKinds ==
    ASSUME Safe, NEW w \in Writers, pc[w] \in DOMAIN AfterStore, DevWriteAll(Stores(w)),
           cursor' = cursor, tables' = tables
    PROVE  Kinds
  <1>1. CASE pc[w] \in NamingPlaces
    BY <1>1 DEF Kinds, NamingStore
  <1>2. CASE pc[w] \notin NamingPlaces
    <2>1. pc[w] \in {"tableZero", "seedCopy", "grainZero", "grainData"} /\ pc[w] \in WordPlaces
      BY <1>2, AfterStoreIs DEF NamingPlaces, WordPlaces
    <2>2. PICK c : c = my[w].new
      OBVIOUS
    <2>3. Fresh(c) /\ StoreCell(w) = c
      BY <2>1, <2>2 DEF Safe, Owns, Claims, SeedPlaces, GrainPlaces, StoreCell
    <2>4. Only(c)
      BY <2>1, <2>3, WordStores DEF Only
    <2>5. QED
      BY <2>3, <2>4 DEF Kinds
  <1>3. QED
    BY <1>1, <1>2

LEMMA StepKinds ==
    ASSUME Safe, [Next]_vars
    PROVE  Crash \/ (Kinds /\ crashes' = crashes)
  <1>1. ASSUME UNCHANGED devVars \/ DevFlush PROVE Kinds
    BY <1>1, SameSettles, FlushSettles DEF Safe, Kinds
  <1>2. ASSUME cursor <= MaxCell, DevWrite(Length, cursor) PROVE Kinds
    BY <1>2, SpaceLengthens DEF Safe, Kinds
  <1>3. ASSUME NEW w \in Writers, CallWrite(w) PROVE Kinds /\ crashes' = crashes
    BY <1>1, <1>3 DEF CallWrite, budget
  <1>4. ASSUME NEW w \in Writers, WriterStep(w) PROVE Kinds /\ crashes' = crashes
    <2>1. CASE BackingTable(w) \/ BackingGrain(w) \/ Allocate(w) \/ LookAgain(w) \/ Invalidate(w)
                  \/ Redundant(w) \/ Refresh(w) \/ Refused(w) \/ FlushFails(w)
      BY <1>1, <2>1 DEF BackingTable, BackingGrain, Allocate, LookAgain, Invalidate, Redundant, Refresh, Refused,
         FlushFails, DevFlushFails, budget
    <2>2. CASE TableSpace(w) \/ GrainSpace(w)
      BY <1>2, <2>2 DEF TableSpace, GrainSpace, TakeCell, budget
    <2>3. CASE TableFlush(w) \/ RgdFlush(w) \/ GdFlush(w) \/ MergeFlush(w) \/ Flushed(w)
      BY <1>1, <2>3 DEF TableFlush, RgdFlush, GdFlush, MergeFlush, Flushed, budget
    <2>4. CASE Store(w)
      BY <2>4, StoreKinds DEF Store, memory, budget
    <2>5. CASE Through(w)
      BY <2>5 DEF Through, Kinds, PayloadStore, budget
    <2>6. CASE WriteFails(w)
      <3>1. cursor' = cursor /\ tables' = tables /\ crashes' = crashes
        BY <2>6 DEF WriteFails, memory
      <3>2. CASE UNCHANGED devVars
        BY <1>1, <3>1, <3>2
      <3>3. CASE ~UNCHANGED devVars /\ pc[w] \in DOMAIN AfterStore
        <4>1. DevWriteAll(Stores(w))
          BY <2>6, <3>3, AfterStoreIs DEF WriteFails
        <4>2. QED
          BY <3>1, <3>3, <4>1, StoreKinds
      <3>4. CASE ~UNCHANGED devVars /\ pc[w] = "through"
        <4>1. ValidGrain(my[w].new) /\ DevWriteAll(Payload(w))
          BY <2>6, <3>4, AfterStoreIs DEF WriteFails
        <4>2. QED
          BY <3>1, <3>4, <4>1 DEF Kinds, PayloadStore
      <3>5. CASE ~UNCHANGED devVars /\ pc[w] \in {"tableSpace", "grainSpace"}
        BY <1>2, <2>6, <3>1, <3>5, AfterStoreIs DEF WriteFails
      <3>6. QED
        BY <2>6, <3>2, <3>3, <3>4, <3>5 DEF WriteFails
    <2>7. QED
      BY <1>4, <2>1, <2>2, <2>3, <2>4, <2>5, <2>6 DEF WriterStep
  <1>5. CASE \E i \in Indices : ReaderLoads(i)
    BY <1>1, <1>5 DEF ReaderLoads, budget
  <1>6. CASE Flush
    BY <1>1, <1>6 DEF Flush, budget
  <1>7. CASE UNCHANGED vars
    BY <1>1, <1>7 DEF vars, devVars, budget
  <1>8. QED
    <2>1. Next \/ UNCHANGED vars
      OBVIOUS
    <2>2. CASE \E w \in Writers : CallWrite(w) \/ WriterStep(w)
      BY <1>3, <1>4, <2>2
    <2>3. QED
      BY <1>5, <1>6, <1>7, <2>1, <2>2 DEF Next

LEMMA HeaderStays ==
    ASSUME Safe, Kinds
    PROVE  disk'[Header] = disk[Header]
  <1>1. ASSUME NEW w \in Writers, NamingStore(w) PROVE disk'[Header] = disk[Header]
    <2>1. pc[w] \in DOMAIN AfterStore
      BY <1>1, AfterStoreIs DEF NamingStore, NamingPlaces
    <2>2. QED
      BY <1>1, <2>1, StoresFit, WriteIs DEF NamingStore, Safe, Typed
  <1>2. ASSUME NEW w \in Writers, PayloadStore(w) PROVE disk'[Header] = disk[Header]
    BY <1>2, PayloadFits, WriteIs DEF PayloadStore, Safe, Typed
  <1>3. QED
    BY <1>1, <1>2, Locating DEF Kinds, Settles, Lengthens, Only

\* One thread moves at a time: the others stay where they are.
LEMMA OthersWait ==
    ASSUME Typed, NEW w \in Writers, CallWrite(w) \/ WriterStep(w), NEW q \in Writers, w # q
    PROVE  pc'[q] = pc[q] /\ my'[q] = my[q]
  <1>1. pc \in [Writers -> Places] /\ my = [x \in Writers |-> my[x]]
    BY DEF Typed, ThreadsOK
  <1>2. PICK to : Goto(w, to)
    BY DEF CallWrite, WriterStep, BackingTable, BackingGrain, Through, Allocate, TableSpace, GrainSpace,
       TakeCell, TableFlush, RgdFlush, GdFlush, Invalidate, LookAgain, Redundant, MergeFlush, Store, Flushed,
       Refresh, Refused, WriteFails, FlushFails, ChunkDone, Fail
  <1>3. pc'[q] = pc[q]
    BY <1>1, <1>2 DEF Goto
  <1>4. my' = my \/ \E m : my' = [my EXCEPT ![w] = m]
    <2>1. CASE \/ CallWrite(w) \/ Through(w) \/ Refresh(w) \/ Refused(w) \/ WriteFails(w) \/ FlushFails(w)
      BY <2>1 DEF CallWrite, Through, Refresh, Refused, WriteFails, FlushFails, ChunkDone, Fail
    <2>2. CASE \/ Invalidate(w) \/ MergeFlush(w) \/ RgdFlush(w) \/ GdFlush(w) \/ Store(w) \/ Flushed(w)
      BY <2>2 DEF Invalidate, MergeFlush, RgdFlush, GdFlush, Store, Flushed
    <2>3. CASE BackingTable(w)
      BY <2>3 DEF BackingTable
    <2>4. CASE BackingGrain(w) \/ LookAgain(w)
      BY <2>4 DEF BackingGrain, LookAgain
    <2>5. CASE Allocate(w)
      BY <2>5 DEF Allocate
    <2>6. CASE TableSpace(w) \/ GrainSpace(w)
      BY <2>6 DEF TableSpace, GrainSpace, TakeCell
    <2>7. CASE TableFlush(w)
      BY <2>7 DEF TableFlush
    <2>8. CASE Redundant(w)
      BY <2>8 DEF Redundant
    <2>9. QED
      BY <2>1, <2>2, <2>3, <2>4, <2>5, <2>6, <2>7, <2>8 DEF WriterStep
  <1>5. QED
    BY SMTT(30), <1>1, <1>3, <1>4

LEMMA OneMoves ==
    ASSUME Typed, [Next]_vars, NEW q \in Writers
    PROVE  \/ pc'[q] = pc[q] /\ my'[q] = my[q]
           \/ CallWrite(q) \/ WriterStep(q) \/ Crash
  <1>1. CASE (\E i \in Indices : ReaderLoads(i)) \/ Flush \/ UNCHANGED vars
    BY <1>1 DEF ReaderLoads, Flush, vars
  <1>2. QED
    BY <1>1, OthersWait DEF Next

-----------------------------------------------------------------------------
(* What the cache and a thread on its way to write through have been told *)

\* An entry of the cached table that names a grain is the device's, even while a
\* refresh is due.
CacheNames ==
    cache # NoCache =>
        \A e \in Slots : NamesGrain(cache.entries[e]) => cache.entries[e] = disk[At(cache.loaded[2], e)]

\* Entry e of table i names grain n.
Grain(n, i, e) == gd[i] # Unallocated /\ n = disk[At(gd[i], e)] /\ NamesGrain(n)

ThroughKnows(w) == pc[w] = "through" => Grain(my[w].new, Here(w).gt, Here(w).gte)

Told == CacheNames /\ \A w \in Writers : ThroughKnows(w)

LEMMA GrainStays ==
    ASSUME EntriesStay, crashes' = crashes, disk'[Header] = disk[Header],
           NEW n, NEW i \in Indices, NEW e \in Slots, Grain(n, i, e)
    PROVE  Grain(n, i, e)'
  <1>1. gd'[i] = gd[i] /\ disk'[At(gd[i], e)] = disk[At(gd[i], e)]
    BY DEF EntriesStay, Grain
  <1>2. NamesGrain(n)'
    BY NamesKept DEF Grain
  <1>3. QED
    BY <1>1, <1>2 DEF Grain

\* What becomes of the cache slot.
LEMMA CacheMoves ==
    ASSUME Safe, Coherent, [Next]_vars
    PROVE  \/ cache' = cache \/ cache' = NoCache
           \/ /\ UNCHANGED devVars /\ gd' = gd
              /\ \E i \in Indices : gd[i] # Unallocated /\ cache' = Lookup(i, gd[i])
           \/ \E w \in Writers : Refresh(w)
  <1>1. ASSUME NEW w \in Writers, WriterStep(w), ~Refresh(w)
        PROVE  \/ cache' = cache \/ cache' = NoCache
               \/ /\ UNCHANGED devVars /\ gd' = gd
                  /\ \E i \in Indices : gd[i] # Unallocated /\ cache' = Lookup(i, gd[i])
    <2>1. CASE BackingGrain(w) \/ LookAgain(w)
      <3>1. /\ cache' = Lookup(Here(w).gt, my[w].table) /\ pc[w] \in {"gt", "gt2"}
            /\ UNCHANGED devVars /\ gd' = gd
        BY <2>1 DEF BackingGrain, LookAgain
      <3>2. my[w].table = gd[Here(w).gt] /\ gd[Here(w).gt] # Unallocated
        BY <3>1, PlacesAre DEF Coherent, KnowsTable, Knows
      <3>3. Here(w).gt \in Indices
        BY <3>1, HolderIs DEF Safe
      <3>4. QED
        BY <3>1, <3>2, <3>3
    <2>2. CASE Invalidate(w)
      BY <2>2 DEF Invalidate
    <2>3. CASE ~(BackingGrain(w) \/ LookAgain(w) \/ Invalidate(w))
      BY <1>1, <2>3 DEF WriterStep, BackingTable, Through, Allocate, TableSpace, TableFlush, RgdFlush, GdFlush,
         Redundant, MergeFlush, GrainSpace, Store, Flushed, Refused, WriteFails, FlushFails, memory
    <2>4. QED
      BY <2>1, <2>2, <2>3
  <1>2. ASSUME NEW i \in Indices, ReaderLoads(i)
        PROVE  UNCHANGED devVars /\ gd' = gd /\ gd[i] # Unallocated /\ cache' = Lookup(i, gd[i])
    BY <1>2, InFileTyped DEF ReaderLoads, Safe, Typed
  <1>3. CASE \/ UNCHANGED vars \/ Flush \/ Crash \/ \E w \in Writers : CallWrite(w)
    BY <1>3 DEF vars, Flush, Crash, CallWrite, memory
  <1>4. QED
    <2>1. Next \/ UNCHANGED vars
      OBVIOUS
    <2>2. CASE \E w \in Writers : WriterStep(w)
      BY <1>1, <2>2
    <2>3. CASE \E i \in Indices : ReaderLoads(i)
      BY <1>2, <2>3
    <2>4. QED
      BY <1>3, <2>1, <2>2, <2>3 DEF Next

LEMMA CacheKnown ==
    ASSUME Safe, Typed', Coherent, CacheNames, EntriesStay, crashes' = crashes, disk'[Header] = disk[Header],
           [Next]_vars
    PROVE  CacheNames'
  <1> SUFFICES ASSUME cache' # NoCache, NEW e \in Slots, NamesGrain(cache'.entries[e])
               PROVE  cache'.entries[e] = disk'[At(cache'.loaded[2], e)]
    BY DEF CacheNames, NamesGrain, UsesZeroed
  <1>1. NamesGrain(cache'.entries[e])
    OBVIOUS
  <1>2. ASSUME cache # NoCache
        PROVE  \E i \in Indices : /\ cache.loaded = <<i, gd[i]>> /\ gd[i] # Unallocated
                                  /\ cache.entries = [f \in Slots |-> cache.entries[f]]
                                  /\ cache = [loaded |-> cache.loaded, entries |-> cache.entries]
    <2>1. /\ cache.loaded \in Indices \X Cells /\ cache.entries = [f \in Slots |-> cache.entries[f]]
          /\ cache = [loaded |-> cache.loaded, entries |-> cache.entries]
      BY <1>2 DEF Safe, Typed, MemoryOK, CacheTyped
    <2>2. cache.loaded[2] = gd[cache.loaded[1]]
      BY <1>2 DEF Coherent, CacheCoherent
    <2>3. QED
      BY <2>1, <2>2, CellsAre
  <1>3. ASSUME cache # NoCache, cache'.loaded = cache.loaded, cache'.entries[e] = cache.entries[e]
        PROVE  cache'.entries[e] = disk'[At(cache'.loaded[2], e)]
    <2>1. PICK i \in Indices : cache.loaded = <<i, gd[i]>> /\ gd[i] # Unallocated
      BY <1>2, <1>3
    <2>2. cache.entries[e] = disk[At(gd[i], e)] /\ NamesGrain(disk[At(gd[i], e)])
      BY <1>1, <1>3, <2>1 DEF CacheNames
    <2>3. disk'[At(gd[i], e)] = disk[At(gd[i], e)]
      BY <2>1, <2>2 DEF EntriesStay
    <2>4. QED
      BY <1>3, <2>1, <2>2, <2>3
  <1>4. CASE cache' = cache
    BY <1>3, <1>4
  <1>5. ASSUME UNCHANGED devVars, NEW i \in Indices, gd[i] # Unallocated, cache' = Lookup(i, gd[i])
        PROVE  cache'.entries[e] = disk'[At(cache'.loaded[2], e)]
    <2>1. CASE cache'= Loaded(i, gd[i])
      BY <1>5, <2>1 DEF Loaded, TableAt, devVars
    <2>2. QED
      BY <1>4, <1>5, <2>1 DEF Lookup
  <1>6. ASSUME NEW w \in Writers, Refresh(w)
        PROVE  cache'.entries[e] = disk'[At(cache'.loaded[2], e)]
    <2>1. PICK i, f, n : i = Here(w).gt /\ f = Here(w).gte /\ n = my[w].new
      OBVIOUS
    <2>2. CASE cache' = cache
      BY <1>4, <2>2
    <2>3. CASE cache' # cache
      <3>1. cache' = [cache EXCEPT !.entries[f] = n] /\ cache.loaded = <<i, my[w].table>> /\ pc[w] = "refresh"
        BY <1>6, <2>1, <2>3 DEF Refresh
      <3>2. my[w].table = gd[i] /\ disk[At(gd[i], f)] = n
        BY <2>1, <3>1, PlacesAre DEF Coherent, KnowsTable, Knows
      <3>3. cache # NoCache
        BY <3>1, NoPair DEF NoCache
      <3>4. /\ cache'.loaded = cache.loaded /\ cache'.entries = [cache.entries EXCEPT ![f] = n]
            /\ cache.entries = [g \in Slots |-> cache.entries[g]]
        BY <1>2, <3>1, <3>3
      <3>5. CASE e = f
        <4>1. cache'.entries[e] = n /\ cache'.loaded[2] = gd[i]
          BY <3>1, <3>2, <3>4, <3>5
        <4>2. disk' = disk
          BY <1>6 DEF Refresh, devVars
        <4>3. QED
          BY <3>2, <3>5, <4>1, <4>2
      <3>6. CASE e # f
        BY <1>3, <3>3, <3>4, <3>6
      <3>7. QED
        BY <3>5, <3>6
    <2>4. QED
      BY <2>2, <2>3
  <1>7. QED
    BY <1>4, <1>5, <1>6, CacheMoves

\* Only a lookup sends a thread to write through.
LEMMA ToThrough ==
    ASSUME Typed, NEW w \in Writers, CallWrite(w) \/ WriterStep(w), pc'[w] = "through"
    PROVE  BackingGrain(w) \/ LookAgain(w)
  <1>1. ASSUME NEW to \in Places \ {"through"}, Goto(w, to) PROVE FALSE
    BY <1>1, GotoIs DEF Typed, Goes
  <1>2. ASSUME ChunkDone(w) \/ Fail(w) PROVE FALSE
    BY <1>1, <1>2 DEF ChunkDone, Fail, Places, FreePlaces
  <1>3. CASE \/ CallWrite(w) \/ BackingTable(w) \/ Allocate(w) \/ TableSpace(w) \/ GdFlush(w) \/ Invalidate(w)
             \/ RgdFlush(w) \/ MergeFlush(w) \/ GrainSpace(w) \/ Redundant(w)
    <2>1. PICK to \in {"gd", "gt", "allocate", "tableSpace", "gt2", "tableZero", "invalidate", "gdWrite",
                       "grainSpace", "grainZero", "grainData", "mergeWrite"} : Goto(w, to)
      BY <1>3 DEF CallWrite, BackingTable, Allocate, TableSpace, GdFlush, Invalidate,
         RgdFlush, MergeFlush, GrainSpace, Redundant, TakeCell
    <2>2. QED
      BY SMTT(30), <1>1, <2>1, PlacesAre DEF Places
  <1>4. CASE TableFlush(w)
    <2>1. AfterBlank(w) \in {"tableSpace", "gdWrite", "rgdWrite", "seedCopy"}
      BY <1>4 DEF TableFlush, AfterBlank, Typed, ThreadsOK, WriterOK, TablePlaces
    <2>2. QED
      BY <1>1, <1>4, <2>1, PlacesAre DEF TableFlush, Places
  <1>5. CASE Store(w)
    BY <1>1, <1>5, AfterStoreIs, PlacesAre DEF Store, Places
  <1>6. CASE Flushed(w)
    BY <1>1, <1>6, AfterFlushIs, PlacesAre DEF Flushed, Places
  <1>7. CASE Through(w) \/ Refresh(w) \/ Refused(w) \/ WriteFails(w) \/ FlushFails(w)
    BY <1>2, <1>7 DEF Through, Refresh, Refused, WriteFails, FlushFails
  <1>8. QED
    BY <1>3, <1>4, <1>5, <1>6, <1>7 DEF WriterStep

\* What a lookup of the table of index i finds at e, if it names a grain.
LEMMA LookupNames ==
    ASSUME Coherent, CacheNames, NEW i \in Indices, NEW c, c = gd[i], c # Unallocated, NEW e \in Slots,
           NamesGrain(Lookup(i, c).entries[e])
    PROVE  Grain(Lookup(i, c).entries[e], i, e)
  <1>1. CASE cache.loaded = <<i, c>>
    <2>1. cache # NoCache
      BY <1>1, NoPair DEF NoCache
    <2>2. Lookup(i, c) = cache /\ cache.loaded[2] = c
      BY <1>1 DEF Lookup
    <2>3. QED
      BY <2>1, <2>2 DEF CacheNames, Grain
  <1>2. CASE cache.loaded # <<i, c>>
    <2>1. Lookup(i, c) = Loaded(i, c)
      BY <1>2 DEF Lookup
    <2>2. Loaded(i, c).entries[e] = disk[At(c, e)]
      BY DEF Loaded, TableAt
    <2>3. QED
      BY <2>1, <2>2 DEF Grain
  <1>3. QED
    BY <1>1, <1>2

LEMMA ThroughIs ==
    ASSUME Safe, Coherent, CacheNames, EntriesStay, crashes' = crashes, disk'[Header] = disk[Header],
           [Next]_vars, ~Crash, NEW w \in Writers, ThroughKnows(w), pc'[w] = "through"
    PROVE  ThroughKnows(w)'
  <1>1. CASE pc'[w] = pc[w] /\ my'[w] = my[w]
    <2>1. PICK n, i, e : n = my[w].new /\ i = Here(w).gt /\ e = Here(w).gte
      OBVIOUS
    <2>2. i \in Indices /\ e \in Slots /\ Grain(n, i, e)
      BY <1>1, <2>1, HolderIs DEF Safe, ThroughKnows
    <2>3. Here(w)' = Here(w)
      BY <1>1, HereKept
    <2>4. Grain(n, i, e)'
      BY <2>2, GrainStays
    <2>5. QED
      BY <1>1, <2>1, <2>3, <2>4 DEF ThroughKnows, Grain, NamesGrain, UsesZeroed
  <1>2. CASE BackingGrain(w) \/ LookAgain(w)
    <2>1. PICK n, i, e, c : n = Lookup(i, c).entries[e] /\ i = Here(w).gt /\ e = Here(w).gte /\ c = my[w].table
      OBVIOUS
    <2>2. pc[w] \in {"gt", "gt2"} /\ UNCHANGED devVars /\ gd' = gd
      BY <1>2 DEF BackingGrain, LookAgain
    <2>3. c = gd[i] /\ c # Unallocated
      BY <2>1, <2>2, PlacesAre DEF Coherent, KnowsTable, Knows
    <2>4. i \in Indices /\ e \in Slots
      BY <2>1, <2>2, HolderIs DEF Safe
    <2>5. PICK to \in Places : Goto(w, to) /\ (to = "through" => NamesGrain(n) /\ my' = [my EXCEPT ![w].new = n])
      BY <1>2, <2>1, PlacesAre DEF BackingGrain, LookAgain, Places
    <2>6. to = "through"
      BY <2>5, GotoIs DEF Safe, Typed, Goes
    <2>7. Grain(n, i, e)
      BY <2>1, <2>3, <2>4, <2>5, <2>6, LookupNames
    <2>8. my'[w].new = n /\ my'[w].at = my[w].at /\ my'[w].end = my[w].end
      <3>1. Becomes(w, my[w].at, my[w].end, my[w].table, n, my[w].purpose)
        BY <2>5, <2>6, MyIs DEF Safe, Typed
      <3>2. QED
        BY <3>1 DEF Becomes
    <2>9. Here(w)' = Here(w)
      BY <2>8, HereKept
    <2>10. QED
      BY <2>1, <2>2, <2>7, <2>8, <2>9 DEF ThroughKnows, Grain, NamesGrain, UsesZeroed, devVars
  <1>3. QED
    BY <1>1, <1>2, OneMoves, ToThrough DEF Safe

LEMMA ToldStep ==
    ASSUME EntryIsReliable, Safe, Coherent, Told, [Next]_vars
    PROVE  Told'
  <1>1. CASE Crash
    <2>1. cache' = NoCache /\ pc' = [w \in Writers |-> "idle"]
      BY <1>1 DEF Crash
    <2>2. QED
      BY <2>1 DEF Told, CacheNames, ThroughKnows
  <1>2. CASE ~Crash
    <2>1. EntriesStay /\ crashes' = crashes /\ disk'[Header] = disk[Header]
      BY <1>2, StepStays, StepKinds, HeaderStays
    <2>2. Typed'
      BY TypedStep DEF Safe
    <2>3. CacheNames'
      BY <2>1, <2>2, CacheKnown DEF Told
    <2>4. ASSUME NEW w \in Writers PROVE ThroughKnows(w)'
      <3>1. CASE pc'[w] = "through"
        BY <1>2, <2>1, <3>1, ThroughIs DEF Told
      <3>2. QED
        BY <3>1 DEF ThroughKnows
    <2>5. QED
      BY <2>3, <2>4 DEF Told
  <1>3. QED
    BY <1>1, <1>2

LEMMA ToldInit == Init => Told
  BY DEF Init, Told, CacheNames, ThroughKnows

-----------------------------------------------------------------------------
(* The tables of one index *)

\* The places that bear on index i: its directory entries, and the entries of each
\* table that they, or what a crash may leave of them, name.
Bears(i) == {Gd(i), Rgd(i)}
            \cup {At(c, e) : c \in (media[Gd(i)] \cup media[Rgd(i)]) \ {Unallocated}, e \in Slots}

Shrinks(i) == \A l \in Bears(i) : media'[l] \subseteq media[l]
Keeps(i) == gd'[i] = gd[i] /\ rgd'[i] = rgd[i] /\ Shrinks(i) /\ \A l \in Bears(i) : disk'[l] = disk[l]

\* What memory has of the directory is durable, and so is its table's entry once it
\* names a grain; a table that memory has not got is blank.
Held(i) ==
    /\ gd[i] # Unallocated => media[Gd(i)] = {gd[i]}
    /\ gd[i] = Unallocated =>
          \A t \in media[Gd(i)] \ {Unallocated}, e \in Slots : media[At(t, e)] = {Unallocated}
    /\ HasRgd /\ gd[i] # Unallocated /\ rgd[i] # Unallocated => media[Rgd(i)] = {rgd[i]}
    /\ gd[i] # Unallocated =>
          \A e \in Slots : \A x \in media[At(gd[i], e)] : NamesGrain(x) => x = disk[At(gd[i], e)]

\* Wherever both copies of an entry name something, and the primary a grain, they agree.
Agrees(i) ==
    \A g \in media[Gd(i)] \ {Unallocated}, r \in media[Rgd(i)] \ {Unallocated}, e \in Slots :
        \A p \in media[At(g, e)], q \in media[At(r, e)] : NamesGrain(p) /\ q # Unallocated => q = p

\* The redundant table has an entry wherever the primary one has.
Complete(i) ==
    /\ gd[i] # Unallocated /\ rgd[i] # Unallocated
    /\ \A e \in Slots : disk[At(gd[i], e)] # Unallocated => disk[At(rgd[i], e)] # Unallocated

LEMMA BearsFit ==
    ASSUME Typed, NEW i \in Indices
    PROVE  /\ Bears(i) \subseteq Locs /\ Gd(i) \in Bears(i) /\ Rgd(i) \in Bears(i)
           /\ \A l \in Bears(i) : disk[l] \in media[l]
           /\ \A c \in media[Gd(i)] \cup media[Rgd(i)], e \in Slots :
                 c # Unallocated => At(c, e) \in Bears(i)
  <1>1. media[Gd(i)] \subseteq {Unallocated} \cup Cells /\ media[Rgd(i)] \subseteq {Unallocated} \cup Cells
    BY DirectoriesName DEF Typed
  <1>2. Bears(i) \subseteq Locs
    BY <1>1, Locating DEF Bears
  <1>3. QED
    BY <1>2 DEF Bears, Typed, DeviceOK

LEMMA ShrinksBears ==
    ASSUME Typed, NEW i \in Indices, Shrinks(i)
    PROVE  /\ media'[Gd(i)] \subseteq media[Gd(i)] /\ media'[Rgd(i)] \subseteq media[Rgd(i)]
           /\ \A c \in media[Gd(i)] \cup media[Rgd(i)], e \in Slots :
                 c # Unallocated => media'[At(c, e)] \subseteq media[At(c, e)]
  BY BearsFit DEF Shrinks

LEMMA ShrinksCovers ==
    ASSUME Typed, disk'[Header] = disk[Header], NEW i \in Indices, Shrinks(i)
    PROVE  (EverCovers(i) => EverCovers(i)') /\ (Agrees(i) => Agrees(i)')
  <1>1. ASSUME EverCovers(i) PROVE EverCovers(i)'
    BY <1>1, ShrinksBears, NamesKept DEF EverCovers
  <1>2. ASSUME Agrees(i) PROVE Agrees(i)'
    BY <1>2, ShrinksBears, NamesKept DEF Agrees
  <1>3. QED
    BY <1>1, <1>2

LEMMA KeepsHeld ==
    ASSUME Typed, Typed', disk'[Header] = disk[Header], NEW i \in Indices, Keeps(i), Held(i)
    PROVE  Held(i)'
  <1>1. /\ media'[Gd(i)] \subseteq media[Gd(i)] /\ media'[Rgd(i)] \subseteq media[Rgd(i)]
        /\ \A c \in media[Gd(i)] \cup media[Rgd(i)], e \in Slots :
                 c # Unallocated => /\ media'[At(c, e)] \subseteq media[At(c, e)]
                                    /\ disk'[At(c, e)] = disk[At(c, e)]
    BY ShrinksBears, BearsFit DEF Keeps
  <1>2. gd'[i] = gd[i] /\ rgd'[i] = rgd[i]
    BY DEF Keeps
  <1>3. \A l \in Locs : media'[l] # {}
    BY DEF Typed, DeviceOK
  <1>4. /\ media'[Gd(i)] # {} /\ media'[Rgd(i)] # {}
        /\ \A c \in media[Gd(i)] \cup media[Rgd(i)], e \in Slots : c # Unallocated => media'[At(c, e)] # {}
    BY <1>3, BearsFit
  <1>5. HasRgd' = HasRgd /\ \A x : NamesGrain(x)' <=> NamesGrain(x)
    BY NamesKept DEF HasRgd
  <1>6. gd'[i] # Unallocated => media'[Gd(i)] = {gd'[i]}
    BY <1>1, <1>2, <1>4 DEF Held
  <1>7. gd'[i] = Unallocated =>
          \A t \in media'[Gd(i)] \ {Unallocated}, e \in Slots : media'[At(t, e)] = {Unallocated}
    BY <1>1, <1>2, <1>4 DEF Held
  <1>8. HasRgd' /\ gd'[i] # Unallocated /\ rgd'[i] # Unallocated => media'[Rgd(i)] = {rgd'[i]}
    BY <1>1, <1>2, <1>4, <1>5 DEF Held
  <1>9. ASSUME gd'[i] # Unallocated, NEW e \in Slots, NEW x \in media'[At(gd'[i], e)], NamesGrain(x)
        PROVE  x = disk'[At(gd'[i], e)]
    <2>1. gd[i] # Unallocated /\ gd[i] \in media[Gd(i)] /\ gd'[i] = gd[i]
      BY <1>2, <1>9 DEF Held
    <2>2. x \in media[At(gd[i], e)] /\ disk'[At(gd[i], e)] = disk[At(gd[i], e)]
      BY <1>1, <1>9, <2>1
    <2>3. QED
      BY <1>9, <2>1, <2>2 DEF Held
  <1>10. QED
    BY <1>5, <1>6, <1>7, <1>8, <1>9 DEF Held

LEMMA KeepsComplete ==
    ASSUME Typed, NEW i \in Indices, Keeps(i), Held(i), HasRgd, Complete(i)
    PROVE  Complete(i)'
  <1>1. gd[i] \in media[Gd(i)] /\ rgd[i] \in media[Rgd(i)]
    BY DEF Held, Complete
  <1>2. \A e \in Slots : /\ disk'[At(gd[i], e)] = disk[At(gd[i], e)]
                         /\ disk'[At(rgd[i], e)] = disk[At(rgd[i], e)]
    BY <1>1, BearsFit DEF Keeps, Complete
  <1>3. QED
    BY <1>2 DEF Complete, Keeps

-----------------------------------------------------------------------------
(* What the holder of the allocation makes of the copies *)

\* What is so at place p, with table t, new cell n and purpose u, of entry e of
\* table i and of its redundant twin.
Tends(p, t, n, u, i, e) ==
    /\ p \in MakePlaces /\ u \in {"twin", "seed"} => HasRgd
    /\ p \in {"redundant", "mergeWrite", "mergeFlush", "entryRedundant", "entryFlush"} => HasRgd
    /\ p \in MakePlaces /\ u = "seed" => rgd[i] = Unallocated
    /\ p \in GdPlaces /\ HasRgd => rgd[i] # Unallocated /\ media[Rgd(i)] = {rgd[i]}
    /\ p \in {"mergeWrite", "mergeFlush", "grainSpace"} \cup GrainPlaces /\ HasRgd => rgd[i] # Unallocated
    /\ p = "seedFlush" => \A f \in Slots : disk[At(n, f)] = disk[At(gd[i], f)]
    /\ p \in RgdPlaces /\ u = "seed" =>
          \A f \in Slots : media[At(n, f)] = {disk[At(gd[i], f)]} /\ media[At(gd[i], f)] = {disk[At(gd[i], f)]}
    /\ p \in EntryPlaces => media[At(gd[i], e)] = {disk[At(gd[i], e)]}
    /\ p = "entryFlush" => disk[At(rgd[i], e)] = n
    /\ p = "entryPrimary" /\ HasRgd => media[At(rgd[i], e)] = {n}
    /\ p = "mergeFlush" =>
          \A f \in Slots : disk[At(gd[i], f)] # Unallocated => disk[At(rgd[i], f)] # Unallocated

Tending(w) == Tends(pc[w], my[w].table, my[w].new, my[w].purpose, Here(w).gt, Here(w).gte)

Kept == (\A i \in Indices : Held(i)) /\ \A w \in Writers : Tending(w)

-----------------------------------------------------------------------------
(* Steps that leave an index alone *)

LEMMA NotOfTables ==
    ASSUME Safe, Coherent, NEW c,
           Fresh(c) \/ \E i \in Indices, e \in Slots : Grain(c, i, e)
    PROVE  \A j \in Indices : c \notin media[Gd(j)] \cup media[Rgd(j)]
  <1> SUFFICES ASSUME NEW j \in Indices, NEW l \in {Gd(j), Rgd(j)}, c \in media[l] PROVE FALSE
    OBVIOUS
  <1>1. l \in PointerPlaces
    BY DEF PointerPlaces
  <1>2. CASE Fresh(c)
    BY <1>1, <1>2, CellsAre DEF Fresh
  <1>3. CASE \E i \in Indices, e \in Slots : Grain(c, i, e)
    <2>1. PICK i \in Indices, e \in Slots : Grain(c, i, e)
      BY <1>3
    <2>2. gd[i] \in TableCells
      BY <2>1, TablesAre DEF Safe, Coherent, Grain
    <2>3. At(gd[i], e) \in PointerPlaces
      BY <2>2 DEF PointerPlaces
    <2>4. c \in media[At(gd[i], e)] /\ NamesGrain(c)
      BY <2>1, <2>3, DirectoriesName DEF Grain, Safe, Typed, DeviceOK
    <2>5. At(gd[i], e) = l
      BY <1>1, <2>3, <2>4 DEF Safe, Space
    <2>6. QED
      BY <2>5, Locating
  <1>4. QED
    BY <1>2, <1>3

LEMMA OnlySpares ==
    ASSUME Typed, NEW c, Only(c), NEW j \in Indices, c \notin media[Gd(j)] \cup media[Rgd(j)]
    PROVE  \A l \in Bears(j) : disk'[l] = disk[l] /\ media'[l] = media[l]
  <1>1. SUFFICES ASSUME NEW l \in Bears(j) PROVE l \in Locs /\ \A k : l # At(c, k)
    BY DEF Only
  <1>2. l \in Locs
    BY BearsFit
  <1>3. \A k : l # At(c, k)
    BY Locating DEF Bears
  <1>4. QED
    BY <1>2, <1>3

LEMMA PayloadIsOnly ==
    ASSUME Typed, NEW w \in Writers, PayloadStore(w)
    PROVE  Only(my[w].new)
  <1>1. \A l \in DOMAIN Payload(w) : \E k : l = At(my[w].new, k)
    BY PayloadIs
  <1>2. \A l \in Locs : l \notin DOMAIN Payload(w) => disk'[l] = disk[l] /\ media'[l] = media[l]
    BY WriteIs, PayloadFits DEF PayloadStore, Typed
  <1>3. QED
    BY <1>1, <1>2 DEF Only

\* The directories in memory change at two flushes only.
LEMMA DirectoriesMove ==
    ASSUME [Next]_vars, ~Crash
    PROVE  \/ gd' = gd /\ rgd' = rgd
           \/ \E w \in Writers : RgdFlush(w) \/ GdFlush(w)
  <1>1. ASSUME NEW w \in Writers, WriterStep(w), ~RgdFlush(w), ~GdFlush(w) PROVE gd' = gd /\ rgd' = rgd
    BY <1>1 DEF WriterStep, BackingTable, BackingGrain, Through, Allocate, TableSpace, TableFlush, Invalidate,
       LookAgain, Redundant, MergeFlush, GrainSpace, Store, Flushed, Refresh, Refused, WriteFails, FlushFails, memory
  <1>2. CASE UNCHANGED vars \/ Flush \/ (\E i \in Indices : ReaderLoads(i)) \/ \E w \in Writers : CallWrite(w)
    BY <1>2 DEF vars, Flush, ReaderLoads, CallWrite, memory
  <1>3. QED
    <2>1. Next \/ UNCHANGED vars
      OBVIOUS
    <2>2. CASE \E w \in Writers : WriterStep(w)
      BY <1>1, <2>2
    <2>3. QED
      BY <1>2, <2>1, <2>2 DEF Next

\* A store that leaves the locations of Bears(j) out.
LEMMA StoreSpares ==
    ASSUME Typed, NEW w \in Writers, NamingStore(w), NEW j \in Indices,
           \A l \in Bears(j) : l \notin DOMAIN Stores(w)
    PROVE  \A l \in Bears(j) : disk'[l] = disk[l] /\ media'[l] = media[l]
  <1>1. pc[w] \in DOMAIN AfterStore
    BY AfterStoreIs DEF NamingStore, NamingPlaces
  <1>2. QED
    BY <1>1, StoresFit, WriteIs, BearsFit DEF NamingStore, Typed

\* A cell that index i names is none of another's.
LEMMA NamedApart ==
    ASSUME Safe, NEW i \in Indices, NEW j \in Indices, i # j, NEW c, c # Unallocated,
           c \in media[Gd(i)] \cup media[Rgd(i)]
    PROVE  c \notin media[Gd(j)] \cup media[Rgd(j)]
  <1>1. NamesGrain(c)
    BY DirectoriesName, CellsAre DEF Safe, Typed
  <1>2. {Gd(i), Gd(j), Rgd(i), Rgd(j)} \subseteq PointerPlaces
    BY DEF PointerPlaces
  <1>3. QED
    BY <1>1, <1>2, Locating DEF Safe, Space

LEMMA NamingSpares ==
    ASSUME Safe, Coherent, Kept, NEW w \in Writers, NamingStore(w), NEW j \in Indices, Here(w).gt # j
    PROVE  \A l \in Bears(j) : disk'[l] = disk[l] /\ media'[l] = media[l]
  <1>1. PICK i, e, n, t : i = Here(w).gt /\ e = Here(w).gte /\ n = my[w].new /\ t = my[w].table
    OBVIOUS
  <1>2. pc[w] \in NamingPlaces /\ i \in Indices /\ i # j
    BY <1>1, HolderIs DEF NamingStore, NamingPlaces, Safe
  <1>3. CASE pc[w] \in {"rgdWrite", "gdWrite"}
    <2>1. \A l \in DOMAIN Stores(w) : l \in {Gd(i), Rgd(i)}
      BY <1>1, <1>3, StoredIs
    <2>2. \A l \in Bears(j) : l \notin DOMAIN Stores(w)
      BY <1>2, <2>1, Locating DEF Bears
    <2>3. QED
      BY <2>2, StoreSpares DEF Safe
  <1>4. CASE pc[w] \notin {"rgdWrite", "gdWrite"}
    <2>1. PICK c : c = StoreCell(w)
      OBVIOUS
    <2>2. \A l \in DOMAIN Stores(w) : \E k : l = At(c, k)
      BY <1>2, <1>4, <2>1, DomainsAre, AfterStoreIs DEF NamingPlaces
    <2>3. c # Unallocated /\ c \in media[Gd(i)] \cup media[Rgd(i)]
      <3>1. pc[w] \in UsePlaces
        BY <1>2, <1>4, PlacesAre DEF NamingPlaces
      <3>2. t = gd[i] /\ gd[i] # Unallocated /\ gd[i] \in media[Gd(i)]
        BY <1>1, <1>2, <3>1 DEF Coherent, KnowsTable, Knows, Kept, Held
      <3>3. CASE pc[w] = "entryPrimary"
        BY <1>1, <2>1, <3>2, <3>3 DEF StoreCell
      <3>4. CASE pc[w] \in {"mergeWrite", "entryRedundant"}
        <4>1. HasRgd /\ rgd[i] # Unallocated
          BY <1>1, <3>4 DEF Kept, Tending, Tends, GrainPlaces, EntryPlaces
        <4>2. media[Rgd(i)] = {rgd[i]}
          BY <1>2, <3>2, <4>1 DEF Kept, Held
        <4>3. c = rgd[i]
          BY <1>1, <2>1, <3>4 DEF StoreCell
        <4>4. QED
          BY <4>1, <4>2, <4>3
      <3>5. QED
        BY <1>2, <1>4, <3>3, <3>4 DEF NamingPlaces
    <2>4. c \notin media[Gd(j)] \cup media[Rgd(j)]
      BY <1>2, <2>3, NamedApart
    <2>5. \A l \in Bears(j) : l \notin DOMAIN Stores(w)
      BY <2>2, <2>4, Locating DEF Bears
    <2>6. QED
      BY <2>5, StoreSpares DEF Safe
  <1>5. QED
    BY <1>3, <1>4

\* A store that is none of the naming ones leaves every index alone.
LEMMA KindSpares ==
    ASSUME Safe, Coherent, Told, NEW j \in Indices,
           \/ Settles \/ Lengthens
           \/ \E c : Fresh(c) /\ Only(c)
           \/ \E w \in Writers : PayloadStore(w)
    PROVE  \A l \in Bears(j) : disk'[l] = disk[l] /\ media'[l] \subseteq media[l]
  <1>1. CASE Settles
    BY <1>1, BearsFit DEF Settles, Safe
  <1>2. CASE Lengthens
    BY <1>2, BearsFit, Locating DEF Lengthens, Safe, Bears
  <1>3. ASSUME NEW c, Only(c), Fresh(c) \/ \E i \in Indices, e \in Slots : Grain(c, i, e)
        PROVE  \A l \in Bears(j) : disk'[l] = disk[l] /\ media'[l] \subseteq media[l]
    <2>1. c \notin media[Gd(j)] \cup media[Rgd(j)]
      BY <1>3, NotOfTables
    <2>2. QED
      BY <1>3, <2>1, OnlySpares DEF Safe
  <1>4. ASSUME NEW w \in Writers, PayloadStore(w)
        PROVE  \A l \in Bears(j) : disk'[l] = disk[l] /\ media'[l] \subseteq media[l]
    <2>1. Grain(my[w].new, Here(w).gt, Here(w).gte) /\ Here(w).gt \in Indices /\ Here(w).gte \in Slots
      BY <1>4, HolderIs DEF PayloadStore, Told, ThroughKnows, Safe
    <2>2. Only(my[w].new)
      BY <1>4, PayloadIsOnly DEF Safe
    <2>3. QED
      BY <1>3, <2>1, <2>2
  <1>5. QED
    BY <1>1, <1>2, <1>3, <1>4

\* The steps that do not leave index j alone.
Attends(w, j) == /\ Here(w).gt = j
                 /\ \/ NamingStore(w) /\ gd' = gd /\ rgd' = rgd
                    \/ RgdFlush(w) \/ GdFlush(w)

LEMMA StepKeeps ==
    ASSUME Safe, Coherent, Told, Kept, [Next]_vars, ~Crash, NEW j \in Indices
    PROVE  Keeps(j) \/ \E w \in Writers : Attends(w, j)
  <1>1. ASSUME NEW w \in Writers, RgdFlush(w) \/ GdFlush(w), Here(w).gt # j PROVE Keeps(j)
    <2>1. /\ \A l \in Bears(j) : disk'[l] = disk[l] /\ media'[l] \subseteq media[l]
      <3>1. Settles
        BY <1>1, FlushSettles DEF RgdFlush, GdFlush, Safe
      <3>2. QED
        BY <3>1, KindSpares
    <2>2. gd'[j] = gd[j] /\ rgd'[j] = rgd[j]
      BY <1>1 DEF RgdFlush, GdFlush, Safe, Typed, MemoryOK
    <2>3. QED
      BY <2>1, <2>2 DEF Keeps, Shrinks
  <1>2. ASSUME gd' = gd, rgd' = rgd, ~\E w \in Writers : NamingStore(w) /\ Here(w).gt = j PROVE Keeps(j)
    <2>1. \A l \in Bears(j) : disk'[l] = disk[l] /\ media'[l] \subseteq media[l]
      <3>1. CASE \E w \in Writers : NamingStore(w)
        BY <1>2, <3>1, NamingSpares
      <3>2. CASE ~\E w \in Writers : NamingStore(w)
        BY <3>2, StepKinds, KindSpares DEF Kinds
      <3>3. QED
        BY <3>1, <3>2
    <2>2. QED
      BY <1>2, <2>1 DEF Keeps, Shrinks
  <1>3. QED
    BY <1>1, <1>2, DirectoriesMove DEF Attends

-----------------------------------------------------------------------------
(* The naming stores *)

Puts(l, v) == /\ disk'[l] = v /\ media'[l] = media[l] \cup {v}
              /\ \A m \in Locs \ {l} : disk'[m] = disk[m] /\ media'[m] = media[m]

\* What merge_primary_into_redundant leaves at e.
Filled(i, e) == IF disk[At(rgd[i], e)] = Unallocated THEN disk[At(gd[i], e)] ELSE disk[At(rgd[i], e)]

Fills(i) == /\ \A e \in Slots : LET l == At(rgd[i], e) IN
                  disk'[l] = Filled(i, e) /\ media'[l] = media[l] \cup {Filled(i, e)}
            /\ \A m \in Locs : m \notin Span(rgd[i], Slots) => disk'[m] = disk[m] /\ media'[m] = media[m]

LEMMA PutsIs ==
    ASSUME Typed, NEW f, DevWriteAll(f), NEW l \in Locs, DOMAIN f = {l}, l # Header, Fits(l, f[l])
    PROVE  Puts(l, f[l])
  BY WriteIs DEF Typed, Puts

\* The redundant directory entry in memory is a cell that the medium names.
LEMMA TwinIs ==
    ASSUME Safe, Coherent, Kept, NEW w \in Writers, pc[w] \in {"mergeWrite", "entryRedundant"}
    PROVE  LET i == Here(w).gt IN
           HasRgd /\ gd[i] # Unallocated /\ rgd[i] # Unallocated /\ media[Rgd(i)] = {rgd[i]} /\ rgd[i] \in Cells
  <1>1. PICK i, e, n, t : i = Here(w).gt /\ e = Here(w).gte /\ n = my[w].new /\ t = my[w].table
    OBVIOUS
  <1>2. pc[w] \in UsePlaces /\ i \in Indices
    BY <1>1, HolderIs, PlacesAre DEF Safe
  <1>3. gd[i] # Unallocated
    BY <1>1, <1>2 DEF Coherent, KnowsTable, Knows
  <1>4. HasRgd /\ rgd[i] # Unallocated
    BY <1>1 DEF Kept, Tending, Tends, GrainPlaces, EntryPlaces
  <1>5. media[Rgd(i)] = {rgd[i]}
    BY <1>2, <1>3, <1>4 DEF Kept, Held
  <1>6. QED
    BY <1>1, <1>2, <1>3, <1>4, <1>5, DirectoriesName DEF Safe, Typed

LEMMA MergeIs ==
    ASSUME Safe, Coherent, Kept, NEW w \in Writers, pc[w] = "mergeWrite", DevWriteAll(Stores(w))
    PROVE  Fills(Here(w).gt)
  <1>1. PICK i, t : i = Here(w).gt /\ t = my[w].table
    OBVIOUS
  <1>2. t = gd[i] /\ rgd[i] \in Cells
    BY <1>1, PlacesAre, TwinIs DEF Coherent, KnowsTable, Knows
  <1>3. DOMAIN Stores(w) = Span(rgd[i], Slots)
    BY <1>1, StoredIs
  <1>4. \A l \in DOMAIN Stores(w) : Stores(w)[l] = MergedEntry(w, l[3])
    <2>1. Stores(w) = [l \in Span(rgd[i], Slots) |-> MergedEntry(w, l[3])]
      BY <1>1 DEF Stores, Span
    <2>2. QED
      BY ONLY <2>1
  <1>5. \A e \in Slots : MergedEntry(w, e) = Filled(i, e)
    BY <1>1, <1>2 DEF MergedEntry, Filled
  <1>6. \A l \in Locs : IF l \in DOMAIN Stores(w)
                        THEN disk'[l] = Stores(w)[l] /\ media'[l] = media[l] \cup {Stores(w)[l]}
                        ELSE disk'[l] = disk[l] /\ media'[l] = media[l]
    BY StoresFit, WriteIs, AfterStoreIs DEF Safe, Typed
  <1>7. ASSUME NEW e \in Slots
        PROVE  /\ disk'[At(rgd[i], e)] = Filled(i, e)
               /\ media'[At(rgd[i], e)] = media[At(rgd[i], e)] \cup {Filled(i, e)}
    <2>1. At(rgd[i], e) \in Locs /\ At(rgd[i], e) \in DOMAIN Stores(w)
      BY <1>2, <1>3, Locating DEF Span
    <2>2. At(rgd[i], e)[3] = e
      BY DEF At
    <2>3. QED
      BY <1>4, <1>5, <1>6, <2>1, <2>2
  <1>8. QED
    BY <1>1, <1>3, <1>6, <1>7 DEF Fills

LEMMA NamingIs ==
    ASSUME Safe, Coherent, Kept, NEW w \in Writers, NamingStore(w)
    PROVE  LET i == Here(w).gt
               e == Here(w).gte
           IN /\ pc[w] = "mergeWrite" => Fills(i)
              /\ pc[w] = "rgdWrite" => Puts(Rgd(i), my[w].new)
              /\ pc[w] = "gdWrite" => Puts(Gd(i), my[w].table)
              /\ pc[w] = "entryRedundant" => Puts(At(rgd[i], e), my[w].new)
              /\ pc[w] = "entryPrimary" => Puts(At(gd[i], e), my[w].new)
  <1>1. PICK i, e, n, t : i = Here(w).gt /\ e = Here(w).gte /\ n = my[w].new /\ t = my[w].table
    OBVIOUS
  <1>2. /\ pc[w] \in NamingPlaces /\ DevWriteAll(Stores(w)) /\ i \in Indices /\ e \in Slots /\ Typed
        /\ pc[w] \in DOMAIN AfterStore
    BY <1>1, HolderIs, AfterStoreIs DEF NamingStore, NamingPlaces, Safe
  <1>3. pc[w] = "mergeWrite" => Fills(i)
    BY <1>1, <1>2, MergeIs
  <1>4. ASSUME NEW l \in Locs, DOMAIN Stores(w) = {l} PROVE Puts(l, Stores(w)[l])
    BY <1>2, <1>4, StoresFit, PutsIs
  <1>5. pc[w] = "rgdWrite" => Puts(Rgd(i), n)
    BY <1>1, <1>2, <1>4, StoredIs, Locating
  <1>6. pc[w] = "gdWrite" => Puts(Gd(i), t)
    BY <1>1, <1>2, <1>4, StoredIs, Locating
  <1>7. ASSUME pc[w] = "entryRedundant" PROVE Puts(At(rgd[i], e), n)
    <2>1. At(rgd[i], e) \in Locs
      BY <1>1, <1>2, <1>7, TwinIs, Locating
    <2>2. QED
      BY <1>1, <1>4, <1>7, <2>1, StoredIs
  <1>8. ASSUME pc[w] = "entryPrimary" PROVE Puts(At(gd[i], e), n)
    <2>1. t = gd[i] /\ gd[i] # Unallocated
      BY <1>1, <1>8, PlacesAre DEF Coherent, KnowsTable, Knows
    <2>2. At(gd[i], e) \in Locs
      BY <1>2, <2>1, TablesAre, Locating DEF Coherent
    <2>3. QED
      <3>1. DOMAIN Stores(w) = {At(gd[i], e)} /\ Stores(w)[At(gd[i], e)] = n
        BY <1>1, <1>8, <2>1, StoredIs
      <3>2. QED
        BY <1>4, <2>2, <3>1
  <1>9. QED
    BY <1>1, <1>3, <1>5, <1>6, <1>7, <1>8

-----------------------------------------------------------------------------
(* What a naming store does to the index it is for *)

\* A new redundant table, or the seeded copy of the primary one, is named.
LEMMA RgdWriteHolds ==
    ASSUME Safe, Safe', Coherent, Kept, disk'[Header] = disk[Header], gd' = gd, rgd' = rgd,
           NEW w \in Writers, NamingStore(w), pc[w] = "rgdWrite", NEW i \in Indices, i = Here(w).gt
    PROVE  /\ Held(i)' /\ (EverCovers(i) => EverCovers(i)') /\ (Agrees(i) => Agrees(i)')
           /\ HasRgd /\ (Complete(i) => Complete(i)')
  <1>1. PICK n, t, u, e : n = my[w].new /\ t = my[w].table /\ u = my[w].purpose /\ e = Here(w).gte
    OBVIOUS
  <1>2. Puts(Rgd(i), n)
    BY <1>1, NamingIs
  <1>3. /\ media'[Rgd(i)] = media[Rgd(i)] \cup {n} /\ media'[Gd(i)] = media[Gd(i)]
        /\ \A c \in Cells, f \in Slots : disk'[At(c, f)] = disk[At(c, f)] /\ media'[At(c, f)] = media[At(c, f)]
    BY <1>2, Locating DEF Puts
  <1>4. media[Gd(i)] \subseteq {Unallocated} \cup Cells /\ media[Rgd(i)] \subseteq {Unallocated} \cup Cells
    BY DirectoriesName DEF Safe, Typed
  <1>5. n \in Cells /\ n # Unallocated /\ u \in {"twin", "seed"}
    BY <1>1, HolderIs, CellsAre DEF Safe, WriterOK, NewPlaces, RgdPlaces
  <1>6. HasRgd /\ HasRgd' = HasRgd /\ \A x : NamesGrain(x)' <=> NamesGrain(x)
    BY <1>1, <1>5, PlacesAre, NamesKept DEF Kept, Tending, Tends, HasRgd
  <1>7. CASE u = "twin"
    <2>1. gd[i] = Unallocated
      BY <1>1, <1>7, PlacesAre DEF Coherent, KnowsTable, Knows
    <2>2. \A c \in media[Gd(i)] \ {Unallocated}, f \in Slots : media[At(c, f)] = {Unallocated}
      BY <2>1 DEF Kept, Held
    <2>3. \A c \in media'[Gd(i)] \ {Unallocated}, f \in Slots : media'[At(c, f)] = {Unallocated}
      BY <1>3, <1>4, <2>2
    <2>4. Held(i)'
      BY <2>1, <2>3 DEF Held
    <2>5. \A p : p = Unallocated => ~NamesGrain(p)
      BY CellsAre
    <2>6. EverCovers(i) => EverCovers(i)'
      <3>1. SUFFICES ASSUME EverCovers(i), media'[Gd(i)] \ {Unallocated} # {}
                     PROVE  \A r \in media'[Rgd(i)] : r # Unallocated
        BY <1>6, <2>3, <2>5 DEF EverCovers
      <3>2. QED
        BY <1>3, <1>5, <3>1 DEF EverCovers
    <2>7. Agrees(i)'
      BY <1>6, <2>3, <2>5 DEF Agrees
    <2>8. ~Complete(i)
      BY <2>1 DEF Complete
    <2>9. QED
      BY <1>6, <2>4, <2>6, <2>7, <2>8
  <1>8. CASE u = "seed"
    <2>1. t = gd[i] /\ gd[i] # Unallocated /\ gd[i] \in Cells
      <3>1. t = gd[i] /\ gd[i] # Unallocated
        BY <1>1, <1>8, PlacesAre DEF Coherent, KnowsTable, Knows, Vacant
      <3>2. QED
        BY <3>1, TablesAre DEF Coherent, Safe
    <2>2. rgd[i] = Unallocated
      BY <1>1, <1>8, PlacesAre DEF Kept, Tending, Tends
    <2>3. \A f \in Slots : media[At(n, f)] = {disk[At(gd[i], f)]} /\ media[At(gd[i], f)] = {disk[At(gd[i], f)]}
      BY <1>1, <1>8 DEF Kept, Tending, Tends, RgdPlaces
    <2>4. media[Gd(i)] = {gd[i]}
      BY <2>1 DEF Kept, Held
    <2>5. Held(i)'
      <3>1. \A f \in Slots : \A x \in media'[At(gd[i], f)] : NamesGrain(x)' => x = disk'[At(gd[i], f)]
        BY <1>3, <2>1, <2>3
      <3>2. QED
        BY <1>3, <2>1, <2>2, <2>4, <3>1 DEF Held
    <2>6. \A f \in Slots : \A p \in media'[At(gd[i], f)], q \in media'[At(n, f)] : p = q
      BY <1>3, <1>5, <2>1, <2>3
    <2>7. ASSUME NEW r \in media'[Rgd(i)], r # n
          PROVE  r \in media[Rgd(i)] /\ \A f \in Slots : r # Unallocated => media'[At(r, f)] = media[At(r, f)]
      BY <1>3, <1>4, <2>7
    <2>8. \A f \in Slots : media'[At(gd[i], f)] = media[At(gd[i], f)]
      BY <1>3, <2>1
    <2>9. EverCovers(i) => EverCovers(i)'
      <3>1. SUFFICES ASSUME EverCovers(i), NEW r \in media'[Rgd(i)]
                     PROVE  /\ r # Unallocated
                            /\ \A f \in Slots : \A p \in media'[At(gd[i], f)], q \in media'[At(r, f)] :
                                  (NamesGrain(p) => q = p) /\ (p # Unallocated => q # Unallocated)
        BY <1>3, <1>6, <2>4 DEF EverCovers
      <3>2. CASE r = n
        BY <1>5, <2>6, <3>2
      <3>3. CASE r # n
        BY <2>1, <2>4, <2>7, <2>8, <3>1, <3>3 DEF EverCovers
      <3>4. QED
        BY <3>2, <3>3
    <2>10. Agrees(i) => Agrees(i)'
      <3>1. SUFFICES ASSUME Agrees(i), NEW r \in media'[Rgd(i)] \ {Unallocated}
                     PROVE  \A f \in Slots : \A p \in media'[At(gd[i], f)], q \in media'[At(r, f)] :
                                  NamesGrain(p) /\ q # Unallocated => q = p
        BY <1>3, <1>6, <2>4 DEF Agrees
      <3>2. CASE r = n
        BY <2>6, <3>2
      <3>3. CASE r # n
        BY <2>1, <2>4, <2>7, <2>8, <3>1, <3>3 DEF Agrees
      <3>4. QED
        BY <3>2, <3>3
    <2>11. ~Complete(i)
      BY <2>2 DEF Complete
    <2>12. QED
      BY <1>6, <2>5, <2>9, <2>10, <2>11
  <1>9. QED
    BY <1>5, <1>7, <1>8

\* A blank primary table is named, its twin being durable.
LEMMA GdWriteHolds ==
    ASSUME Safe, Coherent, Kept, disk'[Header] = disk[Header], gd' = gd, rgd' = rgd,
           NEW w \in Writers, NamingStore(w), pc[w] = "gdWrite", NEW i \in Indices, i = Here(w).gt
    PROVE  /\ Held(i)' /\ (HasRgd /\ EverCovers(i) => EverCovers(i)') /\ (Agrees(i) => Agrees(i)')
           /\ (Complete(i) => Complete(i)')
  <1>1. PICK t : t = my[w].table
    OBVIOUS
  <1>2. Puts(Gd(i), t)
    BY <1>1, NamingIs
  <1>3. /\ media'[Gd(i)] = media[Gd(i)] \cup {t} /\ media'[Rgd(i)] = media[Rgd(i)]
        /\ \A c \in Cells, f \in Slots : disk'[At(c, f)] = disk[At(c, f)] /\ media'[At(c, f)] = media[At(c, f)]
    BY <1>2, Locating DEF Puts
  <1>4. media[Gd(i)] \subseteq {Unallocated} \cup Cells /\ media[Rgd(i)] \subseteq {Unallocated} \cup Cells
    BY DirectoriesName DEF Safe, Typed
  <1>5. gd[i] = Unallocated
    BY PlacesAre DEF Coherent, KnowsTable, Knows
  <1>6. t \in Cells /\ \A f \in Slots : media[At(t, f)] = {Unallocated}
    BY <1>1 DEF Safe, Owns, Claims, Ready, Fresh
  <1>7. \A c \in media'[Gd(i)] \ {Unallocated}, f \in Slots : media'[At(c, f)] = {Unallocated}
    BY <1>3, <1>4, <1>5, <1>6 DEF Kept, Held
  <1>8. Held(i)'
    BY <1>5, <1>7 DEF Held
  <1>9. ~NamesGrain(Unallocated) /\ \A x : NamesGrain(x)' <=> NamesGrain(x)
    BY CellsAre, NamesKept
  <1>10. ASSUME HasRgd PROVE EverCovers(i)'
    <2>1. media'[Rgd(i)] = {rgd[i]} /\ rgd[i] # Unallocated
      BY <1>3, <1>10, PlacesAre DEF Kept, Tending, Tends
    <2>2. QED
      BY <1>7, <1>9, <2>1 DEF EverCovers
  <1>11. Agrees(i)'
    BY <1>7, <1>9 DEF Agrees
  <1>12. ~Complete(i)
    BY <1>5 DEF Complete
  <1>13. QED
    BY <1>8, <1>10, <1>11, <1>12

\* What a holder knows of its two tables once it has both.
LEMMA BothAre ==
    ASSUME Safe, Coherent, Kept, NEW w \in Writers,
           pc[w] \in {"mergeWrite", "mergeFlush", "grainSpace"} \cup GrainPlaces,
           NEW i, i = Here(w).gt
    PROVE  /\ i \in Indices /\ gd[i] # Unallocated /\ gd[i] \in Cells /\ media[Gd(i)] = {gd[i]}
           /\ ~NamesGrain(disk[At(gd[i], Here(w).gte)]) /\ my[w].table = gd[i]
           /\ HasRgd => /\ rgd[i] \in Cells /\ rgd[i] # Unallocated /\ media[Rgd(i)] = {rgd[i]}
                        /\ rgd[i] # gd[i]
  <1>1. pc[w] \in SeenPlaces /\ pc[w] \in UsePlaces /\ pc[w] # "idle"
    BY PlacesAre DEF SeenPlaces
  <1>2. i \in Indices
    BY <1>1, HolderIs DEF Safe
  <1>3. gd[i] # Unallocated /\ ~NamesGrain(disk[At(gd[i], Here(w).gte)]) /\ my[w].table = gd[i]
    BY <1>1 DEF Coherent, KnowsTable, Knows, Vacant
  <1>4. gd[i] \in Cells /\ gd[i] \in TableCells /\ media[Gd(i)] = {gd[i]}
    BY <1>2, <1>3, TablesAre DEF Coherent, Safe, Kept, Held
  <1>5. ASSUME HasRgd
        PROVE  rgd[i] \in Cells /\ rgd[i] # Unallocated /\ media[Rgd(i)] = {rgd[i]} /\ rgd[i] # gd[i]
    <2>1. rgd[i] # Unallocated
      BY <1>5 DEF Kept, Tending, Tends
    <2>2. media[Rgd(i)] = {rgd[i]}
      BY <1>2, <1>3, <1>5, <2>1 DEF Kept, Held
    <2>3. rgd[i] \in Cells
      BY <1>2, <2>1, <2>2, DirectoriesName DEF Safe, Typed
    <2>4. rgd[i] \notin TableCells
      BY <1>2 DEF Safe, Space
    <2>5. QED
      BY <1>4, <2>1, <2>2, <2>3, <2>4
  <1>6. QED
    BY <1>2, <1>3, <1>4, <1>5

LEMMA MergeHolds ==
    ASSUME Safe, Coherent, Kept, disk'[Header] = disk[Header], gd' = gd, rgd' = rgd,
           NEW w \in Writers, NamingStore(w), pc[w] = "mergeWrite", NEW i \in Indices, i = Here(w).gt
    PROVE  /\ Held(i)' /\ (EverCovers(i) => EverCovers(i)') /\ (Agrees(i) => Agrees(i)')
           /\ HasRgd /\ (Complete(i) => Complete(i)')
  <1>1. PICK g, r : g = gd[i] /\ r = rgd[i]
    OBVIOUS
  <1>2. Fills(i)
    BY NamingIs
  <1>3. HasRgd
    BY TwinIs
  <1>4. g # Unallocated /\ g \in Cells /\ media[Gd(i)] = {g}
    BY <1>1, BothAre
  <1>5. r # Unallocated /\ r \in Cells /\ media[Rgd(i)] = {r} /\ r # g
    BY <1>1, <1>3, BothAre
  <1>6. \A f \in Slots : /\ disk'[At(r, f)] = Filled(i, f)
                         /\ media'[At(r, f)] = media[At(r, f)] \cup {Filled(i, f)}
    BY <1>1, <1>2 DEF Fills
  <1>7. /\ media'[Gd(i)] = media[Gd(i)] /\ media'[Rgd(i)] = media[Rgd(i)]
        /\ \A f \in Slots : disk'[At(g, f)] = disk[At(g, f)] /\ media'[At(g, f)] = media[At(g, f)]
    BY <1>1, <1>2, <1>4, <1>5, Locating DEF Fills, Span
  <1>8. HasRgd' = HasRgd /\ \A x : NamesGrain(x)' <=> NamesGrain(x)
    BY NamesKept DEF HasRgd
  <1>9. \A f \in Slots : \A x \in media[At(g, f)] : NamesGrain(x) => x = disk[At(g, f)]
    BY <1>1, <1>4 DEF Kept, Held
  <1>10. Held(i)'
    BY <1>1, <1>4, <1>5, <1>7, <1>8, <1>9 DEF Held
  <1>11. \A f \in Slots : disk[At(g, f)] \in media[At(g, f)] /\ disk[At(r, f)] \in media[At(r, f)]
    BY <1>4, <1>5, Locating DEF Safe, Typed, DeviceOK
  <1>12. \A f \in Slots : Filled(i, f) = IF disk[At(r, f)] = Unallocated THEN disk[At(g, f)] ELSE disk[At(r, f)]
    BY <1>1 DEF Filled
  <1>13. ASSUME EverCovers(i) PROVE EverCovers(i)'
    <2>1. ASSUME NEW f \in Slots PROVE Filled(i, f) \in media[At(r, f)]
      <3>1. disk[At(g, f)] # Unallocated => disk[At(r, f)] # Unallocated
        BY <1>4, <1>5, <1>11, <1>13 DEF EverCovers
      <3>2. QED
        BY <1>11, <1>12, <3>1
    <2>2. ASSUME NEW f \in Slots PROVE media'[At(r, f)] = media[At(r, f)]
      <3>1. PICK x : x = Filled(i, f)
        OBVIOUS
      <3>2. x \in media[At(r, f)] /\ media'[At(r, f)] = media[At(r, f)] \cup {x}
        BY <1>6, <2>1, <3>1
      <3>3. QED
        BY <3>2
    <2>3. QED
      BY <1>4, <1>5, <1>7, <1>8, <1>13, <2>2 DEF EverCovers
  <1>14. ASSUME Agrees(i) PROVE Agrees(i)'
    <2>1. SUFFICES ASSUME NEW f \in Slots, NEW p \in media[At(g, f)], NEW q \in media'[At(r, f)],
                          NamesGrain(p), q # Unallocated
                   PROVE  q = p
      BY <1>4, <1>5, <1>7, <1>8 DEF Agrees
    <2>2. p = disk[At(g, f)]
      BY <1>9, <2>1
    <2>3. CASE q \in media[At(r, f)]
      BY <1>4, <1>5, <1>14, <2>1, <2>3 DEF Agrees
    <2>4. CASE q \notin media[At(r, f)]
      BY <1>6, <1>11, <1>12, <2>2, <2>4
    <2>5. QED
      BY <2>3, <2>4
  <1>15. ASSUME Complete(i) PROVE Complete(i)'
    BY <1>1, <1>6, <1>7, <1>12, <1>15 DEF Complete
  <1>16. QED
    BY <1>3, <1>10, <1>13, <1>14, <1>15

LEMMA TwinEntryHolds ==
    ASSUME Safe, Coherent, Kept, disk'[Header] = disk[Header], gd' = gd, rgd' = rgd,
           NEW w \in Writers, NamingStore(w), pc[w] = "entryRedundant", NEW i \in Indices, i = Here(w).gt
    PROVE  /\ Held(i)' /\ (EverCovers(i) => EverCovers(i)') /\ (Agrees(i) => Agrees(i)')
           /\ HasRgd /\ (Complete(i) => Complete(i)')
  <1>1. PICK g, r, e, n : g = gd[i] /\ r = rgd[i] /\ e = Here(w).gte /\ n = my[w].new
    OBVIOUS
  <1>2. Puts(At(r, e), n)
    BY <1>1, NamingIs
  <1>3. HasRgd
    BY TwinIs
  <1>4. pc[w] \in GrainPlaces /\ pc[w] \in EntryPlaces
    BY DEF GrainPlaces, EntryPlaces
  <1>5. g # Unallocated /\ g \in Cells /\ media[Gd(i)] = {g} /\ ~NamesGrain(disk[At(g, e)])
    BY <1>1, <1>4, BothAre
  <1>6. r # Unallocated /\ r \in Cells /\ media[Rgd(i)] = {r} /\ r # g
    BY <1>1, <1>3, <1>4, BothAre
  <1>7. n # Unallocated /\ e \in Slots
    BY <1>1, <1>4, HolderIs, CellsAre DEF Safe, WriterOK, NewPlaces
  <1>8. media[At(g, e)] = {disk[At(g, e)]}
    BY <1>1, <1>4 DEF Kept, Tending, Tends
  <1>9. /\ disk'[At(r, e)] = n /\ media'[At(r, e)] = media[At(r, e)] \cup {n}
        /\ \A f \in Slots \ {e} : disk'[At(r, f)] = disk[At(r, f)] /\ media'[At(r, f)] = media[At(r, f)]
        /\ media'[Gd(i)] = media[Gd(i)] /\ media'[Rgd(i)] = media[Rgd(i)]
        /\ \A f \in Slots : disk'[At(g, f)] = disk[At(g, f)] /\ media'[At(g, f)] = media[At(g, f)]
    BY <1>2, <1>5, <1>6, <1>7, Locating DEF Puts
  <1>10. HasRgd' = HasRgd /\ \A x : NamesGrain(x)' <=> NamesGrain(x)
    BY NamesKept DEF HasRgd
  <1>11. \A f \in Slots : \A x \in media[At(g, f)] : NamesGrain(x) => x = disk[At(g, f)]
    BY <1>1, <1>5 DEF Kept, Held
  <1>12. Held(i)'
    BY <1>1, <1>5, <1>6, <1>9, <1>10, <1>11 DEF Held
  <1>13. ASSUME EverCovers(i) PROVE EverCovers(i)'
    <2>1. SUFFICES ASSUME NEW f \in Slots, NEW p \in media[At(g, f)], NEW q \in media'[At(r, f)]
                   PROVE  (NamesGrain(p) => q = p) /\ (p # Unallocated => q # Unallocated)
      BY <1>5, <1>6, <1>9, <1>10 DEF EverCovers
    <2>2. CASE q \in media[At(r, f)]
      BY <1>5, <1>6, <1>13, <2>1, <2>2 DEF EverCovers
    <2>3. CASE q \notin media[At(r, f)]
      BY <1>5, <1>7, <1>8, <1>9, <2>1, <2>3
    <2>4. QED
      BY <2>2, <2>3
  <1>14. ASSUME Agrees(i) PROVE Agrees(i)'
    <2>1. SUFFICES ASSUME NEW f \in Slots, NEW p \in media[At(g, f)], NEW q \in media'[At(r, f)],
                          NamesGrain(p), q # Unallocated
                   PROVE  q = p
      BY <1>5, <1>6, <1>9, <1>10 DEF Agrees
    <2>2. q \in media[At(r, f)]
      BY <1>5, <1>8, <1>9, <2>1
    <2>3. QED
      BY <1>5, <1>6, <1>14, <2>1, <2>2 DEF Agrees
  <1>15. ASSUME Complete(i) PROVE Complete(i)'
    BY <1>1, <1>7, <1>9, <1>15 DEF Complete
  <1>16. QED
    BY <1>3, <1>12, <1>13, <1>14, <1>15

LEMMA PrimaryEntryHolds ==
    ASSUME Safe, Coherent, Kept, disk'[Header] = disk[Header], gd' = gd, rgd' = rgd,
           NEW w \in Writers, NamingStore(w), pc[w] = "entryPrimary", NEW i \in Indices, i = Here(w).gt
    PROVE  /\ Held(i)'
           /\ HasRgd => /\ EverCovers(i) => EverCovers(i)'
                        /\ Agrees(i) => Agrees(i)'
                        /\ Complete(i) => Complete(i)'
  <1>1. PICK g, r, e, n : g = gd[i] /\ r = rgd[i] /\ e = Here(w).gte /\ n = my[w].new
    OBVIOUS
  <1>2. Puts(At(g, e), n)
    BY <1>1, NamingIs
  <1>3. pc[w] \in GrainPlaces /\ pc[w] \in EntryPlaces
    BY DEF GrainPlaces, EntryPlaces
  <1>4. g # Unallocated /\ g \in Cells /\ media[Gd(i)] = {g} /\ ~NamesGrain(disk[At(g, e)])
    BY <1>1, <1>3, BothAre
  <1>5. n # Unallocated /\ e \in Slots
    BY <1>1, <1>3, HolderIs, CellsAre DEF Safe, WriterOK, NewPlaces
  <1>6. media[At(g, e)] = {disk[At(g, e)]}
    BY <1>1, <1>3 DEF Kept, Tending, Tends
  <1>7. /\ disk'[At(g, e)] = n /\ media'[At(g, e)] = {disk[At(g, e)], n}
        /\ \A f \in Slots \ {e} : disk'[At(g, f)] = disk[At(g, f)] /\ media'[At(g, f)] = media[At(g, f)]
        /\ media'[Gd(i)] = media[Gd(i)] /\ media'[Rgd(i)] = media[Rgd(i)]
    BY <1>2, <1>4, <1>5, <1>6, Locating DEF Puts
  <1>8. HasRgd' = HasRgd /\ \A x : NamesGrain(x)' <=> NamesGrain(x)
    BY NamesKept DEF HasRgd
  <1>9. \A f \in Slots : \A x \in media[At(g, f)] : NamesGrain(x) => x = disk[At(g, f)]
    BY <1>1, <1>4 DEF Kept, Held
  <1>10. \A f \in Slots : \A x \in media'[At(g, f)] : NamesGrain(x) => x = disk'[At(g, f)]
    BY <1>4, <1>7, <1>9
  <1>11. HasRgd /\ r # Unallocated => media'[Rgd(i)] = {r}
    BY <1>1, <1>4, <1>7 DEF Kept, Held
  <1>12. Held(i)'
    BY <1>1, <1>4, <1>7, <1>8, <1>10, <1>11 DEF Held
  <1>13. ASSUME HasRgd
         PROVE  /\ EverCovers(i) => EverCovers(i)'
                /\ Agrees(i) => Agrees(i)'
                /\ Complete(i) => Complete(i)'
    <2>1. r # Unallocated /\ r \in Cells /\ media[Rgd(i)] = {r} /\ r # g
      BY <1>1, <1>3, <1>13, BothAre
    <2>2. media[At(r, e)] = {n}
      BY <1>1, <1>13 DEF Kept, Tending, Tends
    <2>3. \A f \in Slots : disk'[At(r, f)] = disk[At(r, f)] /\ media'[At(r, f)] = media[At(r, f)]
      BY <1>2, <2>1, Locating DEF Puts
    <2>4. disk[At(r, e)] = n
      BY <1>5, <2>1, <2>2, Locating DEF Safe, Typed, DeviceOK
    <2>5. ASSUME EverCovers(i) PROVE EverCovers(i)'
      <3>1. SUFFICES ASSUME NEW f \in Slots, NEW p \in media'[At(g, f)], NEW q \in media[At(r, f)]
                     PROVE  (NamesGrain(p) => q = p) /\ (p # Unallocated => q # Unallocated)
        BY <1>4, <1>7, <1>8, <2>1, <2>3 DEF EverCovers
      <3>2. CASE f = e
        BY <1>4, <1>5, <1>7, <2>2, <3>1, <3>2
      <3>3. CASE f # e
        BY <1>4, <1>7, <2>1, <2>5, <3>1, <3>3 DEF EverCovers
      <3>4. QED
        BY <3>2, <3>3
    <2>6. ASSUME Agrees(i) PROVE Agrees(i)'
      <3>1. SUFFICES ASSUME NEW f \in Slots, NEW p \in media'[At(g, f)], NEW q \in media[At(r, f)],
                            NamesGrain(p), q # Unallocated
                     PROVE  q = p
        BY <1>4, <1>7, <1>8, <2>1, <2>3 DEF Agrees
      <3>2. CASE f = e
        BY <1>4, <1>5, <1>7, <2>2, <3>1, <3>2
      <3>3. CASE f # e
        BY <1>4, <1>7, <2>1, <2>6, <3>1, <3>3 DEF Agrees
      <3>4. QED
        BY <3>2, <3>3
    <2>7. ASSUME Complete(i) PROVE Complete(i)'
      BY <1>1, <1>5, <1>7, <2>3, <2>4, <2>7 DEF Complete
    <2>8. QED
      BY <2>5, <2>6, <2>7
  <1>14. QED
    BY <1>12, <1>13

-----------------------------------------------------------------------------
(* What a flush that names a table in memory does to its index *)

LEMMA FlushShrinks ==
    ASSUME Safe, DevFlush, NEW i \in Indices
    PROVE  /\ (EverCovers(i) => EverCovers(i)') /\ (Agrees(i) => Agrees(i)')
           /\ disk' = disk /\ \A l \in Locs : media'[l] = {disk[l]}
  <1>1. Typed /\ disk' = disk /\ \A l \in Locs : media'[l] = {disk[l]}
    BY FlushIs DEF Safe, Typed
  <1>2. Settles
    BY <1>1, FlushSettles
  <1>3. Shrinks(i)
    BY <1>1, <1>2, BearsFit DEF Settles, Shrinks
  <1>4. QED
    BY <1>1, <1>3, ShrinksCovers

\* The twin of a new table, or the seeded copy, is in the directory for good.
LEMMA RgdFlushHolds ==
    ASSUME Safe, Safe', Coherent, Kept, NEW w \in Writers, RgdFlush(w), NEW i \in Indices, i = Here(w).gt
    PROVE  /\ Held(i)' /\ (EverCovers(i) => EverCovers(i)') /\ (Agrees(i) => Agrees(i)')
           /\ HasRgd /\ (Complete(i) => Complete(i)') /\ (my[w].purpose = "seed" => Complete(i)')
           /\ rgd'[i] = my[w].new /\ media'[Rgd(i)] = {my[w].new} /\ my[w].new # Unallocated
  <1>1. PICK n, u, g : n = my[w].new /\ u = my[w].purpose /\ g = gd[i]
    OBVIOUS
  <1>2. Typed /\ pc[w] = "rgdFlush" /\ DevFlush /\ gd' = gd /\ rgd' = [rgd EXCEPT ![i] = n]
    BY <1>1 DEF RgdFlush, Safe
  <1>3. pc[w] \in RgdPlaces /\ pc[w] \in MakePlaces /\ pc[w] \in NewPlaces /\ pc[w] # "idle"
    BY <1>2 DEF RgdPlaces, MakePlaces, NewPlaces
  <1>4. disk' = disk /\ \A l \in Locs : media'[l] = {disk[l]}
    BY <1>2, FlushShrinks
  <1>5. WriterOK(w)
    BY <1>2, <1>3, HolderIs
  <1>6. n \in Cells /\ n # Unallocated /\ u \in {"twin", "seed"}
    BY <1>1, <1>3, <1>5, CellsAre DEF WriterOK
  <1>7. disk[Rgd(i)] = n
    BY <1>1, <1>2 DEF Safe, Owns, Claims
  <1>8. rgd'[i] = n /\ media'[Rgd(i)] = {n}
    BY <1>2, <1>4, <1>7, Locating DEF Typed, MemoryOK
  <1>9. HasRgd
    BY <1>1, <1>3, <1>6 DEF Kept, Tending, Tends
  <1>10. HasRgd' = HasRgd /\ \A x : NamesGrain(x)' <=> NamesGrain(x)
    BY <1>4, NamesKept DEF HasRgd
  <1>11. g # Unallocated => g \in Cells /\ disk[Gd(i)] = g
    BY <1>1, <1>2, TablesAre DEF Coherent
  <1>12. Held(i)'
    <2>1. g # Unallocated => media'[Gd(i)] = {g}
      BY <1>4, <1>11, Locating
    <2>2. g # Unallocated =>
             \A e \in Slots : \A x \in media'[At(g, e)] : x = disk'[At(g, e)]
      BY <1>4, <1>11, Locating
    <2>3. ASSUME g = Unallocated, NEW t \in media'[Gd(i)] \ {Unallocated}, NEW e \in Slots
          PROVE  media'[At(t, e)] = {Unallocated}
      <3>1. t = disk[Gd(i)] /\ t \in media[Gd(i)]
        BY <1>2, <1>4, <2>3, Locating DEF Typed, DeviceOK
      <3>2. At(t, e) \in Locs
        BY <1>2, <3>1, <2>3, DirectoriesName, Locating DEF Typed
      <3>3. Held(i) /\ gd[i] = Unallocated /\ t \in media[Gd(i)] \ {Unallocated}
        BY <1>1, <2>3, <3>1 DEF Kept
      <3>4. media[At(t, e)] = {Unallocated}
        BY <3>3 DEF Held
      <3>5. QED
        BY <1>2, <1>4, <3>2, <3>4 DEF Typed, DeviceOK
    <2>4. QED
      BY <1>1, <1>2, <1>8, <2>1, <2>2, <2>3 DEF Held
  <1>13. u = "seed" => Complete(i)'
    <2>1. SUFFICES ASSUME u = "seed" PROVE Complete(i)'
      OBVIOUS
    <2>2. g # Unallocated
      BY <1>1, <1>3, <2>1 DEF Coherent, KnowsTable, Knows, Vacant
    <2>3. \A f \in Slots : media[At(n, f)] = {disk[At(g, f)]}
      BY <1>1, <1>3, <2>1 DEF Kept, Tending, Tends
    <2>4. \A f \in Slots : disk[At(n, f)] = disk[At(g, f)]
      BY <1>2, <1>6, <2>3, Locating DEF Typed, DeviceOK
    <2>5. QED
      BY <1>1, <1>2, <1>4, <1>6, <1>8, <2>2, <2>4 DEF Complete
  <1>14. ~Complete(i)
    <2>1. CASE u = "seed"
      BY <1>1, <1>3, <2>1 DEF Kept, Tending, Tends, Complete
    <2>2. CASE u = "twin"
      BY <1>1, <1>3, <2>2 DEF Coherent, KnowsTable, Knows, Complete
    <2>3. QED
      BY <1>6, <2>1, <2>2
  <1>15. QED
    BY <1>1, <1>2, <1>6, <1>8, <1>9, <1>12, <1>13, <1>14, FlushShrinks

\* The new primary table is in the directory for good, and its twin was before.
LEMMA GdFlushHolds ==
    ASSUME Safe, Coherent, Kept, NEW w \in Writers, GdFlush(w), NEW i \in Indices, i = Here(w).gt
    PROVE  /\ Held(i)' /\ (EverCovers(i) => EverCovers(i)') /\ (Agrees(i) => Agrees(i)')
           /\ (Complete(i) => Complete(i)')
  <1>1. PICK t : t = my[w].table
    OBVIOUS
  <1>2. Typed /\ pc[w] = "gdFlush" /\ DevFlush /\ rgd' = rgd /\ gd' = [gd EXCEPT ![i] = t]
    BY <1>1 DEF GdFlush, Safe
  <1>3. pc[w] \in GdPlaces /\ pc[w] # "idle"
    BY <1>2 DEF GdPlaces
  <1>4. disk' = disk /\ \A l \in Locs : media'[l] = {disk[l]}
    BY <1>2, FlushShrinks
  <1>5. WriterOK(w) /\ HasTwin(w)
    BY <1>2, <1>3, HolderIs DEF HasTwin
  <1>6. t \in Cells /\ t # Unallocated
    BY <1>1, <1>5, CellsAre DEF WriterOK
  <1>7. disk[Gd(i)] = t
    BY <1>1, <1>2 DEF Safe, Owns, Claims
  <1>8. gd'[i] = t /\ media'[Gd(i)] = {t}
    BY <1>2, <1>4, <1>7, Locating DEF Typed, MemoryOK
  <1>9. HasRgd' = HasRgd
    BY <1>4 DEF HasRgd
  <1>10. HasRgd => rgd[i] # Unallocated /\ media'[Rgd(i)] = {rgd[i]}
    <2>1. HasRgd => rgd[i] # Unallocated /\ media[Rgd(i)] = {rgd[i]}
      BY <1>3 DEF Kept, Tending, Tends
    <2>2. disk[Rgd(i)] \in media[Rgd(i)]
      BY <1>2, Locating DEF Typed, DeviceOK
    <2>3. QED
      BY <1>4, <2>1, <2>2, Locating
  <1>11. \A e \in Slots : media'[At(t, e)] = {disk'[At(t, e)]}
    BY <1>4, <1>6, Locating
  <1>12. Held(i)'
    BY <1>2, <1>6, <1>8, <1>9, <1>10, <1>11 DEF Held
  <1>13. ~Complete(i)
    BY <1>3 DEF Coherent, KnowsTable, Knows, Complete
  <1>14. QED
    BY <1>2, <1>12, <1>13, FlushShrinks

-----------------------------------------------------------------------------
(* What a thread tends to *)

\* The places that tend to something.
LEMMA TendsNothing ==
    ASSUME NEW p, p \notin HeldPlaces \/ p \in {"invalidate", "gt2", "refresh"},
           NEW t, NEW n, NEW u, NEW i, NEW e
    PROVE  Tends(p, t, n, u, i, e)'
  BY DEF Tends, HeldPlaces, MakePlaces, TablePlaces, SeedPlaces, RgdPlaces, GdPlaces, FoundPlaces,
         EntryPlaces, GrainPlaces

LEMMA TendsBy ==
    ASSUME NEW w, NEW p, NEW t, NEW n, NEW u, NEW i, NEW e, pc'[w] = p, my'[w].table = t, my'[w].new = n,
           my'[w].purpose = u, Here(w).gt' = i, Here(w).gte' = e, Tends(p, t, n, u, i, e)'
    PROVE  Tending(w)'
  BY DEF Tending

\* A step within a chunk.
LEMMA TendsAt ==
    ASSUME Typed, NEW w \in Writers, NEW to, Goto(w, to), NEW t, NEW n, NEW u,
           Becomes(w, my[w].at, my[w].end, t, n, u), NEW i, i = Here(w).gt, NEW e, e = Here(w).gte,
           Tends(to, t, n, u, i, e)'
    PROVE  Tending(w)'
  <1>1. my'[w].at = my[w].at /\ my'[w].end = my[w].end /\ my'[w].table = t /\ my'[w].new = n
        /\ my'[w].purpose = u
    BY DEF Becomes
  <1>2. Here(w)' = Here(w)
    BY <1>1, HereKept
  <1>3. pc'[w] = to
    BY DEF Goto, Typed, ThreadsOK
  <1>4. QED
    BY <1>1, <1>2, <1>3, TendsBy

\* A step to a place that tends to nothing.
LEMMA TendsOver ==
    ASSUME NEW w, pc'[w] \notin HeldPlaces \/ pc'[w] \in {"invalidate", "gt2", "refresh"}
    PROVE  Tending(w)'
  BY TendsNothing DEF Tending

\* Away from its locations nothing of a thread's affairs changes.
LEMMA TendsSame ==
    ASSUME NEW p, NEW t, NEW n, NEW u, NEW i, NEW e \in Slots, NEW g, g = gd[i], NEW r, r = rgd[i],
           gd'[i] = gd[i], rgd'[i] = rgd[i], HasRgd' = HasRgd,
           HasRgd => media'[Rgd(i)] = media[Rgd(i)],
           p \in GrainPlaces \cup {"mergeFlush"} \/ (p \in SeedPlaces \cup RgdPlaces /\ u = "seed") =>
              \A f \in Slots : disk'[At(g, f)] = disk[At(g, f)] /\ media'[At(g, f)] = media[At(g, f)],
           p \in SeedPlaces \cup RgdPlaces /\ u = "seed" =>
              \A f \in Slots : disk'[At(n, f)] = disk[At(n, f)] /\ media'[At(n, f)] = media[At(n, f)],
           p \in GrainPlaces \cup {"mergeFlush"} /\ HasRgd =>
              \A f \in Slots : disk'[At(r, f)] = disk[At(r, f)] /\ media'[At(r, f)] = media[At(r, f)],
           p \in SeedPlaces => u = "seed",
           Tends(p, t, n, u, i, e)
    PROVE  Tends(p, t, n, u, i, e)'
  <1>1. /\ p = "seedFlush" => p \in SeedPlaces
        /\ p \in EntryPlaces => p \in GrainPlaces
        /\ p \in {"entryFlush", "entryPrimary"} => p \in GrainPlaces
    BY DEF SeedPlaces, EntryPlaces, GrainPlaces
  <1>2. p = "seedFlush" => \A f \in Slots : disk'[At(n, f)] = disk'[At(g, f)]
    BY <1>1 DEF Tends
  <1>3. p \in RgdPlaces /\ u = "seed" =>
           \A f \in Slots : media'[At(n, f)] = {disk'[At(g, f)]} /\ media'[At(g, f)] = {disk'[At(g, f)]}
    BY DEF Tends
  <1>4. p \in EntryPlaces => media'[At(g, e)] = {disk'[At(g, e)]}
    BY <1>1 DEF Tends
  <1>5. p = "entryFlush" => HasRgd
    BY DEF Tends
  <1>6. /\ p = "entryFlush" => disk'[At(r, e)] = n
        /\ p = "entryPrimary" /\ HasRgd => media'[At(r, e)] = {n}
    BY <1>1, <1>5 DEF Tends
  <1>7. p = "mergeFlush" =>
           \A f \in Slots : disk'[At(g, f)] # Unallocated => disk'[At(r, f)] # Unallocated
    BY DEF Tends
  <1>8. /\ p \in MakePlaces /\ u \in {"twin", "seed"} => HasRgd
        /\ p \in {"redundant", "mergeWrite", "mergeFlush", "entryRedundant", "entryFlush"} => HasRgd
        /\ p \in MakePlaces /\ u = "seed" => rgd[i] = Unallocated
        /\ p \in GdPlaces /\ HasRgd => rgd[i] # Unallocated /\ media'[Rgd(i)] = {rgd[i]}
        /\ p \in {"mergeWrite", "mergeFlush", "grainSpace"} \cup GrainPlaces /\ HasRgd => rgd[i] # Unallocated
    BY DEF Tends
  <1>9. QED
    BY <1>2, <1>3, <1>4, <1>6, <1>7, <1>8 DEF Tends

\* A thread without the allocation lock changes no table.
LEMMA FreeMoves ==
    ASSUME Typed, NEW w \in Writers, CallWrite(w) \/ WriterStep(w), pc[w] \notin HeldPlaces
    PROVE  gd' = gd /\ rgd' = rgd /\ (UNCHANGED devVars \/ PayloadStore(w))
  <1>1. /\ {"tableSpace", "tableFlush", "rgdFlush", "gdFlush", "invalidate", "gt2", "redundant",
             "mergeFlush", "grainSpace", "refresh"} \subseteq HeldPlaces
        /\ DOMAIN AfterStore \subseteq HeldPlaces /\ DOMAIN AfterFlush \subseteq HeldPlaces
    BY SMTT(30), AfterStoreIs, AfterFlushIs, PlacesAre DEF TablePlaces, SeedPlaces, RgdPlaces
  <1>2. CASE CallWrite(w) \/ BackingTable(w) \/ BackingGrain(w) \/ Allocate(w) \/ Refused(w)
    BY <1>2 DEF CallWrite, BackingTable, BackingGrain, Allocate, Refused, memory
  <1>3. CASE Through(w)
    BY <1>3 DEF Through, PayloadStore, memory
  <1>4. CASE WriteFails(w)
    <2>1. pc[w] = "through" /\ ValidGrain(my[w].new) /\ pc[w] \notin DOMAIN AfterStore
      BY <1>1, <1>4 DEF WriteFails
    <2>2. gd' = gd /\ rgd' = rgd
      BY <1>4 DEF WriteFails, memory
    <2>3. UNCHANGED devVars \/ DevWriteAll(Payload(w))
      BY <1>4, <2>1 DEF WriteFails
    <2>4. QED
      BY <2>1, <2>2, <2>3 DEF PayloadStore
  <1>5. ~TableSpace(w) /\ ~TableFlush(w) /\ ~RgdFlush(w) /\ ~GdFlush(w) /\ ~Invalidate(w)
        /\ ~LookAgain(w) /\ ~Redundant(w) /\ ~MergeFlush(w) /\ ~GrainSpace(w) /\ ~Store(w)
        /\ ~Flushed(w) /\ ~Refresh(w) /\ ~FlushFails(w)
    BY <1>1 DEF TableSpace, TableFlush, RgdFlush, GdFlush, Invalidate, LookAgain, Redundant, MergeFlush,
                GrainSpace, Store, Flushed, Refresh, FlushFails
  <1>6. QED
    BY <1>2, <1>3, <1>4, <1>5 DEF WriterStep

LEMMA FreshIsNoGrain ==
    ASSUME Safe, Coherent, NEW n, Fresh(n), NEW c, NEW i \in Indices, NEW e \in Slots, Grain(c, i, e)
    PROVE  n # c
  <1>1. PICK g : g = gd[i]
    OBVIOUS
  <1>2. g \in Cells /\ g \in TableCells /\ c = disk[At(g, e)] /\ NamesGrain(c)
    BY <1>1, TablesAre DEF Grain, Safe, Coherent
  <1>3. At(g, e) \in PointerPlaces /\ c \in media[At(g, e)]
    BY <1>2, Locating DEF PointerPlaces, Safe, Typed, DeviceOK
  <1>4. QED
    BY <1>2, <1>3 DEF Fresh

\* What the holder tends to is as it was after a step of another thread.
LEMMA HolderTends ==
    ASSUME Safe, Coherent, Told, Kept, disk'[Header] = disk[Header], gd' = gd, rgd' = rgd,
           UNCHANGED devVars \/ \E w \in Writers : PayloadStore(w),
           NEW q \in Writers, pc[q] \in HeldPlaces, pc'[q] = pc[q], my'[q] = my[q]
    PROVE  Tending(q)'
  <1>1. PICK p, t, n, u, i, e, g, r :
           /\ p = pc[q] /\ t = my[q].table /\ n = my[q].new /\ u = my[q].purpose
           /\ i = Here(q).gt /\ e = Here(q).gte /\ g = gd[Here(q).gt] /\ r = rgd[Here(q).gt]
    OBVIOUS
  <1>2. Here(q)' = Here(q)
    BY HereKept
  <1>3. SUFFICES Tends(p, t, n, u, i, e)'
    BY <1>1, <1>2, TendsBy
  <1>4. Typed /\ p # "idle" /\ p \in HeldPlaces
    BY <1>1, PlacesAre DEF Safe, UsePlaces, HeldPlaces, TablePlaces, SeedPlaces, RgdPlaces, GdPlaces, FoundPlaces,
            GrainPlaces, EntryPlaces
  <1>5. i \in Indices /\ e \in Slots /\ WriterOK(q)
    BY <1>1, <1>4, HolderIs
  <1>6. Tends(p, t, n, u, i, e) /\ HasRgd' = HasRgd /\ g = gd[i] /\ r = rgd[i]
    BY <1>1 DEF Kept, Tending, HasRgd
  <1>7. p \in SeedPlaces => u = "seed"
    BY <1>1, <1>5 DEF WriterOK
  <1>8. CASE UNCHANGED devVars
    <2>1. disk' = disk /\ media' = media
      BY <1>8 DEF devVars
    <2>2. QED
      BY <1>5, <1>6, <1>7, <2>1, TendsSame
  <1>9. ASSUME NEW w \in Writers, PayloadStore(w) PROVE Tends(p, t, n, u, i, e)'
    <2>1. PICK c, k, f : c = my[w].new /\ k = Here(w).gt /\ f = Here(w).gte
      OBVIOUS
    <2>2. Only(c)
      BY <1>4, <1>9, <2>1, PayloadIsOnly
    <2>3. k \in Indices /\ f \in Slots /\ Grain(c, k, f)
      BY <1>4, <1>9, <2>1, HolderIs DEF PayloadStore, Told, ThroughKnows
    <2>4. c \notin media[Gd(i)] \cup media[Rgd(i)]
      BY <1>5, <2>3, NotOfTables
    <2>5. ASSUME NEW d \in Cells, d # c, NEW h \in Slots
          PROVE  disk'[At(d, h)] = disk[At(d, h)] /\ media'[At(d, h)] = media[At(d, h)]
      BY <2>2, <2>5, Locating DEF Only
    <2>6. media'[Rgd(i)] = media[Rgd(i)]
      BY <1>5, <2>2, Locating DEF Only
    <2>7. g # Unallocated => g \in Cells /\ g \in media[Gd(i)]
      BY <1>4, <1>5, <1>6, TablesAre, Locating DEF Coherent, Typed, DeviceOK
    <2>8. p \in GrainPlaces \cup {"mergeFlush"} \/ (p \in SeedPlaces \cup RgdPlaces /\ u = "seed") => g # Unallocated
      <3>1. p \in GrainPlaces \cup {"mergeFlush"} => p \in SeenPlaces
        BY DEF SeenPlaces
      <3>2. p \in SeedPlaces \cup RgdPlaces => p \in MakePlaces
        BY DEF MakePlaces
      <3>3. QED
        BY <1>1, <1>6, <3>1, <3>2 DEF Coherent, KnowsTable, Knows, Vacant
    <2>9. p \in SeedPlaces \cup RgdPlaces /\ u = "seed" => n \in Cells /\ n # c
      <3>1. SUFFICES ASSUME p \in SeedPlaces \cup RgdPlaces PROVE n \in Cells /\ n # c
        OBVIOUS
      <3>2. n \in Cells
        BY <1>1, <1>5, <3>1 DEF WriterOK, NewPlaces
      <3>3. CASE p = "rgdFlush"
        <4>1. disk[Rgd(i)] = n
          BY <1>1, <3>3 DEF Safe, Owns, Claims
        <4>2. disk[Rgd(i)] \in media[Rgd(i)]
          BY <1>4, <1>5, Locating DEF Typed, DeviceOK
        <4>3. QED
          BY <2>4, <3>2, <4>1, <4>2
      <3>4. CASE p # "rgdFlush"
        <4>1. Fresh(n)
          BY <1>1, <3>1, <3>4 DEF Safe, Owns, Claims, RgdPlaces
        <4>2. QED
          BY <2>3, <3>2, <4>1, FreshIsNoGrain
      <3>5. QED
        BY <3>3, <3>4
    <2>10. p \in GrainPlaces \cup {"mergeFlush"} /\ HasRgd => r \in Cells /\ r # c
      <3>1. SUFFICES ASSUME p \in GrainPlaces \cup {"mergeFlush"}, HasRgd PROVE r \in Cells /\ r # c
        OBVIOUS
      <3>2. pc[q] \in {"mergeWrite", "mergeFlush", "grainSpace"} \cup GrainPlaces
        BY <1>1, <3>1
      <3>3. r \in Cells /\ media[Rgd(i)] = {r}
        BY <1>1, <3>1, <3>2, BothAre
      <3>4. QED
        BY <2>4, <3>3
    <2>11. QED
      BY <1>5, <1>6, <1>7, <2>4, <2>5, <2>6, <2>7, <2>8, <2>9, <2>10, TendsSame
  <1>10. QED
    BY <1>8, <1>9

-----------------------------------------------------------------------------
(* What the mover tends to *)

LEMMA StoreTends ==
    ASSUME Safe, Typed', Coherent, Kept, NEW w \in Writers, Store(w)
    PROVE  Tending(w)'
  <1>1. PICK p, to, t, n, u, i, e, g, r :
           /\ p = pc[w] /\ to = AfterStore[pc[w]] /\ t = my[w].table /\ n = my[w].new /\ u = my[w].purpose
           /\ i = Here(w).gt /\ e = Here(w).gte /\ g = gd[Here(w).gt] /\ r = rgd[Here(w).gt]
    OBVIOUS
  <1>2. /\ Typed /\ p \in DOMAIN AfterStore /\ DevWriteAll(Stores(w)) /\ Goto(w, to) /\ my' = my
        /\ gd' = gd /\ rgd' = rgd /\ cursor' = cursor /\ tables' = tables
    BY <1>1 DEF Store, memory, Safe
  <1>3. p # "idle"
    BY <1>2, AfterStoreIs
  <1>4. i \in Indices /\ e \in Slots /\ WriterOK(w)
    BY <1>1, <1>2, <1>3, HolderIs
  <1>5. disk'[Header] = disk[Header] /\ HasRgd' = HasRgd
    BY <1>1, <1>2, StoresFit, WriteIs DEF Typed, HasRgd
  <1>6. Becomes(w, my[w].at, my[w].end, t, n, u)
    BY <1>1, <1>2, MyIs DEF Typed
  <1>7. SUFFICES Tends(to, t, n, u, i, e)'
    BY <1>1, <1>2, <1>6, TendsAt
  <1>8. Tends(p, t, n, u, i, e)
    BY <1>1 DEF Kept, Tending
  <1>9. g = gd[i] /\ r = rgd[i]
    BY <1>1
  <1>10. p \in WordPlaces =>
            \A l \in Locs : IF l \in DOMAIN Stores(w) THEN disk'[l] = Stores(w)[l]
                            ELSE disk'[l] = disk[l] /\ media'[l] = media[l]
    BY <1>1, <1>2, WordStores
  <1>11. CASE p = "tableZero"
    <2>1. to = "tableFlush"
      BY <1>1, <1>11, AfterStoreIs
    <2>2. QED
      BY <1>2, <1>5, <1>8, <1>11, <2>1 DEF Tends, MakePlaces, TablePlaces, SeedPlaces, RgdPlaces, GdPlaces,
                                           EntryPlaces, GrainPlaces
  <1>12. CASE p = "seedCopy"
    <2>1. to = "seedFlush" /\ p \in SeedPlaces /\ p \in MakePlaces /\ p \in WordPlaces /\ p \in NewPlaces
      BY <1>1, <1>12, AfterStoreIs DEF SeedPlaces, MakePlaces, WordPlaces, NewPlaces
    <2>2. u = "seed" /\ n \in Cells /\ Fresh(n)
      BY <1>1, <1>4, <2>1 DEF WriterOK, Safe, Owns, Claims
    <2>3. t = g /\ g # Unallocated
      BY <1>1, <2>1, <2>2 DEF Coherent, KnowsTable, Knows, Vacant
    <2>4. g \in Cells /\ g \in TableCells
      BY <1>2, <1>4, <1>9, <2>3, TablesAre DEF Coherent
    <2>5. g # n
      BY <2>2, <2>4, FreshIsNoTable
    <2>6. DOMAIN Stores(w) = Span(n, Slots) /\ \A l \in DOMAIN Stores(w) : Stores(w)[l] = disk[At(t, l[3])]
      BY <1>1, <1>12, StoredIs
    <2>7. ASSUME NEW f \in Slots PROVE disk'[At(n, f)] = disk'[At(g, f)]
      <3>1. At(n, f) \in DOMAIN Stores(w) /\ At(n, f)[3] = f /\ At(n, f) \in Locs
        BY <2>2, <2>6, Locating DEF Span, At
      <3>2. disk'[At(n, f)] = disk[At(g, f)]
        BY <1>10, <2>1, <2>3, <2>6, <3>1
      <3>3. At(g, f) \notin DOMAIN Stores(w) /\ At(g, f) \in Locs
        BY <2>4, <2>5, <2>6, Locating DEF Span
      <3>4. QED
        BY <1>10, <2>1, <3>2, <3>3
    <2>8. QED
      BY <1>2, <1>5, <1>8, <1>9, <2>1, <2>7 DEF Tends, MakePlaces, TablePlaces, SeedPlaces, RgdPlaces, GdPlaces,
                                           EntryPlaces, GrainPlaces
  <1>13. CASE p = "rgdWrite"
    <2>1. to = "rgdFlush" /\ p \in RgdPlaces /\ p \in MakePlaces /\ p \in NewPlaces
      BY <1>1, <1>13, AfterStoreIs DEF RgdPlaces, MakePlaces, NewPlaces
    <2>2. Puts(Rgd(i), n)
      BY <1>1, <1>2, <1>13, NamingIs DEF NamingStore, NamingPlaces
    <2>3. ASSUME u = "seed"
          PROVE  \A f \in Slots : media'[At(n, f)] = {disk'[At(g, f)]} /\ media'[At(g, f)] = {disk'[At(g, f)]}
      <3>1. g # Unallocated /\ n \in Cells
        BY <1>1, <1>4, <2>1, <2>3 DEF Coherent, KnowsTable, Knows, Vacant, WriterOK
      <3>2. g \in Cells
        BY <1>2, <1>4, <1>9, <3>1, TablesAre DEF Coherent
      <3>3. \A f \in Slots : /\ disk'[At(g, f)] = disk[At(g, f)] /\ media'[At(g, f)] = media[At(g, f)]
                             /\ media'[At(n, f)] = media[At(n, f)]
        BY <2>2, <3>1, <3>2, Locating DEF Puts
      <3>4. QED
        BY <1>8, <1>9, <2>1, <2>3, <3>3 DEF Tends
    <2>4. QED
      BY <1>2, <1>5, <1>8, <1>9, <2>1, <2>3 DEF Tends, MakePlaces, TablePlaces, SeedPlaces, RgdPlaces, GdPlaces,
                                           EntryPlaces, GrainPlaces
  <1>14. CASE p = "gdWrite"
    <2>1. to = "gdFlush" /\ p \in GdPlaces
      BY <1>1, <1>14, AfterStoreIs DEF GdPlaces
    <2>2. Puts(Gd(i), t)
      BY <1>1, <1>2, <1>14, NamingIs DEF NamingStore, NamingPlaces
    <2>3. media'[Rgd(i)] = media[Rgd(i)]
      BY <1>4, <2>2, Locating DEF Puts
    <2>4. QED
      BY <1>2, <1>5, <1>8, <1>9, <2>1, <2>3 DEF Tends, MakePlaces, TablePlaces, SeedPlaces, RgdPlaces, GdPlaces,
                                           EntryPlaces, GrainPlaces
  <1>15. CASE p = "mergeWrite"
    <2>1. to = "mergeFlush"
      BY <1>1, <1>15, AfterStoreIs
    <2>2. Fills(i)
      BY <1>1, <1>2, <1>15, NamingIs DEF NamingStore, NamingPlaces
    <2>3. HasRgd /\ r # Unallocated /\ r \in Cells /\ g \in Cells /\ r # g
      BY <1>1, <1>15, TwinIs, BothAre
    <2>4. ASSUME NEW f \in Slots, disk'[At(g, f)] # Unallocated PROVE disk'[At(r, f)] # Unallocated
      <3>1. disk'[At(g, f)] = disk[At(g, f)]
        BY <1>9, <2>2, <2>3, Locating DEF Fills, Span
      <3>2. disk'[At(r, f)] = Filled(i, f)
        BY <1>9, <2>2 DEF Fills
      <3>3. QED
        BY <1>9, <2>4, <3>1, <3>2 DEF Filled
    <2>5. QED
      BY <1>2, <1>5, <1>9, <2>1, <2>3, <2>4 DEF Tends, MakePlaces, TablePlaces, SeedPlaces, RgdPlaces, GdPlaces,
                                           EntryPlaces, GrainPlaces
  <1>16. CASE p \in {"grainZero", "grainData"}
    <2>1. to \in {"grainData", "grainFlush"} /\ p \in GrainPlaces
      BY <1>1, <1>16, AfterStoreIs DEF GrainPlaces
    <2>2. QED
      BY <1>2, <1>5, <1>8, <1>9, <2>1 DEF Tends, MakePlaces, TablePlaces, SeedPlaces, RgdPlaces, GdPlaces,
                                           EntryPlaces, GrainPlaces
  <1>17. CASE p = "entryRedundant"
    <2>1. to = "entryFlush" /\ p \in GrainPlaces /\ p \in EntryPlaces
      BY <1>1, <1>17, AfterStoreIs DEF GrainPlaces, EntryPlaces
    <2>2. Puts(At(r, e), n)
      BY <1>1, <1>2, <1>17, NamingIs DEF NamingStore, NamingPlaces
    <2>3. HasRgd /\ r # Unallocated /\ r \in Cells /\ g \in Cells /\ r # g
      BY <1>1, <1>17, TwinIs, BothAre, <2>1
    <2>4. disk'[At(r, e)] = n
      BY <2>2 DEF Puts
    <2>5. media'[At(g, e)] = {disk'[At(g, e)]}
      <3>1. media'[At(g, e)] = media[At(g, e)] /\ disk'[At(g, e)] = disk[At(g, e)]
        BY <1>4, <2>2, <2>3, Locating DEF Puts
      <3>2. QED
        BY <1>8, <1>9, <2>1, <3>1 DEF Tends
    <2>6. QED
      BY <1>2, <1>5, <1>9, <2>1, <2>3, <2>4, <2>5 DEF Tends, MakePlaces, TablePlaces, SeedPlaces, RgdPlaces,
                                           GdPlaces, EntryPlaces, GrainPlaces
  <1>18. CASE p = "entryPrimary"
    <2>1. to = "refresh"
      BY <1>1, <1>18, AfterStoreIs
    <2>2. QED
      BY <2>1, TendsNothing
  <1>19. QED
    BY <1>2, <1>11, <1>12, <1>13, <1>14, <1>15, <1>16, <1>17, <1>18, AfterStoreIs

LEMMA FlushTends ==
    ASSUME Safe, Safe', Coherent, Kept, NEW w \in Writers,
           TableFlush(w) \/ RgdFlush(w) \/ GdFlush(w) \/ MergeFlush(w) \/ Flushed(w)
    PROVE  Tending(w)'
  <1>1. PICK p, t, n, u, i, e, g, r :
           /\ p = pc[w] /\ t = my[w].table /\ n = my[w].new /\ u = my[w].purpose
           /\ i = Here(w).gt /\ e = Here(w).gte /\ g = gd[Here(w).gt] /\ r = rgd[Here(w).gt]
    OBVIOUS
  <1>2. Typed /\ DevFlush
    BY DEF TableFlush, RgdFlush, GdFlush, MergeFlush, Flushed, Safe
  <1>3. disk' = disk /\ (\A l \in Locs : media'[l] = {disk[l]}) /\ HasRgd' = HasRgd
    BY <1>2, FlushIs DEF Typed, HasRgd
  <1>4. Tends(p, t, n, u, i, e) /\ g = gd[i] /\ r = rgd[i]
    BY <1>1 DEF Kept, Tending
  <1>5. my' = my => Becomes(w, my[w].at, my[w].end, t, n, u)
    BY <1>1, <1>2, MyIs DEF Typed
  <1>6. CASE TableFlush(w)
    <2>1. p = "tableFlush" /\ Goto(w, AfterBlank(w)) /\ gd' = gd /\ rgd' = rgd
      BY <1>1, <1>6 DEF TableFlush, memory
    <2>2. p \in TablePlaces /\ p \in MakePlaces /\ p # "idle"
      BY <2>1 DEF TablePlaces, MakePlaces
    <2>3. u \in {"primary", "twin", "seed"}
      BY <1>1, <1>2, <2>2, HolderIs DEF WriterOK
    <2>4. CASE u = "primary" /\ HasRgd
      <3>1. Goto(w, "tableSpace")
        BY <1>1, <2>1, <2>4 DEF AfterBlank
      <3>2. my' = [my EXCEPT ![w].table = n, ![w].purpose = "twin"]
        BY <1>1, <1>6, <2>4 DEF TableFlush
      <3>3. Becomes(w, my[w].at, my[w].end, n, n, "twin")
        BY <1>1, <1>2, <3>2, MyIs DEF Typed
      <3>4. Tends("tableSpace", n, n, "twin", i, e)'
        BY <1>3, <2>4 DEF Tends, MakePlaces, TablePlaces, SeedPlaces, RgdPlaces, GdPlaces,
                                EntryPlaces, GrainPlaces
      <3>5. QED
        BY <1>1, <1>2, <3>1, <3>3, <3>4, TendsAt
    <2>5. CASE u = "primary" /\ ~HasRgd
      <3>1. Goto(w, "gdWrite")
        BY <1>1, <2>1, <2>5 DEF AfterBlank
      <3>2. my' = [my EXCEPT ![w].table = n, ![w].purpose = "primary"]
        BY <1>1, <1>6, <2>5 DEF TableFlush
      <3>3. Becomes(w, my[w].at, my[w].end, n, n, "primary")
        BY <1>1, <1>2, <3>2, MyIs DEF Typed
      <3>4. Tends("gdWrite", n, n, "primary", i, e)'
        BY <1>3, <2>5 DEF Tends, MakePlaces, TablePlaces, SeedPlaces, RgdPlaces, GdPlaces,
                                EntryPlaces, GrainPlaces
      <3>5. QED
        BY <1>1, <1>2, <3>1, <3>3, <3>4, TendsAt
    <2>6. CASE u # "primary"
      <3>1. PICK to : to = IF u = "twin" THEN "rgdWrite" ELSE "seedCopy"
        OBVIOUS
      <3>2. Goto(w, to) /\ my' = my
        BY <1>1, <1>6, <2>1, <2>3, <2>6, <3>1 DEF AfterBlank, TableFlush
      <3>3. Tends(to, t, n, u, i, e)'
        BY <1>3, <1>4, <2>1, <2>2, <2>3, <2>6, <3>1 DEF Tends, MakePlaces, TablePlaces, SeedPlaces, RgdPlaces, GdPlaces,
                                EntryPlaces, GrainPlaces
      <3>4. QED
        BY <1>1, <1>2, <1>5, <3>2, <3>3, TendsAt
    <2>7. QED
      BY <2>3, <2>4, <2>5, <2>6
  <1>7. CASE RgdFlush(w)
    <2>1. p = "rgdFlush" /\ p \in RgdPlaces /\ p # "idle" /\ my' = my
      BY <1>1, <1>7 DEF RgdFlush, RgdPlaces
    <2>2. i \in Indices /\ u \in {"twin", "seed"}
      BY <1>1, <1>2, <2>1, HolderIs DEF WriterOK
    <2>3. rgd'[i] = n /\ media'[Rgd(i)] = {n} /\ n # Unallocated
      BY <1>1, <1>7, <2>2, RgdFlushHolds
    <2>4. PICK to : to = IF u = "twin" THEN "gdWrite" ELSE "grainSpace"
      OBVIOUS
    <2>5. Goto(w, to)
      BY <1>1, <1>7, <2>4 DEF RgdFlush
    <2>6. Tends(to, t, n, u, i, e)'
      BY <2>3, <2>4 DEF Tends, MakePlaces, TablePlaces, SeedPlaces, RgdPlaces, GdPlaces,
                                EntryPlaces, GrainPlaces
    <2>7. QED
      BY <1>1, <1>2, <1>5, <2>1, <2>5, <2>6, TendsAt
  <1>8. CASE GdFlush(w)
    <2>1. Goto(w, "invalidate") /\ my' = my
      BY <1>8 DEF GdFlush
    <2>2. QED
      BY <1>1, <1>2, <1>5, <2>1, TendsNothing, TendsAt
  <1>9. CASE MergeFlush(w)
    <2>1. p = "mergeFlush" /\ Goto(w, "grainSpace") /\ my' = my /\ gd' = gd /\ rgd' = rgd
      BY <1>1, <1>9 DEF MergeFlush
    <2>2. Tends("grainSpace", t, n, u, i, e)'
      BY <1>3, <1>4, <2>1 DEF Tends, MakePlaces, TablePlaces, SeedPlaces, RgdPlaces, GdPlaces,
                                EntryPlaces, GrainPlaces
    <2>3. QED
      BY <1>1, <1>2, <1>5, <2>1, <2>2, TendsAt
  <1>10. CASE Flushed(w)
    <2>1. /\ p \in DOMAIN AfterFlush /\ Goto(w, AfterFlush[p]) /\ my' = my /\ gd' = gd /\ rgd' = rgd
      BY <1>1, <1>10 DEF Flushed, memory
    <2>2. p # "idle"
      BY <2>1, AfterFlushIs
    <2>3. i \in Indices /\ e \in Slots /\ WriterOK(w)
      BY <1>1, <1>2, <2>2, HolderIs
    <2>4. CASE p = "seedFlush"
      <3>1. Goto(w, "rgdWrite")
        BY <2>1, <2>4, AfterFlushIs
      <3>2. p \in SeedPlaces /\ p \in MakePlaces /\ p \in NewPlaces
        BY <2>4 DEF SeedPlaces, MakePlaces, NewPlaces
      <3>3. u = "seed" /\ n \in Cells
        BY <1>1, <2>3, <3>2 DEF WriterOK
      <3>4. g # Unallocated
        BY <1>1, <3>2, <3>3 DEF Coherent, KnowsTable, Knows, Vacant
      <3>5. g \in Cells
        BY <1>2, <1>4, <2>3, <3>4, TablesAre DEF Coherent
      <3>6. \A f \in Slots : disk[At(n, f)] = disk[At(g, f)]
        BY <1>4, <2>4 DEF Tends
      <3>7. \A f \in Slots : media'[At(n, f)] = {disk'[At(g, f)]} /\ media'[At(g, f)] = {disk'[At(g, f)]}
        BY <1>3, <3>3, <3>5, <3>6, Locating
      <3>8. Tends("rgdWrite", t, n, u, i, e)'
        BY <1>3, <1>4, <2>1, <2>4, <3>2, <3>3, <3>7 DEF Tends, MakePlaces, TablePlaces, SeedPlaces, RgdPlaces, GdPlaces,
                                EntryPlaces, GrainPlaces
      <3>9. QED
        BY <1>1, <1>2, <1>5, <2>1, <3>1, <3>8, TendsAt
    <2>5. CASE p \in {"grainFlush", "entryFlush"}
      <3>1. p \in GrainPlaces
        BY <2>5 DEF GrainPlaces, EntryPlaces
      <3>2. /\ g # Unallocated /\ g \in Cells
            /\ HasRgd => r \in Cells /\ r # Unallocated
        BY <1>1, <3>1, BothAre
      <3>3. media'[At(g, e)] = {disk'[At(g, e)]}
        BY <1>3, <2>3, <3>2, Locating
      <3>4. p = "entryFlush" => disk[At(r, e)] = n /\ HasRgd
        BY <1>4 DEF Tends
      <3>5. p = "entryFlush" => media'[At(r, e)] = {n}
        BY <1>3, <2>3, <3>2, <3>4, Locating
      <3>6. PICK to : to = AfterFlush[p]
        OBVIOUS
      <3>7. to = IF p = "grainFlush" /\ HasRgd THEN "entryRedundant" ELSE "entryPrimary"
        BY <2>5, <3>6 DEF AfterFlush
      <3>8. Tends(to, t, n, u, i, e)'
        BY <1>3, <1>4, <2>1, <2>5, <3>2, <3>3, <3>4, <3>5, <3>7 DEF Tends, MakePlaces, TablePlaces, SeedPlaces, RgdPlaces, GdPlaces,
                                EntryPlaces, GrainPlaces
      <3>9. QED
        BY <1>1, <1>2, <1>5, <2>1, <3>6, <3>8, TendsAt
    <2>6. QED
      BY <2>1, <2>4, <2>5, AfterFlushIs
  <1>11. QED
    BY <1>6, <1>7, <1>8, <1>9, <1>10

LEMMA LookTends ==
    ASSUME Safe, Coherent, Kept, NEW w \in Writers,
           Allocate(w) \/ Invalidate(w) \/ LookAgain(w) \/ Redundant(w)
    PROVE  Tending(w)'
  <1>1. PICK p, t, n, u, i, e, g, r :
           /\ p = pc[w] /\ t = my[w].table /\ n = my[w].new /\ u = my[w].purpose
           /\ i = Here(w).gt /\ e = Here(w).gte /\ g = gd[Here(w).gt] /\ r = rgd[Here(w).gt]
    OBVIOUS
  <1>2. Typed /\ UNCHANGED devVars /\ gd' = gd /\ rgd' = rgd
    BY DEF Allocate, Invalidate, LookAgain, Redundant, memory, Safe
  <1>3. HasRgd' = HasRgd
    BY <1>2 DEF HasRgd, devVars
  <1>4. Tends(p, t, n, u, i, e) /\ g = gd[i] /\ r = rgd[i]
    BY <1>1 DEF Kept, Tending
  <1>5. /\ my' = my => Becomes(w, my[w].at, my[w].end, t, n, u)
        /\ \A x : my' = [my EXCEPT ![w].new = x] => Becomes(w, my[w].at, my[w].end, t, x, u)
        /\ \A x : my' = [my EXCEPT ![w].purpose = x] => Becomes(w, my[w].at, my[w].end, t, n, x)
        /\ \A x, y : my' = [my EXCEPT ![w].table = x, ![w].purpose = y] =>
                         Becomes(w, my[w].at, my[w].end, x, n, y)
    BY <1>1, <1>2, MyIs DEF Typed
  <1>6. CASE Allocate(w)
    <2>1. PICK to : to = IF g = Unallocated THEN "tableSpace" ELSE "gt2"
      OBVIOUS
    <2>2. Goto(w, to) /\ my' = [my EXCEPT ![w].table = g, ![w].purpose = "primary"]
      BY <1>1, <1>6, <2>1 DEF Allocate
    <2>3. Tends(to, g, n, "primary", i, e)'
      BY <2>1 DEF Tends, MakePlaces, TablePlaces, SeedPlaces, RgdPlaces, GdPlaces,
                                EntryPlaces, GrainPlaces
    <2>4. QED
      BY <1>1, <1>2, <1>5, <2>2, <2>3, TendsAt
  <1>7. CASE Invalidate(w)
    <2>1. Goto(w, "gt2") /\ my' = my
      BY <1>7 DEF Invalidate
    <2>2. QED
      BY <1>1, <1>2, <1>5, <2>1, TendsNothing, TendsAt
  <1>8. CASE LookAgain(w)
    <2>1. PICK x : x = Lookup(i, t).entries[e]
      OBVIOUS
    <2>2. IF NamesGrain(x) THEN Goto(w, "through") /\ my' = [my EXCEPT ![w].new = x]
          ELSE Goto(w, IF HasRgd THEN "redundant" ELSE "grainSpace") /\ my' = my
      BY <1>1, <1>8, <2>1 DEF LookAgain
    <2>3. CASE NamesGrain(x)
      <3>1. pc'[w] = "through"
        BY <1>2, <2>2, <2>3 DEF Goto, Typed, ThreadsOK
      <3>2. QED
        BY <3>1, TendsOver, PlacesAre DEF MakePlaces, TablePlaces, SeedPlaces, RgdPlaces, SeenPlaces, GrainPlaces,
                                          EntryPlaces
    <2>4. CASE ~NamesGrain(x)
      <3>1. PICK to : to = IF HasRgd THEN "redundant" ELSE "grainSpace"
        OBVIOUS
      <3>2. Goto(w, to) /\ my' = my
        BY <2>2, <2>4, <3>1
      <3>3. Tends(to, t, n, u, i, e)'
        BY <1>3, <3>1 DEF Tends, MakePlaces, TablePlaces, SeedPlaces, RgdPlaces, GdPlaces,
                                EntryPlaces, GrainPlaces
      <3>4. QED
        BY <1>1, <1>2, <1>5, <3>2, <3>3, TendsAt
    <2>5. QED
      BY <2>3, <2>4
  <1>9. CASE Redundant(w)
    <2>1. p = "redundant" /\ HasRgd
      BY <1>1, <1>4, <1>9 DEF Redundant, Tends
    <2>2. \/ /\ r = Unallocated /\ my' = [my EXCEPT ![w].purpose = "seed"] /\ Goto(w, "tableSpace")
          \/ InFile(r) /\ Goto(w, "mergeWrite") /\ my' = my
          \/ InFile(r) /\ Goto(w, "grainSpace") /\ my' = my
      BY <1>1, <1>9 DEF Redundant
    <2>3. CASE r = Unallocated /\ my' = [my EXCEPT ![w].purpose = "seed"] /\ Goto(w, "tableSpace")
      <3>1. Tends("tableSpace", t, n, "seed", i, e)'
        BY <1>2, <1>3, <1>4, <2>1, <2>3 DEF Tends, MakePlaces, TablePlaces, SeedPlaces, RgdPlaces, GdPlaces,
                                EntryPlaces, GrainPlaces
      <3>2. QED
        BY <1>1, <1>2, <1>5, <2>3, <3>1, TendsAt
    <2>4. ASSUME NEW to \in {"mergeWrite", "grainSpace"}, InFile(r), Goto(w, to), my' = my
          PROVE  Tending(w)'
      <3>1. r # Unallocated
        BY <1>2, <2>4, InFileTyped DEF Typed
      <3>2. Tends(to, t, n, u, i, e)'
        BY <1>2, <1>3, <1>4, <2>1, <3>1 DEF Tends, MakePlaces, TablePlaces, SeedPlaces, RgdPlaces, GdPlaces,
                                EntryPlaces, GrainPlaces
      <3>3. QED
        BY <1>1, <1>2, <1>5, <2>4, <3>2, TendsAt
    <2>5. QED
      BY <2>2, <2>3, <2>4
  <1>10. QED
    BY <1>6, <1>7, <1>8, <1>9

LEMMA SpaceTends ==
    ASSUME Safe, Coherent, Kept, NEW w \in Writers, TableSpace(w) \/ GrainSpace(w)
    PROVE  Tending(w)'
  <1>1. PICK p, t, u, i, e, r :
           /\ p = pc[w] /\ t = my[w].table /\ u = my[w].purpose
           /\ i = Here(w).gt /\ e = Here(w).gte /\ r = rgd[Here(w).gt]
    OBVIOUS
  <1>2. Typed /\ cursor <= MaxCell /\ DevWrite(Length, cursor) /\ rgd' = rgd
        /\ my' = [my EXCEPT ![w].new = cursor]
    BY DEF TableSpace, GrainSpace, TakeCell, Safe
  <1>3. cursor \in 1 .. MaxCell
    BY <1>2, GrainAssumption DEF Typed, MemoryOK
  <1>4. HasRgd' = HasRgd
    BY <1>2, <1>3, LengthIs, Locating DEF Typed, HasRgd
  <1>5. Becomes(w, my[w].at, my[w].end, t, cursor, u)
    BY <1>1, <1>2, MyIs DEF Typed
  <1>6. Tends(p, t, my[w].new, u, i, e) /\ r = rgd[i]
    BY <1>1 DEF Kept, Tending
  <1>7. PICK c : c = cursor
    OBVIOUS
  <1>8. CASE TableSpace(w)
    <2>1. p = "tableSpace" /\ Goto(w, "tableZero")
      BY <1>1, <1>8 DEF TableSpace, TakeCell
    <2>2. Tends("tableZero", t, c, u, i, e)'
      BY <1>2, <1>4, <1>6, <2>1 DEF Tends, MakePlaces, TablePlaces, SeedPlaces, RgdPlaces, GdPlaces,
                                EntryPlaces, GrainPlaces
    <2>3. QED
      BY <1>1, <1>2, <1>5, <1>7, <2>1, <2>2, TendsAt
  <1>9. CASE GrainSpace(w)
    <2>1. PICK to : to = IF Here(w).len < BlocksPerGrain THEN "grainZero" ELSE "grainData"
      OBVIOUS
    <2>2. p = "grainSpace" /\ Goto(w, to)
      BY <1>1, <1>9, <2>1 DEF GrainSpace, TakeCell
    <2>3. Tends(to, t, c, u, i, e)'
      BY <1>2, <1>4, <1>6, <2>1, <2>2 DEF Tends, MakePlaces, TablePlaces, SeedPlaces, RgdPlaces, GdPlaces,
                                EntryPlaces, GrainPlaces
    <2>4. QED
      BY <1>1, <1>2, <1>5, <1>7, <2>2, <2>3, TendsAt
  <1>10. QED
    BY <1>8, <1>9

\* Whoever moves tends to its affairs after its step.
LEMMA MoverTends ==
    ASSUME Safe, Safe', Coherent, Kept, NEW w \in Writers, CallWrite(w) \/ WriterStep(w)
    PROVE  Tending(w)'
  <1>1. Typed /\ ThreadsOK
    BY DEF Safe, Typed
  <1>2. CASE CallWrite(w) \/ BackingTable(w) \/ BackingGrain(w)
    <2>1. pc'[w] \in {"gd", "gt", "allocate", "through"}
      BY <1>1, <1>2 DEF CallWrite, BackingTable, BackingGrain, Goto, ThreadsOK
    <2>2. pc'[w] \notin HeldPlaces
      BY <2>1 DEF HeldPlaces, TablePlaces, SeedPlaces, RgdPlaces, GdPlaces, FoundPlaces, GrainPlaces, EntryPlaces
    <2>3. QED
      BY <2>2, TendsOver
  <1>3. CASE Through(w) \/ Refresh(w) \/ Refused(w) \/ WriteFails(w) \/ FlushFails(w)
    <2>1. pc'[w] \in {"idle", "gd"}
      BY <1>1, <1>3 DEF Through, Refresh, ChunkDone, Refused, WriteFails, FlushFails, Fail, Goto, ThreadsOK
    <2>2. pc'[w] \notin HeldPlaces
      BY <2>1 DEF HeldPlaces, TablePlaces, SeedPlaces, RgdPlaces, GdPlaces, FoundPlaces, GrainPlaces, EntryPlaces
    <2>3. QED
      BY <2>2, TendsOver
  <1>4. QED
    BY <1>2, <1>3, StoreTends, FlushTends, LookTends, SpaceTends DEF WriterStep, Safe

-----------------------------------------------------------------------------
(* Every step, and the copies *)

\* The process dies, and what the device then holds is opened.
LEMMA CrashKept ==
    ASSUME Safe, Crash
    PROVE  /\ Kept' /\ disk'[Header] = disk[Header] /\ merged' = {}
           /\ \A i \in Indices : (EverCovers(i) => EverCovers(i)') /\ (Agrees(i) => Agrees(i)')
           /\ \A i \in Indices : gd'[i] = disk'[Gd(i)] /\ rgd'[i] = disk'[Rgd(i)]
  <1>1. PICK c : DevCrash(c) /\ gd' = Opened(c).gd /\ rgd' = Opened(c).rgd
    BY DEF Crash
  <1>2. Typed /\ Typed' /\ merged' = {} /\ pc' = [w \in Writers |-> "idle"]
    BY TypedOthers DEF Crash, Safe
  <1>3. /\ \A l \in Locs : c[l] \in media[l] /\ disk'[l] = c[l] /\ media'[l] = {c[l]}
        /\ disk'[Header] = disk[Header]
    BY <1>1, <1>2, CrashIs DEF Typed
  <1>4. ASSUME NEW i \in Indices
        PROVE  /\ (EverCovers(i) => EverCovers(i)') /\ (Agrees(i) => Agrees(i)')
               /\ gd'[i] = disk'[Gd(i)] /\ rgd'[i] = disk'[Rgd(i)] /\ Held(i)'
    <2>1. Shrinks(i)
      BY <1>2, <1>3, BearsFit DEF Shrinks
    <2>2. gd'[i] = disk'[Gd(i)] /\ rgd'[i] = disk'[Rgd(i)]
      BY <1>1, <1>3, Locating DEF Opened
    <2>3. gd'[i] # Unallocated => \A e \in Slots : media'[At(gd'[i], e)] = {disk'[At(gd'[i], e)]}
      BY <1>2, <1>3, Locating DEF Typed, MemoryOK
    <2>4. media'[Gd(i)] = {gd'[i]} /\ media'[Rgd(i)] = {rgd'[i]}
      BY <1>3, <2>2, Locating
    <2>5. Held(i)'
      BY <2>3, <2>4 DEF Held
    <2>6. QED
      BY <1>2, <1>3, <2>1, <2>2, <2>5, ShrinksCovers
  <1>5. ASSUME NEW w \in Writers PROVE Tending(w)'
    <2>1. pc'[w] \notin HeldPlaces
      BY <1>2 DEF HeldPlaces, TablePlaces, SeedPlaces, RgdPlaces, GdPlaces, FoundPlaces, GrainPlaces, EntryPlaces
    <2>2. QED
      BY <2>1, TendsOver
  <1>6. QED
    BY <1>2, <1>3, <1>4, <1>5 DEF Kept

LEMMA StepHolds ==
    ASSUME Safe, Safe', Coherent, Told, Kept, [Next]_vars, ~Crash, NEW i \in Indices
    PROVE  /\ Held(i)' /\ disk'[Header] = disk[Header]
           /\ HasRgd => /\ EverCovers(i) => EverCovers(i)'
                        /\ Agrees(i) => Agrees(i)'
                        /\ Complete(i) => Complete(i)'
  <1>1. Typed /\ Typed' /\ disk'[Header] = disk[Header]
    BY StepKinds, HeaderStays DEF Safe
  <1>2. CASE Keeps(i)
    BY <1>1, <1>2, KeepsHeld, ShrinksCovers, KeepsComplete DEF Keeps, Kept
  <1>3. ASSUME NEW w \in Writers, Attends(w, i)
        PROVE  /\ Held(i)'
               /\ HasRgd => /\ EverCovers(i) => EverCovers(i)'
                            /\ Agrees(i) => Agrees(i)'
                            /\ Complete(i) => Complete(i)'
    <2>1. i = Here(w).gt
      BY <1>3 DEF Attends
    <2>2. CASE NamingStore(w) /\ gd' = gd /\ rgd' = rgd
      <3>1. pc[w] \in NamingPlaces
        BY <2>2 DEF NamingStore
      <3>2. CASE pc[w] = "rgdWrite"
        BY <1>1, <2>1, <2>2, <3>2, RgdWriteHolds
      <3>3. CASE pc[w] = "gdWrite"
        BY <1>1, <2>1, <2>2, <3>3, GdWriteHolds
      <3>4. CASE pc[w] = "mergeWrite"
        BY <1>1, <2>1, <2>2, <3>4, MergeHolds
      <3>5. CASE pc[w] = "entryRedundant"
        BY <1>1, <2>1, <2>2, <3>5, TwinEntryHolds
      <3>6. CASE pc[w] = "entryPrimary"
        BY <1>1, <2>1, <2>2, <3>6, PrimaryEntryHolds
      <3>7. QED
        BY <3>1, <3>2, <3>3, <3>4, <3>5, <3>6 DEF NamingPlaces
    <2>3. CASE RgdFlush(w)
      BY <2>1, <2>3, RgdFlushHolds
    <2>4. CASE GdFlush(w)
      BY <2>1, <2>4, GdFlushHolds
    <2>5. QED
      BY <1>3, <2>2, <2>3, <2>4 DEF Attends
  <1>4. QED
    BY <1>1, <1>2, <1>3, StepKeeps

LEMMA KeptStep ==
    ASSUME Safe, Safe', Coherent, Told, Kept, [Next]_vars
    PROVE  Kept'
  <1>1. CASE Crash
    BY <1>1, CrashKept
  <1>2. CASE ~Crash
    <2>1. Typed /\ disk'[Header] = disk[Header]
      BY <1>2, StepKinds, HeaderStays DEF Safe
    <2>2. ASSUME NEW q \in Writers PROVE Tending(q)'
      <3>1. CASE CallWrite(q) \/ WriterStep(q)
        BY <3>1, MoverTends
      <3>2. CASE ~CallWrite(q) /\ ~WriterStep(q)
        <4>1. pc'[q] = pc[q] /\ my'[q] = my[q]
          BY <1>2, <2>1, <3>2, OneMoves
        <4>2. CASE pc[q] \notin HeldPlaces
          BY <4>1, <4>2, TendsOver
        <4>3. CASE pc[q] \in HeldPlaces
          <5>1. pc[q] # "idle"
            BY <4>3 DEF HeldPlaces, TablePlaces, SeedPlaces, RgdPlaces, GdPlaces, FoundPlaces, GrainPlaces,
                        EntryPlaces
          <5>2. Next \/ UNCHANGED vars
            OBVIOUS
          <5>3. CASE UNCHANGED vars \/ \E i \in Indices : ReaderLoads(i)
            <6>1. UNCHANGED devVars /\ gd' = gd /\ rgd' = rgd
              BY <5>3 DEF ReaderLoads, vars, memory, devVars
            <6>2. QED
              BY <2>1, <4>1, <4>3, <6>1, HolderTends
          <5>4. CASE Flush
            BY <5>1, <5>4 DEF Flush
          <5>5. ASSUME NEW w \in Writers, CallWrite(w) \/ WriterStep(w) PROVE Tending(q)'
            <6>1. w # q
              BY <3>2, <5>5
            <6>2. pc[w] \notin HeldPlaces
              BY <2>1, <4>3, <6>1, OneHolder
            <6>3. gd' = gd /\ rgd' = rgd /\ (UNCHANGED devVars \/ PayloadStore(w))
              BY <2>1, <5>5, <6>2, FreeMoves
            <6>4. QED
              BY <2>1, <4>1, <4>3, <6>3, HolderTends
          <5>6. QED
            BY <1>2, <5>2, <5>3, <5>4, <5>5 DEF Next
        <4>4. QED
          BY <4>2, <4>3
      <3>3. QED
        BY <3>1, <3>2
    <2>3. QED
      BY <1>2, <2>2, StepHolds DEF Kept
  <1>3. QED
    BY <1>1, <1>2

\* What is opened is all there is on the medium.
LEMMA KeptInit ==
    ASSUME Init, Typed
    PROVE  Kept /\ \A l \in Locs : media[l] = {disk[l]}
  <1>1. \A l \in Locs : media[l] = {disk[l]}
    BY DEF Init, Typed, DeviceOK
  <1>2. ASSUME NEW i \in Indices PROVE Held(i)
    <2>1. gd[i] = disk[Gd(i)] /\ rgd[i] = disk[Rgd(i)]
      BY DEF Init, Opened
    <2>2. media[Gd(i)] = {gd[i]} /\ media[Rgd(i)] = {rgd[i]}
      BY <1>1, <2>1, Locating
    <2>3. gd[i] # Unallocated => \A e \in Slots : media[At(gd[i], e)] = {disk[At(gd[i], e)]}
      BY <1>1, Locating DEF Typed, MemoryOK
    <2>4. QED
      BY <2>2, <2>3 DEF Held
  <1>3. ASSUME NEW w \in Writers PROVE Tending(w)
    <2>1. pc[w] = "idle"
      BY DEF Init
    <2>2. QED
      BY <2>1 DEF Tending, Tends, MakePlaces, TablePlaces, SeedPlaces, RgdPlaces, GdPlaces, EntryPlaces, GrainPlaces
  <1>4. QED
    BY <1>1, <1>2, <1>3 DEF Kept

\* All that the write path keeps of its space, its tables and their copies.
Sound == Safe /\ Coherent /\ Told /\ Kept

LEMMA SoundStep == EntryIsReliable /\ Sound /\ [Next]_vars => Sound'
  BY SafeStep, CoherentStep, ToldStep, KeptStep DEF Sound

LEMMA SoundInit == Init /\ NoSharedSpace => Sound
  BY SafeInit, CoherentInit, ToldInit, KeptInit DEF Sound, Safe

-----------------------------------------------------------------------------
(* The copies *)

\* What RedundantNeverBehind says of one step.
CopiesKeepUp == HasRgd => \A i \in Indices : EverCovers(i) => EverCovers(i)'

LEMMA StepKeepsUp == EntryIsReliable /\ Sound /\ [Next]_vars => CopiesKeepUp
  <1> SUFFICES ASSUME EntryIsReliable, Sound, [Next]_vars PROVE CopiesKeepUp
    OBVIOUS
  <1>1. Safe /\ Safe' /\ Coherent /\ Told /\ Kept
    BY SoundStep DEF Sound
  <1>2. CASE Crash
    BY <1>1, <1>2, CrashKept DEF CopiesKeepUp
  <1>3. CASE ~Crash
    BY <1>1, <1>3, StepHolds DEF CopiesKeepUp
  <1>4. QED
    BY <1>2, <1>3

\* update_gt_entry, redundant_gt_sector and publish_directory_entry: a redundant table
\* that covers its primary one covers it after every step, in whatever a crash then
\* leaves of the two, when a primary entry whose write fails is left as it was.
THEOREM CopiesNeverFallBehind == EntryIsReliable => (Spec /\ NoSharedSpace => RedundantNeverBehind)
  <1> SUFFICES ASSUME EntryIsReliable PROVE Spec /\ NoSharedSpace => RedundantNeverBehind
    OBVIOUS
  <1>1. Sound /\ [Next]_vars => Sound'
    BY SoundStep
  <1>2. Init /\ NoSharedSpace => Sound
    BY SoundInit
  <1>3. Sound /\ [Next]_vars => [CopiesKeepUp]_vars
    BY StepKeepsUp
  <1>4. Spec /\ NoSharedSpace => [][CopiesKeepUp]_vars
    BY <1>1, <1>2, <1>3, PTL DEF Spec
  <1>5. QED
    BY <1>4 DEF RedundantNeverBehind, CopiesKeepUp

\* What an image is opened with: wherever both copies of an entry name something, and
\* the primary one a grain, they agree.
CopiesAgree ==
    HasRgd => \A i \in Indices : disk[Gd(i)] # Unallocated /\ disk[Rgd(i)] # Unallocated =>
        \A e \in Slots : LET p == Primary(disk, i, e)
                             r == disk[At(disk[Rgd(i)], e)]
                         IN NamesGrain(p) /\ r # Unallocated => r = p

AllAgree == HasRgd => \A i \in Indices : Agrees(i)
MergedWell == AllAgree /\ \A i \in merged : HasRgd /\ Complete(i)

\* An index is counted as merged when its copy has been seeded, has been filled, or
\* turns out to lack nothing.
LEMMA MergedMoves ==
    ASSUME [Next]_vars, ~Crash
    PROVE  \/ merged' = merged
           \/ \E w \in Writers :
                 /\ \/ RgdFlush(w) /\ my[w].purpose # "twin"
                    \/ MergeFlush(w)
                    \/ Redundant(w)
                 /\ merged' = merged \cup {Here(w).gt}
  <1>1. Next \/ UNCHANGED vars
    OBVIOUS
  <1>2. CASE UNCHANGED vars \/ Flush \/ \E i \in Indices : ReaderLoads(i)
    BY <1>2 DEF vars, memory, Flush, ReaderLoads
  <1>3. ASSUME NEW w \in Writers, CallWrite(w) \/ WriterStep(w)
        PROVE  \/ merged' = merged
               \/ /\ \/ RgdFlush(w) /\ my[w].purpose # "twin"
                     \/ MergeFlush(w)
                     \/ Redundant(w)
                  /\ merged' = merged \cup {Here(w).gt}
    <2>1. CASE \/ CallWrite(w) \/ BackingTable(w) \/ BackingGrain(w) \/ Through(w) \/ Allocate(w)
               \/ TableSpace(w) \/ TableFlush(w) \/ GdFlush(w) \/ Invalidate(w) \/ LookAgain(w)
               \/ GrainSpace(w) \/ Store(w) \/ Flushed(w) \/ Refresh(w)
               \/ Refused(w) \/ WriteFails(w) \/ FlushFails(w)
      BY <2>1 DEF CallWrite, BackingTable, BackingGrain, Through, Allocate, TableSpace, TableFlush, GdFlush,
                  Invalidate, LookAgain, GrainSpace, Store, Flushed, Refresh, Refused, WriteFails, FlushFails,
                  memory
    <2>2. CASE RgdFlush(w)
      BY <2>2 DEF RgdFlush
    <2>3. CASE MergeFlush(w)
      BY <2>3 DEF MergeFlush
    <2>4. CASE Redundant(w)
      BY <2>4 DEF Redundant
    <2>5. QED
      BY SMTT(30), <1>3, <2>1, <2>2, <2>3, <2>4 DEF WriterStep
  <1>4. QED
    BY <1>1, <1>2, <1>3 DEF Next

\* An index that becomes merged has a complete copy.
LEMMA NewlyMerged ==
    ASSUME Sound, Sound', [Next]_vars, ~Crash, NEW w \in Writers, NEW j \in Indices, j = Here(w).gt,
           \/ RgdFlush(w) /\ my[w].purpose # "twin"
           \/ MergeFlush(w)
           \/ Redundant(w),
           j \notin merged, j \in merged'
    PROVE  HasRgd /\ Complete(j)'
  <1>1. PICK g, r, t : g = gd[j] /\ r = rgd[j] /\ t = my[w].table
    OBVIOUS
  <1>2. Safe /\ Safe' /\ Coherent /\ Told /\ Kept /\ Typed
    BY DEF Sound, Safe
  <1>3. HasRgd /\ Complete(j) => Complete(j)'
    BY <1>2, StepHolds
  <1>4. CASE RgdFlush(w) /\ my[w].purpose # "twin"
    <2>1. pc[w] \in RgdPlaces /\ pc[w] # "idle"
      BY <1>4 DEF RgdFlush, RgdPlaces
    <2>2. my[w].purpose = "seed"
      BY <1>2, <1>4, <2>1, HolderIs DEF WriterOK
    <2>3. QED
      BY <1>2, <1>4, <2>2, RgdFlushHolds
  <1>5. CASE MergeFlush(w)
    <2>1. pc[w] = "mergeFlush"
      BY <1>5 DEF MergeFlush
    <2>2. HasRgd /\ \A f \in Slots : disk[At(g, f)] # Unallocated => disk[At(r, f)] # Unallocated
      BY <1>1, <1>2, <2>1 DEF Kept, Tending, Tends
    <2>3. g # Unallocated /\ r # Unallocated
      BY <1>1, <1>2, <2>1, <2>2, BothAre
    <2>4. Complete(j)
      BY <1>1, <2>2, <2>3 DEF Complete
    <2>5. QED
      BY <1>3, <2>2, <2>4
  <1>6. CASE Redundant(w)
    <2>1. pc[w] = "redundant" /\ InFile(r) /\ \A e \in Slots : MergedEntry(w, e) = disk[At(r, e)]
      BY <1>1, <1>6 DEF Redundant
    <2>2. pc[w] \in UsePlaces /\ HasRgd
      BY <1>2, <2>1 DEF UsePlaces, FoundPlaces, Kept, Tending, Tends
    <2>3. t = g /\ g # Unallocated
      BY <1>1, <1>2, <2>2 DEF Coherent, KnowsTable, Knows
    <2>4. r # Unallocated
      BY <1>2, <2>1, InFileTyped DEF Typed
    <2>5. \A f \in Slots : disk[At(g, f)] # Unallocated => disk[At(r, f)] # Unallocated
      BY <1>1, <2>1, <2>3 DEF MergedEntry
    <2>6. Complete(j)
      BY <1>1, <2>3, <2>4, <2>5 DEF Complete
    <2>7. QED
      BY <1>3, <2>2, <2>6
  <1>7. QED
    BY <1>4, <1>5, <1>6

LEMMA MergedStep ==
    ASSUME EntryIsReliable, Sound, MergedWell, [Next]_vars
    PROVE  MergedWell'
  <1>1. Sound' /\ Safe /\ Safe' /\ Coherent /\ Told /\ Kept /\ Typed
    BY SoundStep DEF Sound, Safe
  <1>2. CASE Crash
    BY <1>1, <1>2, CrashKept DEF MergedWell, AllAgree, HasRgd
  <1>3. CASE ~Crash
    <2>1. disk'[Header] = disk[Header] /\ HasRgd' = HasRgd
      BY <1>1, <1>3, StepKinds, HeaderStays DEF HasRgd
    <2>2. AllAgree'
      BY <1>1, <1>3, <2>1, StepHolds DEF MergedWell, AllAgree
    <2>3. ASSUME NEW j \in merged' PROVE HasRgd /\ Complete(j)'
      <3>1. j \in Indices
        BY <1>1 DEF Safe, Typed, MemoryOK
      <3>2. CASE j \in merged
        BY <1>1, <1>3, <3>1, <3>2, StepHolds DEF MergedWell
      <3>3. CASE j \notin merged
        <4>1. PICK w \in Writers :
                 /\ \/ RgdFlush(w) /\ my[w].purpose # "twin"
                    \/ MergeFlush(w)
                    \/ Redundant(w)
                 /\ merged' = merged \cup {Here(w).gt}
          BY <1>3, <2>3, <3>3, MergedMoves
        <4>2. j = Here(w).gt
          BY <2>3, <3>3, <4>1
        <4>3. QED
          BY <1>1, <1>3, <2>3, <3>1, <3>3, <4>1, <4>2, NewlyMerged
      <3>4. QED
        BY <3>2, <3>3
    <2>4. QED
      BY <2>1, <2>2, <2>3 DEF MergedWell
  <1>4. QED
    BY <1>2, <1>3

LEMMA MergedInit == Init /\ NoSharedSpace /\ CopiesAgree => MergedWell
  <1> SUFFICES ASSUME Init, NoSharedSpace, CopiesAgree PROVE MergedWell
    OBVIOUS
  <1>1. Typed /\ merged = {}
    BY SoundInit DEF Sound, Safe, Init
  <1>2. \A l \in Locs : media[l] = {disk[l]}
    BY <1>1, KeptInit
  <1>3. ASSUME HasRgd, NEW i \in Indices PROVE Agrees(i)
    <2>1. media[Gd(i)] = {disk[Gd(i)]} /\ media[Rgd(i)] = {disk[Rgd(i)]}
      BY <1>2, Locating
    <2>2. PICK g, r : g = disk[Gd(i)] /\ r = disk[Rgd(i)]
      OBVIOUS
    <2>3. SUFFICES ASSUME g # Unallocated, r # Unallocated, NEW e \in Slots,
                          NEW p \in media[At(g, e)], NEW q \in media[At(r, e)],
                          NamesGrain(p), q # Unallocated
                   PROVE  q = p
      BY <2>1, <2>2 DEF Agrees
    <2>4. g \in Cells /\ r \in Cells
      BY <1>1, <2>1, <2>2, <2>3, DirectoriesName DEF Typed
    <2>5. p = disk[At(g, e)] /\ q = disk[At(r, e)]
      BY <1>2, <2>3, <2>4, Locating
    <2>6. QED
      BY <1>3, <2>2, <2>3, <2>5 DEF CopiesAgree, Primary
  <1>4. QED
    BY <1>1, <1>3 DEF MergedWell, AllAgree

LEMMA MergedCovers ==
    ASSUME Sound, MergedWell
    PROVE  MergedIsComplete
  <1>1. Typed /\ Coherent /\ Kept
    BY DEF Sound, Safe
  <1>2. SUFFICES ASSUME NEW i \in merged PROVE Covers(i)
    BY DEF MergedIsComplete
  <1>3. i \in Indices
    BY <1>1 DEF Typed, MemoryOK
  <1>4. HasRgd /\ Complete(i) /\ Agrees(i)
    BY <1>2, <1>3 DEF MergedWell, AllAgree
  <1>5. PICK g, r : g = gd[i] /\ r = rgd[i]
    OBVIOUS
  <1>6. g # Unallocated /\ r # Unallocated
    BY <1>4, <1>5 DEF Complete
  <1>7. disk[Gd(i)] = g /\ media[Gd(i)] = {g} /\ media[Rgd(i)] = {r}
    BY <1>1, <1>3, <1>4, <1>5, <1>6, TablesAre DEF Coherent, Kept, Held
  <1>8. disk[Rgd(i)] = r /\ g \in Cells /\ r \in Cells
    <2>1. disk[Rgd(i)] \in media[Rgd(i)]
      BY <1>1, <1>3, Locating DEF Typed, DeviceOK
    <2>2. g \in Cells /\ r \in Cells
      BY <1>1, <1>3, <1>5, <1>6 DEF Typed, MemoryOK
    <2>3. QED
      BY <1>7, <2>1, <2>2
  <1>9. ASSUME NEW e \in Slots
        PROVE  LET p == disk[At(g, e)]
                   q == disk[At(r, e)]
               IN (NamesGrain(p) => q = p) /\ (p # Unallocated => q # Unallocated)
    <2>1. PICK p, q : p = disk[At(g, e)] /\ q = disk[At(r, e)]
      OBVIOUS
    <2>2. p # Unallocated => q # Unallocated
      BY <1>4, <1>5, <2>1 DEF Complete
    <2>3. p \in media[At(g, e)] /\ q \in media[At(r, e)]
      BY <1>1, <1>8, <2>1, Locating DEF Typed, DeviceOK
    <2>4. NamesGrain(p) => p # Unallocated
      BY CellsAre
    <2>5. NamesGrain(p) => q = p
      BY <1>4, <1>6, <1>7, <2>2, <2>3, <2>4 DEF Agrees
    <2>6. QED
      BY <2>1, <2>2, <2>5
  <1>10. QED
    BY <1>6, <1>7, <1>8, <1>9 DEF Covers, Primary

\* redundant_gt_sector and merge_primary_into_redundant: a redundant table that has
\* been merged holds every entry of its primary one for as long as the image is open,
\* if the two disagreed nowhere to begin with, and when a primary entry whose write
\* fails is left as it was.
THEOREM MergedCopiesAreComplete ==
    EntryIsReliable => (Spec /\ NoSharedSpace /\ CopiesAgree => []MergedIsComplete)
  <1> SUFFICES ASSUME EntryIsReliable PROVE Spec /\ NoSharedSpace /\ CopiesAgree => []MergedIsComplete
    OBVIOUS
  <1>1. Sound /\ MergedWell /\ [Next]_vars => Sound' /\ MergedWell'
    BY SoundStep, MergedStep
  <1>2. Init /\ NoSharedSpace /\ CopiesAgree => Sound /\ MergedWell
    BY SoundInit, MergedInit
  <1>3. Sound /\ MergedWell => MergedIsComplete
    BY MergedCovers
  <1>4. QED
    BY <1>1, <1>2, <1>3, PTL DEF Spec
=============================================================================
