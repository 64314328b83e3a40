---------------------------- MODULE GrainDisk_proof ----------------------------
(***************************************************************************)
(* The write path of GrainWriter implements VirtualDisk: whatever the      *)
(* threads, the failed device calls and the crashes do, each block reads   *)
(* as its promises allow. For any number of writers, tables, slots, blocks *)
(* and cells, from an image whose structures share no host space; a        *)
(* primary entry written by a call that reports an error is left out.      *)
(***************************************************************************)
EXTENDS GrainTables_proof

-----------------------------------------------------------------------------
(* Blocks, the entry each is under, and the chunks of a call *)

IndexOf(b) == Address(b, b + 1).gt
SlotOf(b) == Address(b, b + 1).gte
WordOf(b) == Address(b, b + 1).in

\* The blocks of the chunk that w is at, and their words in the grain.
Chunk(w) == my[w].at .. my[w].at + Here(w).len - 1
InChunk(w, k) == k \in Here(w).in .. Here(w).in + Here(w).len - 1

GrainWords == 0 .. BlocksPerGrain - 1

LEMMA DividedIs ==
    ASSUME NEW g \in Nat \ {0}, NEW a \in Nat
    PROVE  a \div g \in Nat /\ a % g \in 0 .. g - 1 /\ a = g * (a \div g) + (a % g)
  OBVIOUS

\* What is divided and what is left over determine the number.
LEMMA DividedFrom ==
    ASSUME NEW g \in Nat \ {0}, NEW q \in Nat, NEW r \in 0 .. g - 1
    PROVE  (g * q + r) \div g = q /\ (g * q + r) % g = r
  OBVIOUS

LEMMA BlocksAre ==
    /\ BlocksPerGrain \in Nat \ {0} /\ EntriesPerTable \in Nat \ {0} /\ Tables \in Nat \ {0}
    /\ Grains \in Nat /\ Grains * BlocksPerGrain \in Nat /\ Blocks \subseteq Nat
    /\ \A b \in Blocks : b < Grains * BlocksPerGrain
    /\ \A b \in Nat : b < Grains * BlocksPerGrain => b \in Blocks
  <1>1. BlocksPerGrain \in Nat \ {0} /\ EntriesPerTable \in Nat \ {0} /\ Tables \in Nat \ {0}
    BY GrainAssumption
  <1>2. Grains \in Nat
    BY <1>1 DEF Grains
  <1>3. PICK n : n = Grains * BlocksPerGrain
    OBVIOUS
  <1>4. n \in Nat
    BY <1>1, <1>2, <1>3
  <1>5. Blocks = 0 .. n - 1
    BY <1>3 DEF Blocks
  <1>6. QED
    BY <1>1, <1>2, <1>3, <1>4, <1>5

\* The blocks from one to another.
LEMMA RangeOfBlocks ==
    ASSUME NEW p \in Blocks, NEW q \in Blocks
    PROVE  p .. q \subseteq Blocks
  <1>1. PICK m : m = Grains * BlocksPerGrain
    OBVIOUS
  <1>2. m \in Nat /\ p \in Nat /\ q \in Nat /\ q < m /\ \A b \in Nat : b < m => b \in Blocks
    BY <1>1, BlocksAre
  <1>3. \A b \in p .. q : b \in Nat /\ b < m
    BY <1>2
  <1>4. QED
    BY <1>2, <1>3

LEMMA BlockIs ==
    ASSUME NEW b \in Blocks
    PROVE  /\ IndexOf(b) \in Indices /\ SlotOf(b) \in Slots /\ WordOf(b) \in GrainWords
           /\ IndexOf(b) = (b \div BlocksPerGrain) \div EntriesPerTable
           /\ SlotOf(b) = (b \div BlocksPerGrain) % EntriesPerTable
           /\ WordOf(b) = b % BlocksPerGrain
           /\ b \div BlocksPerGrain \in Nat
  <1>1. PICK n, s, t, m : n = BlocksPerGrain /\ s = EntriesPerTable /\ t = Tables /\ m = Grains
    OBVIOUS
  <1>2. n \in Nat \ {0} /\ s \in Nat \ {0} /\ t \in Nat \ {0} /\ m \in Nat /\ b \in Nat /\ b < m * n
    BY <1>1, BlocksAre
  <1>3. m = t * s
    BY <1>1 DEF Grains
  <1>4. PICK g : g = b \div n
    OBVIOUS
  <1>5. g \in 0 .. m - 1 /\ b % n \in 0 .. n - 1
    BY <1>2, <1>4, DivisionIs
  <1>6. g \in Nat /\ g < t * s
    BY <1>2, <1>3, <1>5
  <1>7. g \div s \in 0 .. t - 1 /\ g % s \in 0 .. s - 1
    BY <1>2, <1>6, DivisionIs
  <1>8. IndexOf(b) = g \div s /\ SlotOf(b) = g % s /\ WordOf(b) = b % n
    BY <1>1, <1>4 DEF IndexOf, SlotOf, WordOf, Address
  <1>9. QED
    BY <1>1, <1>4, <1>5, <1>6, <1>7, <1>8 DEF Indices, Slots, GrainWords

\* A block is under one entry, at one word.
LEMMA BlockIsOne ==
    ASSUME NEW b \in Blocks, NEW c \in Blocks, IndexOf(b) = IndexOf(c), SlotOf(b) = SlotOf(c),
           WordOf(b) = WordOf(c)
    PROVE  b = c
  <1>1. PICK n, s : n = BlocksPerGrain /\ s = EntriesPerTable
    OBVIOUS
  <1>2. n \in Nat \ {0} /\ s \in Nat \ {0} /\ b \in Nat /\ c \in Nat
    BY <1>1, BlocksAre
  <1>3. PICK g, h : g = b \div n /\ h = c \div n
    OBVIOUS
  <1>4. g \in Nat /\ h \in Nat /\ g \div s = h \div s /\ g % s = h % s /\ b % n = c % n
    BY <1>1, <1>3, BlockIs
  <1>5. g = s * (g \div s) + (g % s) /\ h = s * (h \div s) + (h % s)
    BY <1>2, <1>4, DividedIs
  <1>6. g = h
    BY <1>4, <1>5
  <1>7. b = n * g + (b % n) /\ c = n * h + (c % n)
    BY <1>2, <1>3, DividedIs
  <1>8. QED
    BY <1>4, <1>6, <1>7

\* The blocks of w's chunk are those under its entry, at the words of the chunk.
LEMMA ChunkIs ==
    ASSUME NEW w \in Writers, WriterOK(w), pc[w] # "idle"
    PROVE  /\ Chunk(w) \subseteq Blocks
           /\ my[w].at \in Nat /\ my[w].end \in Nat /\ Here(w).len \in Nat \ {0}
           /\ my[w].at + Here(w).len <= my[w].end
           /\ Here(w).in \in GrainWords /\ Here(w).in + Here(w).len <= BlocksPerGrain
           /\ \A b \in Blocks : b \in Chunk(w) <=>
                 IndexOf(b) = Here(w).gt /\ SlotOf(b) = Here(w).gte /\ InChunk(w, WordOf(b))
  <1>1. PICK n, s, a, z : n = BlocksPerGrain /\ s = EntriesPerTable /\ a = my[w].at /\ z = my[w].end
    OBVIOUS
  <1>2. n \in Nat \ {0} /\ s \in Nat \ {0} /\ a \in Nat /\ z \in Nat /\ a < z /\ z <= Grains * n
    BY <1>1, BlocksAre DEF WriterOK
  <1>3. PICK g, i, l : g = a \div n /\ i = a % n /\ l = Lesser(n - i, z - a)
    OBVIOUS
  <1>4. g \in Nat /\ i \in 0 .. n - 1 /\ a = n * g + i
    BY <1>2, <1>3, DividedIs
  <1>5. l \in Nat \ {0} /\ l <= n - i /\ l <= z - a
    BY <1>2, <1>3, <1>4 DEF Lesser
  <1>6. Here(w).in = i /\ Here(w).len = l /\ Here(w).gt = g \div s /\ Here(w).gte = g % s
    BY <1>1, <1>3 DEF Here, Address
  <1>7. Chunk(w) = a .. a + l - 1
    BY <1>1, <1>6 DEF Chunk
  <1>8. Chunk(w) \subseteq Blocks
    <2>1. PICK m : m = Grains * n
      OBVIOUS
    <2>2. m \in Nat /\ \A b \in Nat : b < m => b \in Blocks
      BY <1>1, <2>1, BlocksAre
    <2>3. \A b \in a .. a + l - 1 : b \in Nat /\ b < m
      BY <1>2, <1>5, <2>1, <2>2
    <2>4. QED
      BY <1>7, <2>2, <2>3
  <1>9. ASSUME NEW b \in Chunk(w)
        PROVE  IndexOf(b) = Here(w).gt /\ SlotOf(b) = Here(w).gte /\ InChunk(w, WordOf(b))
    <2>1. b \in Blocks /\ b \in a .. a + l - 1
      BY <1>7, <1>8, <1>9
    <2>2. PICK k : k = i + (b - a)
      OBVIOUS
    <2>3. k \in 0 .. n - 1 /\ k \in i .. i + l - 1
      BY <1>2, <1>4, <1>5, <2>1, <2>2
    <2>4. b = n * g + k
      <3>1. PICK y : y = n * g
        OBVIOUS
      <3>2. y \in Nat
        BY <1>2, <1>4, <3>1
      <3>3. b = y + k
        BY <1>2, <1>4, <2>1, <2>2, <3>1, <3>2
      <3>4. QED
        BY <3>1, <3>3
    <2>5. b \div n = g /\ b % n = k
      BY <1>2, <1>4, <2>3, <2>4, DividedFrom
    <2>6. IndexOf(b) = g \div s /\ SlotOf(b) = g % s /\ WordOf(b) = k
      BY <1>1, <2>1, <2>5, BlockIs
    <2>7. QED
      BY <1>6, <2>3, <2>6 DEF InChunk
  <1>10. ASSUME NEW b \in Blocks, IndexOf(b) = Here(w).gt, SlotOf(b) = Here(w).gte, InChunk(w, WordOf(b))
         PROVE  b \in Chunk(w)
    <2>1. PICK k, c : k = WordOf(b) /\ c = a + (k - i)
      OBVIOUS
    <2>2. k \in i .. i + l - 1
      BY <1>6, <1>10, <2>1 DEF InChunk
    <2>3. c \in a .. a + l - 1
      BY <1>2, <1>4, <1>5, <2>1, <2>2
    <2>4. c \in Chunk(w) /\ c \in Blocks
      BY <1>7, <1>8, <2>3
    <2>5. IndexOf(c) = Here(w).gt /\ SlotOf(c) = Here(w).gte
      BY <1>9, <2>4
    <2>6. c = n * g + k
      <3>1. PICK y : y = n * g
        OBVIOUS
      <3>2. y \in Nat
        BY <1>2, <1>4, <3>1
      <3>3. c = y + k
        BY <1>2, <1>4, <2>1, <2>2, <3>1, <3>2
      <3>4. QED
        BY <3>1, <3>3
    <2>7. k \in 0 .. n - 1
      BY <1>4, <1>5, <1>2, <2>2
    <2>8. WordOf(c) = k
      BY <1>1, <1>2, <1>4, <2>4, <2>6, <2>7, DividedFrom, BlockIs
    <2>9. b = c
      BY <1>10, <2>1, <2>4, <2>5, <2>8, BlockIsOne
    <2>10. QED
      BY <2>4, <2>9
  <1>11. my[w].at + Here(w).len <= my[w].end /\ Here(w).in + Here(w).len <= BlocksPerGrain
    BY <1>1, <1>2, <1>4, <1>5, <1>6
  <1>12. QED
    BY <1>1, <1>2, <1>4, <1>5, <1>6, <1>8, <1>9, <1>10, <1>11 DEF GrainWords

-----------------------------------------------------------------------------
(* What a block reads as *)

\* What the device holds of block b.
Now(b) ==
    IF gd[IndexOf(b)] = Unallocated THEN Zero
    ELSE LET x == disk[At(gd[IndexOf(b)], SlotOf(b))] IN
         IF NamesGrain(x) THEN disk[At(x, WordOf(b))] ELSE Zero

\* A refresh is due: the cached entry is not yet what the device holds.
Stale(i, e) == /\ gd[i] # Unallocated /\ cache.loaded = <<i, gd[i]>>
               /\ cache.entries[e] # disk[At(gd[i], e)]

\* What block b reads as, now and once the cached table is refreshed or dropped.
Seen(b) == {Now(b)} \cup (IF Stale(IndexOf(b), SlotOf(b)) THEN {Zero} ELSE {})

\* An entry that names a grain, and the grain's cell.
LEMMA GrainIs ==
    ASSUME Typed, Space, TablesAgree, NEW i \in Indices, NEW e \in Slots, NEW x, Grain(x, i, e)
    PROVE  /\ gd[i] \in Cells /\ gd[i] \in media[Gd(i)]
           /\ At(gd[i], e) \in PointerPlaces /\ x \in media[At(gd[i], e)]
           /\ x \in Cells /\ InFile(x)
           /\ \A k \in GrainWords : At(x, k) \in Locs
  <1>1. PICK g : g = gd[i]
    OBVIOUS
  <1>2. g \in Cells /\ g \in TableCells /\ disk[Gd(i)] = g /\ x = disk[At(g, e)] /\ NamesGrain(x)
    BY <1>1, TablesAre DEF Grain
  <1>3. g \in media[Gd(i)] /\ x \in media[At(g, e)] /\ disk[Length] \in media[Length]
    BY <1>2, Locating DEF Typed, DeviceOK
  <1>4. At(g, e) \in PointerPlaces
    BY <1>2 DEF PointerPlaces
  <1>5. x \in Cells /\ Settled(x)
    BY <1>2, <1>3, <1>4 DEF Space
  <1>6. InFile(x)
    BY <1>3, <1>5, LengthTyped DEF Settled, InFile, Typed, Cells
  <1>7. \A k \in GrainWords : k \in Words
    BY BlocksAre DEF GrainWords, Words
  <1>8. \A k \in GrainWords : At(x, k) \in Locs
    BY <1>5, <1>7 DEF Locs
  <1>9. QED
    BY <1>1, <1>2, <1>3, <1>4, <1>5, <1>6, <1>8

ValueIsSeen == \A b \in Blocks : Value[b] = IF Stale(IndexOf(b), SlotOf(b)) THEN Zero ELSE Now(b)

LEMMA ValueIs == Sound => ValueIsSeen
  <1> SUFFICES ASSUME Sound, NEW b \in Blocks
               PROVE  Value[b] = IF Stale(IndexOf(b), SlotOf(b)) THEN Zero ELSE Now(b)
    BY DEF ValueIsSeen
  <1>1. Typed /\ Space /\ TablesAgree /\ CacheNames /\ CacheTyped(cache)
    BY DEF Sound, Safe, Coherent, Told, Typed, MemoryOK
  <1>2. PICK i, e, k, g : i = IndexOf(b) /\ e = SlotOf(b) /\ k = WordOf(b) /\ g = gd[IndexOf(b)]
    OBVIOUS
  <1>3. i \in Indices /\ e \in Slots /\ k \in GrainWords
    BY <1>2, BlockIs
  <1>4. PICK x, y : x = disk[At(g, e)] /\ y = IF cache.loaded = <<i, g>> THEN cache.entries[e] ELSE x
    OBVIOUS
  <1>5. Value[b] = CASE g = Unallocated -> Zero
                     [] g # Unallocated /\ ~NamesGrain(y) -> Zero
                     [] g # Unallocated /\ NamesGrain(y) ->
                          IF y \in FirstCell .. disk[Length] THEN disk[At(y, k)] ELSE Refusal
    BY <1>2, <1>4 DEF Value, ReadBlock, IndexOf, SlotOf, WordOf
  <1>6. g # Unallocated /\ NamesGrain(x) => x \in FirstCell .. disk[Length]
    BY <1>1, <1>2, <1>3, <1>4, GrainIs DEF Grain, InFile
  <1>7. g # Unallocated /\ y # x => Stale(i, e) /\ ~NamesGrain(y)
    <2>1. SUFFICES ASSUME g # Unallocated, y # x PROVE Stale(i, e) /\ ~NamesGrain(y)
      OBVIOUS
    <2>2. cache.loaded = <<i, g>> /\ y = cache.entries[e] /\ cache # NoCache
      BY <1>4, <2>1, NoPair DEF NoCache
    <2>3. cache.loaded[2] = g
      BY <2>2
    <2>4. NamesGrain(y) => y = x
      BY <1>1, <1>3, <1>4, <2>2, <2>3 DEF CacheNames
    <2>5. QED
      BY <1>2, <1>4, <2>1, <2>2, <2>4 DEF Stale
  <1>8. Stale(i, e) => g # Unallocated /\ y # x
    BY <1>2, <1>4 DEF Stale
  <1>9. Now(b) = IF g = Unallocated THEN Zero ELSE IF NamesGrain(x) THEN disk[At(x, k)] ELSE Zero
    BY <1>2, <1>4 DEF Now
  <1>10. CASE g = Unallocated
    BY <1>2, <1>5, <1>8, <1>9, <1>10
  <1>11. CASE g # Unallocated /\ y = x
    BY <1>2, <1>5, <1>6, <1>8, <1>9, <1>11
  <1>12. CASE g # Unallocated /\ y # x
    BY <1>2, <1>5, <1>7, <1>12
  <1>13. QED
    BY <1>10, <1>11, <1>12

LEMMA ValueIsNext == Sound' => ValueIsSeen'
  BY ValueIs, PTL

-----------------------------------------------------------------------------
(* What a step makes of a block *)

\* What block b may read as after a crash.
Wakes(b, v) ==
    \E t \in media[Gd(IndexOf(b))] :
        \/ t = Unallocated /\ v = Zero
        \/ /\ t # Unallocated
           /\ \E x \in media[At(t, SlotOf(b))] :
                 IF NamesGrain(x) THEN v \in media[At(x, WordOf(b))] ELSE v = Zero

\* The places that block b is read from, now or after a crash.
Roots(b) ==
    {Gd(IndexOf(b))}
    \cup {At(t, SlotOf(b)) : t \in media[Gd(IndexOf(b))] \ {Unallocated}}
    \cup {l \in Locs : \E t \in media[Gd(IndexOf(b))] \ {Unallocated} :
                         \E x \in media[At(t, SlotOf(b))] : NamesGrain(x) /\ l = At(x, WordOf(b))}

Spares(b) == \A l \in Roots(b) : disk'[l] = disk[l] /\ media'[l] \subseteq media[l]

\* What is where, of what a block is read from.
LEMMA RootsAre ==
    ASSUME Typed, Space, NEW b \in Blocks
    PROVE  /\ Roots(b) \subseteq Locs \ {Length, Header}
           /\ Gd(IndexOf(b)) \in Roots(b) /\ Gd(IndexOf(b)) \in PointerPlaces
           /\ \A t \in media[Gd(IndexOf(b))] : t # Unallocated =>
                 /\ t \in Cells /\ NamesGrain(t) /\ t \in TableCells
                 /\ At(t, SlotOf(b)) \in Roots(b) /\ At(t, SlotOf(b)) \in PointerPlaces
                 /\ \A x \in media[At(t, SlotOf(b))] : NamesGrain(x) =>
                       x \in Cells /\ At(x, WordOf(b)) \in Roots(b)
  <1>1. PICK i, e, k : i = IndexOf(b) /\ e = SlotOf(b) /\ k = WordOf(b)
    OBVIOUS
  <1>2. i \in Indices /\ e \in Slots /\ k \in GrainWords
    BY <1>1, BlockIs
  <1>3. k \in Words
    BY <1>2, BlocksAre DEF GrainWords, Words
  <1>4. ASSUME NEW t \in media[Gd(i)], t # Unallocated
        PROVE  /\ t \in Cells /\ NamesGrain(t) /\ t \in TableCells
               /\ At(t, e) \in Locs /\ At(t, e) \in Roots(b) /\ At(t, e) \in PointerPlaces
    <2>1. t \in Cells /\ NamesGrain(t)
      BY <1>2, <1>4, DirectoriesName, CellsAre DEF Typed
    <2>2. t \in TableCells
      BY <1>2, <1>4, <2>1 DEF TableCells
    <2>3. QED
      BY <1>1, <1>2, <1>4, <2>1, <2>2, Locating DEF Roots, PointerPlaces
  <1>5. ASSUME NEW t \in media[Gd(i)], t # Unallocated, NEW x \in media[At(t, e)], NamesGrain(x)
        PROVE  x \in Cells /\ At(x, k) \in Locs /\ At(x, k) \in Roots(b)
    <2>1. x \in Cells
      BY <1>4, <1>5 DEF Space
    <2>2. At(x, k) \in Locs
      BY <1>3, <2>1 DEF Locs
    <2>3. QED
      BY <1>1, <1>5, <2>1, <2>2 DEF Roots
  <1>6. Gd(i) \in Roots(b) /\ Gd(i) \in PointerPlaces /\ Gd(i) \in Locs
    BY <1>1, <1>2, Locating DEF Roots, PointerPlaces
  <1>7. Roots(b) \subseteq Locs
    BY <1>1, <1>4, <1>6 DEF Roots
  <1>8. Length \notin Roots(b) /\ Header \notin Roots(b)
    BY <1>1, Locating DEF Roots
  <1>9. QED
    BY <1>1, <1>4, <1>5, <1>6, <1>7, <1>8

\* Of the table that memory names, and the grain that its entry does.
LEMMA RootsNow ==
    ASSUME Typed, Space, TablesAgree, NEW b \in Blocks, NEW i, i = IndexOf(b), gd[i] # Unallocated
    PROVE  /\ i \in Indices /\ gd[i] \in Cells /\ gd[i] \in media[Gd(i)]
           /\ At(gd[i], SlotOf(b)) \in Roots(b)
           /\ disk[At(gd[i], SlotOf(b))] \in media[At(gd[i], SlotOf(b))]
           /\ \A x : x = disk[At(gd[i], SlotOf(b))] /\ NamesGrain(x) => At(x, WordOf(b)) \in Roots(b)
  <1>1. i \in Indices /\ SlotOf(b) \in Slots
    BY BlockIs
  <1>2. gd[i] \in Cells /\ disk[Gd(i)] = gd[i]
    BY <1>1, TablesAre
  <1>3. gd[i] \in media[Gd(i)] /\ disk[At(gd[i], SlotOf(b))] \in media[At(gd[i], SlotOf(b))]
    BY <1>1, <1>2, Locating DEF Typed, DeviceOK
  <1>4. QED
    BY <1>1, <1>2, <1>3, RootsAre

LEMMA SparedIs ==
    ASSUME Typed, Space, TablesAgree, disk'[Header] = disk[Header], NEW b \in Blocks, Spares(b)
    PROVE  /\ \A v : Wakes(b, v)' => Wakes(b, v)
           /\ gd'[IndexOf(b)] = gd[IndexOf(b)] => Now(b)' = Now(b)
  <1>1. PICK i, e, k : i = IndexOf(b) /\ e = SlotOf(b) /\ k = WordOf(b)
    OBVIOUS
  <1>2. \A x : NamesGrain(x)' <=> NamesGrain(x)
    BY NamesKept
  <1>3. ASSUME NEW v, Wakes(b, v)' PROVE Wakes(b, v)
    <2>1. PICK t \in media'[Gd(i)] :
             \/ t = Unallocated /\ v = Zero
             \/ /\ t # Unallocated
                /\ \E x \in media'[At(t, e)] : IF NamesGrain(x) THEN v \in media'[At(x, k)] ELSE v = Zero
      BY <1>1, <1>2, <1>3 DEF Wakes
    <2>2. t \in media[Gd(i)]
      BY <1>1, <2>1, RootsAre DEF Spares
    <2>3. CASE t = Unallocated
      BY <1>1, <2>1, <2>2, <2>3 DEF Wakes
    <2>4. CASE t # Unallocated
      <3>1. PICK x \in media'[At(t, e)] : IF NamesGrain(x) THEN v \in media'[At(x, k)] ELSE v = Zero
        BY <2>1, <2>4
      <3>2. x \in media[At(t, e)]
        BY <1>1, <2>2, <2>4, <3>1, RootsAre DEF Spares
      <3>3. NamesGrain(x) => v \in media[At(x, k)]
        BY <1>1, <2>2, <2>4, <3>1, <3>2, RootsAre DEF Spares
      <3>4. QED
        BY <1>1, <2>2, <2>4, <3>1, <3>2, <3>3 DEF Wakes
    <2>5. QED
      BY <2>3, <2>4
  <1>4. ASSUME gd'[i] = gd[i] PROVE Now(b)' = Now(b)
    <2>1. CASE gd[i] = Unallocated
      BY <1>1, <1>4, <2>1 DEF Now
    <2>2. CASE gd[i] # Unallocated
      <3>1. PICK g, x : g = gd[i] /\ x = disk[At(g, e)]
        OBVIOUS
      <3>2. disk'[At(g, e)] = x /\ (NamesGrain(x) => disk'[At(x, k)] = disk[At(x, k)])
        BY <1>1, <2>2, <3>1, RootsNow DEF Spares
      <3>3. QED
        BY <1>1, <1>2, <1>4, <2>2, <3>1, <3>2 DEF Now
    <2>3. QED
      BY <2>1, <2>2
  <1>5. QED
    BY <1>1, <1>3, <1>4

\* A cell that no primary place names.
Apart(c) == \A l \in PointerPlaces : c \in media[l] => \E j \in Indices : l = Rgd(j)

LEMMA FreshApart ==
    ASSUME NEW c, Fresh(c)
    PROVE  Apart(c)
  BY CellsAre DEF Fresh, Apart

LEMMA ApartSpares ==
    ASSUME Typed, Space, NEW c, Only(c), Apart(c), NEW b \in Blocks
    PROVE  Spares(b)
  <1>1. PICK i, e, k : i = IndexOf(b) /\ e = SlotOf(b) /\ k = WordOf(b)
    OBVIOUS
  <1>2. SUFFICES ASSUME NEW l \in Roots(b), NEW m, l = At(c, m) PROVE FALSE
    BY RootsAre DEF Only, Spares
  <1>3. l # Gd(i)
    BY <1>2, Locating
  <1>4. ASSUME NEW t \in media[Gd(i)] \ {Unallocated}, l = At(t, e) PROVE FALSE
    <2>1. t = c
      BY <1>2, <1>4, Locating
    <2>2. QED
      BY <1>1, <1>4, <2>1, RootsAre, Locating DEF Apart
  <1>5. ASSUME NEW t \in media[Gd(i)] \ {Unallocated}, NEW x \in media[At(t, e)], NamesGrain(x), l = At(x, k)
        PROVE  FALSE
    <2>1. x = c
      BY <1>2, <1>5, Locating
    <2>2. QED
      BY <1>1, <1>5, <2>1, RootsAre, Locating DEF Apart
  <1>6. QED
    BY <1>1, <1>2, <1>3, <1>4, <1>5 DEF Roots

\* A device write of one place, which the block is not read from.
LEMMA PutSpares ==
    ASSUME Typed, Space, NEW l, NEW v, Puts(l, v), NEW b \in Blocks, l \notin Roots(b)
    PROVE  Spares(b)
  BY RootsAre DEF Puts, Spares

\* The redundant table that the holder writes is named by its directory entry alone.
LEMMA CopyApart ==
    ASSUME Safe, Coherent, Kept, NEW w \in Writers, NamingStore(w), pc[w] \in {"mergeWrite", "entryRedundant"}
    PROVE  Only(rgd[Here(w).gt]) /\ Apart(rgd[Here(w).gt])
  <1>1. PICK i, r : i = Here(w).gt /\ r = rgd[Here(w).gt]
    OBVIOUS
  <1>2. Typed /\ Space /\ i \in Indices
    BY <1>1, HolderIs DEF Safe
  <1>3. r \in Cells /\ media[Rgd(i)] = {r}
    BY <1>1, TwinIs
  <1>4. Rgd(i) \in PointerPlaces /\ NamesGrain(r)
    BY <1>2, <1>3, CellsAre DEF PointerPlaces
  <1>5. Apart(r)
    BY <1>2, <1>3, <1>4 DEF Apart, Space
  <1>6. Only(r)
    <2>1. CASE pc[w] = "mergeWrite"
      BY <1>1, <2>1, NamingIs DEF Fills, Span, Only
    <2>2. CASE pc[w] = "entryRedundant"
      BY <1>1, <2>2, NamingIs DEF Puts, Only
    <2>3. QED
      BY <2>1, <2>2
  <1>7. QED
    BY <1>1, <1>5, <1>6

\* write_through's device write changes the words of its chunk and no others.
LEMMA PayloadWrites ==
    ASSUME Typed, NEW w \in Writers, PayloadStore(w), NEW n, n = my[w].new
    PROVE  /\ \A l \in Locs : (\A k : InChunk(w, k) => l # At(n, k)) => disk'[l] = disk[l] /\ media'[l] = media[l]
           /\ \A k : InChunk(w, k) /\ At(n, k) \in Locs =>
                 disk'[At(n, k)] = w /\ media'[At(n, k)] = media[At(n, k)] \cup {w}
  <1>1. pc[w] # "idle" /\ DevWriteAll(Payload(w))
    BY DEF PayloadStore
  <1>2. PICK i, l : i = Here(w).in /\ l = Here(w).len
    OBVIOUS
  <1>3. i \in Nat /\ l \in Nat
    BY <1>1, <1>2, HolderIs, ChunkIs DEF GrainWords
  <1>4. \A k : InChunk(w, k) <=> k \in i .. i + l - 1
    BY <1>2 DEF InChunk
  <1>5. Payload(w) = [m \in {At(n, i + k) : k \in 0 .. l - 1} |-> w]
    BY <1>2 DEF Payload
  <1>6. DOMAIN Payload(w) = {At(n, i + k) : k \in 0 .. l - 1} /\ \A m \in DOMAIN Payload(w) : Payload(w)[m] = w
    BY <1>5
  <1>7. \A k \in i .. i + l - 1 : k - i \in 0 .. l - 1 /\ i + (k - i) = k
    BY <1>3
  <1>8. \A k \in 0 .. l - 1 : i + k \in i .. i + l - 1
    BY <1>3
  <1>9. \A k : InChunk(w, k) => At(n, k) \in DOMAIN Payload(w)
    BY <1>4, <1>6, <1>7
  <1>10. \A m \in DOMAIN Payload(w) : \E k : InChunk(w, k) /\ m = At(n, k)
    BY <1>4, <1>6, <1>8
  <1>11. Header \notin DOMAIN Payload(w) /\ \A m \in DOMAIN Payload(w) : Fits(m, Payload(w)[m])
    BY PayloadFits
  <1>12. \A m \in Locs : IF m \in DOMAIN Payload(w)
                         THEN disk'[m] = Payload(w)[m] /\ media'[m] = media[m] \cup {Payload(w)[m]}
                         ELSE disk'[m] = disk[m] /\ media'[m] = media[m]
    BY <1>1, <1>11, WriteIs DEF Typed
  <1>13. QED
    BY <1>6, <1>9, <1>10, <1>12

\* A block of the chunk reads as what its writer writes, the others are left alone.
LEMMA PayloadNow ==
    ASSUME Safe, Coherent, Told, disk'[Header] = disk[Header], gd' = gd, NEW w \in Writers, PayloadStore(w),
           NEW b \in Blocks
    PROVE  IF b \in Chunk(w) THEN Now(b)' = w /\ \A v : Wakes(b, v)' => Wakes(b, v) \/ v = w
           ELSE Spares(b)
  <1>1. PICK n, i, e, g : n = my[w].new /\ i = Here(w).gt /\ e = Here(w).gte /\ g = gd[Here(w).gt]
    OBVIOUS
  <1>2. Typed /\ Space /\ TablesAgree /\ pc[w] = "through"
    BY DEF Safe, Coherent, PayloadStore
  <1>3. WriterOK(w) /\ i \in Indices /\ e \in Slots
    BY <1>1, <1>2, HolderIs
  <1>4. Grain(n, i, e)
    BY <1>1, <1>2 DEF Told, ThroughKnows
  <1>5. /\ g \in Cells /\ g \in media[Gd(i)] /\ NamesGrain(n) /\ n \in Cells /\ g # Unallocated
        /\ At(g, e) \in PointerPlaces /\ n \in media[At(g, e)] /\ n = disk[At(g, e)]
        /\ \A k \in GrainWords : At(n, k) \in Locs
    BY <1>1, <1>2, <1>3, <1>4, GrainIs DEF Grain
  <1>6. Gd(i) \in PointerPlaces /\ NamesGrain(g)
    BY <1>3, <1>5, CellsAre DEF PointerPlaces
  <1>7. /\ \A l \in Locs : (\A k : InChunk(w, k) => l # At(n, k)) => disk'[l] = disk[l] /\ media'[l] = media[l]
        /\ \A k : InChunk(w, k) /\ At(n, k) \in Locs =>
              disk'[At(n, k)] = w /\ media'[At(n, k)] = media[At(n, k)] \cup {w}
    BY <1>1, <1>2, PayloadWrites
  <1>8. ASSUME NEW l \in PointerPlaces, n \in media[l] PROVE l = At(g, e)
    BY <1>2, <1>5, <1>8 DEF Space
  <1>9. ASSUME NEW l \in PointerPlaces, g \in media[l] PROVE l = Gd(i)
    BY <1>2, <1>5, <1>6, <1>9 DEF Space
  <1>10. PICK j, f, k : j = IndexOf(b) /\ f = SlotOf(b) /\ k = WordOf(b)
    OBVIOUS
  <1>11. ASSUME NEW t \in media[Gd(j)], t # Unallocated
         PROVE  t # n /\ \A x \in media[At(t, f)] : x = n => j = i /\ f = e
    <2>1. Gd(j) \in PointerPlaces /\ At(t, f) \in PointerPlaces
      BY <1>2, <1>10, <1>11, RootsAre
    <2>2. t # n
      BY <1>8, <1>11, <2>1, Locating
    <2>3. ASSUME n \in media[At(t, f)] PROVE j = i /\ f = e
      <3>1. t = g /\ f = e
        BY <1>8, <2>1, <2>3, Locating
      <3>2. j = i
        BY <1>9, <1>11, <2>1, <3>1, Locating
      <3>3. QED
        BY <3>1, <3>2
    <2>4. QED
      BY <2>2, <2>3
  <1>12. b \in Chunk(w) <=> j = i /\ f = e /\ InChunk(w, k)
    BY <1>1, <1>2, <1>3, <1>10, ChunkIs
  <1>13. CASE b \notin Chunk(w)
    <2>1. SUFFICES ASSUME NEW l \in Roots(b), NEW m, InChunk(w, m), l = At(n, m) PROVE FALSE
      BY <1>2, <1>7, <1>13, RootsAre DEF Spares
    <2>2. l # Gd(j)
      BY <2>1, Locating
    <2>3. \A t \in media[Gd(j)] \ {Unallocated} : l # At(t, f)
      BY <1>11, <2>1, Locating
    <2>4. ASSUME NEW t \in media[Gd(j)] \ {Unallocated}, NEW x \in media[At(t, f)], NamesGrain(x), l = At(x, k)
          PROVE  FALSE
      <3>1. At(x, k) = At(n, m)
        BY <2>1, <2>4
      <3>2. x = n /\ k = m
        BY <3>1, Locating
      <3>3. QED
        BY <1>11, <1>12, <1>13, <2>1, <2>4, <3>2
    <2>5. QED
      BY <1>10, <2>1, <2>2, <2>3, <2>4 DEF Roots
  <1>14. CASE b \in Chunk(w)
    <2>1. j = i /\ f = e /\ InChunk(w, k) /\ k \in GrainWords
      BY <1>10, <1>12, <1>14, BlockIs
    <2>2. \A x : NamesGrain(x)' <=> NamesGrain(x)
      BY NamesKept
    <2>3. media'[Gd(j)] = media[Gd(j)]
      BY <1>2, <1>7, <1>10, RootsAre, Locating
    <2>4. ASSUME NEW t \in media[Gd(j)], t # Unallocated
          PROVE  disk'[At(t, f)] = disk[At(t, f)] /\ media'[At(t, f)] = media[At(t, f)]
      <3>1. At(t, f) \in Locs
        BY <1>2, <1>10, <2>4, RootsAre
      <3>2. t # n
        BY <1>11, <2>4
      <3>3. QED
        BY <1>7, <3>1, <3>2, Locating
    <2>5. Now(b)' = w
      <3>1. disk'[At(g, e)] = n /\ disk'[At(n, k)] = w
        BY <1>5, <1>7, <2>1, <2>4
      <3>2. QED
        BY <1>1, <1>5, <1>10, <2>1, <2>2, <3>1 DEF Now
    <2>6. ASSUME NEW v, Wakes(b, v)' PROVE Wakes(b, v) \/ v = w
      <3>1. PICK t \in media[Gd(j)] :
               \/ t = Unallocated /\ v = Zero
               \/ /\ t # Unallocated
                  /\ \E x \in media'[At(t, f)] : IF NamesGrain(x) THEN v \in media'[At(x, k)] ELSE v = Zero
        BY <1>10, <2>2, <2>3, <2>6 DEF Wakes
      <3>2. CASE t = Unallocated
        BY <1>10, <3>1, <3>2 DEF Wakes
      <3>3. CASE t # Unallocated
        <4>1. PICK x \in media[At(t, f)] : IF NamesGrain(x) THEN v \in media'[At(x, k)] ELSE v = Zero
          BY <2>4, <3>1, <3>3
        <4>2. NamesGrain(x) => v \in media[At(x, k)] \/ v = w
          <5>1. SUFFICES ASSUME NamesGrain(x) PROVE v \in media[At(x, k)] \/ v = w
            OBVIOUS
          <5>2. At(x, k) \in Locs
            BY <1>2, <1>10, <3>3, <4>1, <5>1, RootsAre
          <5>3. CASE x = n
            BY <1>7, <2>1, <4>1, <5>1, <5>2, <5>3
          <5>4. CASE x # n
            BY <1>7, <4>1, <5>1, <5>2, <5>4, Locating
          <5>5. QED
            BY <5>3, <5>4
        <4>3. QED
          BY <1>10, <3>3, <4>1, <4>2 DEF Wakes
      <3>4. QED
        BY <3>2, <3>3
    <2>7. QED
      BY <1>14, <2>5, <2>6
  <1>15. QED
    BY <1>13, <1>14

-----------------------------------------------------------------------------
(* What a new grain holds *)

\* The word k of the grain that w fills for the chunk a.
Word(w, a, k) == IF k \in a.in .. a.in + a.len - 1 THEN w ELSE Zero

\* What is so at place p of the new grain n: zeros around the chunk before its bytes,
\* then both, then both for good.
Holds(p, n, a, w) ==
    /\ p = "grainData" /\ a.len < BlocksPerGrain => \A k \in GrainWords : disk[At(n, k)] = Zero
    /\ p = "grainFlush" => \A k \in GrainWords : disk[At(n, k)] = Word(w, a, k)
    /\ p \in EntryPlaces => \A k \in GrainWords : media[At(n, k)] = {Word(w, a, k)}

Filling(w) == Holds(pc[w], my[w].new, Here(w), w)

Contents == \A w \in Writers : Filling(w)

HoldingPlaces == {"grainData", "grainFlush"} \cup EntryPlaces

LEMMA HoldsBy ==
    ASSUME NEW w, NEW p, NEW n, NEW a, pc'[w] = p, my'[w].new = n, Here(w)' = a, Holds(p, n, a, w)'
    PROVE  Filling(w)'
  BY DEF Filling

LEMMA HoldsOver ==
    ASSUME NEW w, pc'[w] \notin HoldingPlaces
    PROVE  Filling(w)'
  <1>1. PICK p, n, a : p = pc'[w] /\ n = my'[w].new /\ a = Here(w)'
    OBVIOUS
  <1>2. p # "grainData" /\ p # "grainFlush" /\ p \notin EntryPlaces
    BY <1>1 DEF HoldingPlaces
  <1>3. Holds(p, n, a, w)'
    BY <1>2 DEF Holds
  <1>4. QED
    BY <1>1, <1>3, HoldsBy

\* What a thread that fills a grain has: a cell that nothing names.
LEMMA FillerIs ==
    ASSUME Safe, NEW w \in Writers, pc[w] \in {"grainZero"} \cup HoldingPlaces
    PROVE  /\ Typed /\ WriterOK(w) /\ pc[w] # "idle" /\ pc[w] \in HeldPlaces
           /\ Fresh(my[w].new) /\ my[w].new \in Cells
           /\ \A k \in GrainWords : /\ At(my[w].new, k) \in Locs
                                    /\ disk[At(my[w].new, k)] \in media[At(my[w].new, k)]
  <1>1. PICK n : n = my[w].new
    OBVIOUS
  <1>2. pc[w] \in GrainPlaces
    BY DEF HoldingPlaces, GrainPlaces
  <1>3. pc[w] # "idle" /\ pc[w] \in HeldPlaces
    BY <1>2 DEF HeldPlaces, GrainPlaces, EntryPlaces
  <1>4. Typed /\ DeviceOK /\ WriterOK(w)
    BY <1>3, HolderIs DEF Safe, Typed
  <1>5. Fresh(n)
    BY <1>1, <1>2 DEF Safe, Owns, Claims
  <1>6. n \in Cells
    BY <1>5 DEF Fresh
  <1>7. \A k \in GrainWords : At(n, k) \in Locs
    BY <1>6, BlocksAre DEF GrainWords, Words, Locs
  <1>8. QED
    BY <1>1, <1>3, <1>4, <1>5, <1>6, <1>7 DEF DeviceOK

\* A step that leaves the grain alone.
LEMMA HoldsSame ==
    ASSUME NEW p, NEW n, NEW a, NEW w, Holds(p, n, a, w),
           \A k \in GrainWords : disk'[At(n, k)] = disk[At(n, k)] /\ media'[At(n, k)] = media[At(n, k)]
    PROVE  Holds(p, n, a, w)'
  BY DEF Holds, Word

\* Another thread's step leaves the grain that q fills alone.
LEMMA OtherFills ==
    ASSUME Safe, Coherent, Told, Contents, [Next]_vars, ~Crash, NEW q \in Writers,
           ~CallWrite(q), ~WriterStep(q)
    PROVE  Filling(q)'
  <1>1. Typed /\ pc'[q] = pc[q] /\ my'[q] = my[q]
    BY OneMoves DEF Safe
  <1>2. CASE pc[q] \notin HoldingPlaces
    BY <1>1, <1>2, HoldsOver
  <1>3. CASE pc[q] \in HoldingPlaces
    <2>1. PICK p, n, a : p = pc[q] /\ n = my[q].new /\ a = Here(q)
      OBVIOUS
    <2>2. /\ pc[q] # "idle" /\ pc[q] \in HeldPlaces /\ Fresh(n)
          /\ \A k \in GrainWords : At(n, k) \in Locs
      BY <1>3, <2>1, FillerIs
    <2>3. Here(q)' = a /\ Holds(p, n, a, q)
      BY <1>1, <2>1, HereKept DEF Contents, Filling
    <2>4. SUFFICES \A k \in GrainWords : disk'[At(n, k)] = disk[At(n, k)] /\ media'[At(n, k)] = media[At(n, k)]
      <3>1. Holds(p, n, a, q)'
        BY <2>3, <2>4, HoldsSame
      <3>2. QED
        BY <1>1, <2>1, <2>3, <3>1, HoldsBy
    <2>5. CASE UNCHANGED devVars
      BY <2>5 DEF devVars
    <2>6. ASSUME NEW w \in Writers, PayloadStore(w)
          PROVE  \A k \in GrainWords : disk'[At(n, k)] = disk[At(n, k)] /\ media'[At(n, k)] = media[At(n, k)]
      <3>1. PICK c, i, e : c = my[w].new /\ i = Here(w).gt /\ e = Here(w).gte
        OBVIOUS
      <3>2. i \in Indices /\ e \in Slots /\ Grain(c, i, e) /\ Only(c)
        BY <1>1, <2>6, <3>1, HolderIs, PayloadIsOnly DEF PayloadStore, Told, ThroughKnows
      <3>3. n # c
        BY <2>2, <3>2, FreshIsNoGrain
      <3>4. QED
        BY <2>2, <3>2, <3>3, Locating DEF Only
    <2>7. UNCHANGED devVars \/ \E w \in Writers : PayloadStore(w)
      <3>1. Next \/ UNCHANGED vars
        OBVIOUS
      <3>2. CASE UNCHANGED vars \/ \E i \in Indices : ReaderLoads(i)
        BY <3>2 DEF ReaderLoads, vars, devVars
      <3>3. CASE Flush
        BY <2>2, <3>3 DEF Flush
      <3>4. ASSUME NEW w \in Writers, CallWrite(w) \/ WriterStep(w)
            PROVE  UNCHANGED devVars \/ \E x \in Writers : PayloadStore(x)
        <4>1. w # q
          BY <3>4
        <4>2. pc[w] \notin HeldPlaces
          BY <1>1, <2>2, <4>1, OneHolder
        <4>3. QED
          BY <1>1, <3>4, <4>2, FreeMoves
      <3>5. QED
        BY <3>1, <3>2, <3>3, <3>4 DEF Next
    <2>8. QED
      BY <2>5, <2>6, <2>7
  <1>4. QED
    BY <1>2, <1>3

\* allocate_and_write's stores: zeros, the chunk, the entries.
LEMMA StoreFills ==
    ASSUME Safe, Coherent, Kept, Contents, NEW w \in Writers, Store(w)
    PROVE  Filling(w)'
  <1>1. PICK p, to, n, a : p = pc[w] /\ to = AfterStore[pc[w]] /\ n = my[w].new /\ a = Here(w)
    OBVIOUS
  <1>2. /\ Typed /\ p \in DOMAIN AfterStore /\ DevWriteAll(Stores(w)) /\ Goto(w, to) /\ my' = my
        /\ gd' = gd /\ rgd' = rgd /\ cursor' = cursor /\ tables' = tables
    BY <1>1 DEF Store, memory, Safe
  <1>3. pc'[w] = to /\ my'[w].new = n /\ Here(w)' = a
    <2>1. Here(w)' = Here(w)
      BY <1>2, HereKept
    <2>2. QED
      BY <1>1, <1>2, <2>1 DEF Goto, Typed, ThreadsOK
  <1>4. CASE to \notin HoldingPlaces
    BY <1>3, <1>4, HoldsOver
  <1>5. CASE to \in HoldingPlaces
    <2>1. p \in {"grainZero", "grainData", "entryRedundant"}
      BY <1>1, <1>2, <1>5, AfterStoreIs DEF HoldingPlaces, EntryPlaces
    <2>2. p \in {"grainZero"} \cup HoldingPlaces
      BY <2>1 DEF HoldingPlaces, EntryPlaces
    <2>3. WriterOK(w) /\ p # "idle" /\ Fresh(n) /\ \A k \in GrainWords : At(n, k) \in Locs
      BY <1>1, <2>2, FillerIs
    <2>4. Holds(p, n, a, w)
      BY <1>1 DEF Contents, Filling
    <2>5. \A l \in Locs : IF l \in DOMAIN Stores(w) THEN disk'[l] = Stores(w)[l]
                          ELSE disk'[l] = disk[l] /\ media'[l] = media[l]
      BY <1>1, <1>2, <2>1, WordStores DEF WordPlaces
    <2>6. CASE p = "grainZero"
      <3>1. DOMAIN Stores(w) = Span(n, GrainWords) /\ \A l \in DOMAIN Stores(w) : Stores(w)[l] = Zero
        BY <1>1, <2>6 DEF Stores, Span, GrainWords
      <3>2. \A k \in GrainWords : disk'[At(n, k)] = Zero
        BY <2>3, <2>5, <3>1 DEF Span
      <3>3. to = "grainData"
        BY <1>1, <2>6, AfterStoreIs
      <3>4. Holds(to, n, a, w)'
        BY <3>2, <3>3 DEF Holds, EntryPlaces
      <3>5. QED
        BY <1>3, <3>4, HoldsBy
    <2>7. CASE p = "grainData"
      <3>1. PICK i, l : i = a.in /\ l = a.len
        OBVIOUS
      <3>2. i \in GrainWords /\ l \in Nat \ {0} /\ i + l <= BlocksPerGrain
        BY <1>1, <2>3, <3>1, ChunkIs
      <3>3. i \in Nat /\ BlocksPerGrain \in Nat \ {0}
        BY <3>2, BlocksAre DEF GrainWords
      <3>4. Stores(w) = [m \in {At(n, i + k) : k \in 0 .. l - 1} |-> w]
        BY <1>1, <2>7, <3>1 DEF Stores, Payload
      <3>5. DOMAIN Stores(w) = {At(n, i + k) : k \in 0 .. l - 1} /\ \A m \in DOMAIN Stores(w) : Stores(w)[m] = w
        BY <3>4
      <3>6. \A k \in i .. i + l - 1 : k - i \in 0 .. l - 1 /\ i + (k - i) = k
        BY <3>2, <3>3
      <3>7. \A k \in 0 .. l - 1 : i + k \in i .. i + l - 1
        BY <3>2, <3>3
      <3>8. ASSUME NEW k \in GrainWords PROVE disk'[At(n, k)] = Word(w, a, k)
        <4>1. CASE k \in i .. i + l - 1
          <5>1. At(n, k) \in DOMAIN Stores(w)
            BY <3>5, <3>6, <4>1
          <5>2. QED
            BY <2>3, <2>5, <3>1, <3>5, <4>1, <5>1 DEF Word
        <4>2. CASE k \notin i .. i + l - 1
          <5>1. At(n, k) \notin DOMAIN Stores(w)
            BY <3>5, <3>7, <4>2, Locating
          <5>2. l < BlocksPerGrain
            BY <3>2, <3>3, <4>2 DEF GrainWords
          <5>3. disk[At(n, k)] = Zero
            BY <2>4, <2>7, <3>1, <5>2 DEF Holds
          <5>4. QED
            BY <2>3, <2>5, <3>1, <4>2, <5>1, <5>3 DEF Word
        <4>3. QED
          BY <4>1, <4>2
      <3>9. to = "grainFlush"
        BY <1>1, <2>7, AfterStoreIs
      <3>10. Holds(to, n, a, w)'
        BY <3>8, <3>9 DEF Holds, EntryPlaces, Word
      <3>11. QED
        BY <1>3, <3>10, HoldsBy
    <2>8. CASE p = "entryRedundant"
      <3>1. PICK r : r = rgd[Here(w).gt]
        OBVIOUS
      <3>2. NamingStore(w) /\ n # r
        <4>1. Here(w).gt \in Indices
          BY <1>1, <1>2, <2>3, HolderIs
        <4>2. QED
          BY <1>1, <1>2, <2>3, <2>8, <3>1, <4>1 DEF NamingStore, NamingPlaces, Fresh
      <3>3. Only(r)
        BY <1>1, <2>8, <3>1, <3>2, CopyApart
      <3>4. \A k \in GrainWords : disk'[At(n, k)] = disk[At(n, k)] /\ media'[At(n, k)] = media[At(n, k)]
        BY <2>3, <3>2, <3>3, Locating DEF Only
      <3>5. to = "entryFlush" /\ p \in EntryPlaces
        BY <1>1, <2>8, AfterStoreIs DEF EntryPlaces
      <3>6. Holds(p, n, a, w)'
        BY <2>4, <3>4, HoldsSame
      <3>7. Holds(to, n, a, w)'
        BY <3>5, <3>6 DEF Holds, EntryPlaces
      <3>8. QED
        BY <1>3, <3>7, HoldsBy
    <2>9. QED
      BY <2>1, <2>6, <2>7, <2>8
  <1>6. QED
    BY <1>4, <1>5

LEMMA FlushFills ==
    ASSUME Safe, Contents, NEW w \in Writers, Flushed(w)
    PROVE  Filling(w)'
  <1>1. PICK p, to, n, a : p = pc[w] /\ to = AfterFlush[pc[w]] /\ n = my[w].new /\ a = Here(w)
    OBVIOUS
  <1>2. Typed /\ p \in DOMAIN AfterFlush /\ DevFlush /\ Goto(w, to) /\ my' = my
    BY <1>1 DEF Flushed, Safe
  <1>3. pc'[w] = to /\ my'[w].new = n /\ Here(w)' = a
    <2>1. Here(w)' = Here(w)
      BY <1>2, HereKept
    <2>2. QED
      BY <1>1, <1>2, <2>1 DEF Goto, Typed, ThreadsOK
  <1>4. CASE p = "seedFlush"
    <2>1. to \notin HoldingPlaces
      BY <1>1, <1>4, AfterFlushIs DEF HoldingPlaces, EntryPlaces
    <2>2. QED
      BY <1>3, <2>1, HoldsOver
  <1>5. CASE p \in {"grainFlush", "entryFlush"}
    <2>1. to \in EntryPlaces /\ p \in {"grainZero"} \cup HoldingPlaces
      BY <1>1, <1>5, AfterFlushIs DEF HoldingPlaces, EntryPlaces
    <2>2. \A k \in GrainWords : At(n, k) \in Locs /\ disk[At(n, k)] \in media[At(n, k)]
      BY <1>1, <2>1, FillerIs
    <2>3. \A l \in Locs : media'[l] = {disk[l]}
      BY <1>2, FlushIs DEF Typed
    <2>4. Holds(p, n, a, w)
      BY <1>1 DEF Contents, Filling
    <2>5. ASSUME NEW k \in GrainWords PROVE disk[At(n, k)] = Word(w, a, k)
      <3>1. CASE p = "grainFlush"
        BY <2>4, <3>1 DEF Holds
      <3>2. CASE p = "entryFlush"
        BY <2>2, <2>4, <3>2 DEF Holds, EntryPlaces
      <3>3. QED
        BY <1>5, <3>1, <3>2
    <2>6. \A k \in GrainWords : media'[At(n, k)] = {Word(w, a, k)}
      BY <2>2, <2>3, <2>5
    <2>7. Holds(to, n, a, w)'
      BY <2>1, <2>6 DEF Holds, EntryPlaces, Word
    <2>8. QED
      BY <1>3, <2>7, HoldsBy
  <1>6. QED
    BY <1>1, <1>2, <1>4, <1>5, AfterFlushIs

LEMMA SpaceFills ==
    ASSUME Safe, NEW w \in Writers, GrainSpace(w)
    PROVE  Filling(w)'
  <1>1. PICK a, to, c : /\ a = Here(w) /\ c = cursor
                        /\ to = IF Here(w).len < BlocksPerGrain THEN "grainZero" ELSE "grainData"
    OBVIOUS
  <1>2. Typed /\ TakeCell(w, to)
    BY <1>1 DEF GrainSpace, Safe
  <1>3. Goto(w, to) /\ my' = [my EXCEPT ![w].new = c]
    BY <1>1, <1>2 DEF TakeCell
  <1>4. Becomes(w, my[w].at, my[w].end, my[w].table, c, my[w].purpose)
    BY <1>2, <1>3, MyIs DEF Typed
  <1>5. my'[w].at = my[w].at /\ my'[w].end = my[w].end /\ my'[w].new = c
    BY <1>4 DEF Becomes
  <1>6. pc'[w] = to /\ Here(w)' = a
    <2>1. Here(w)' = Here(w)
      BY <1>5, HereKept
    <2>2. QED
      BY <1>1, <1>2, <1>3, <2>1 DEF Goto, Typed, ThreadsOK
  <1>7. Holds(to, c, a, w)'
    BY <1>1 DEF Holds, EntryPlaces
  <1>8. QED
    BY <1>5, <1>6, <1>7, HoldsBy

LEMMA ContentsStep ==
    ASSUME Safe, Coherent, Told, Kept, Contents, [Next]_vars
    PROVE  Contents'
  <1> SUFFICES ASSUME NEW q \in Writers PROVE Filling(q)'
    BY DEF Contents
  <1>1. CASE Crash
    <2>1. pc'[q] = "idle"
      BY <1>1 DEF Crash
    <2>2. QED
      BY <2>1, HoldsOver DEF HoldingPlaces, EntryPlaces
  <1>2. CASE ~Crash /\ ~CallWrite(q) /\ ~WriterStep(q)
    BY <1>2, OtherFills
  <1>3. CASE Store(q) \/ Flushed(q) \/ GrainSpace(q)
    BY <1>3, StoreFills, FlushFills, SpaceFills
  <1>4. CASE CallWrite(q) \/ BackingTable(q) \/ BackingGrain(q) \/ Allocate(q) \/ TableSpace(q)
    <2>1. pc'[q] \in {"gd", "allocate", "gt", "through", "tableSpace", "gt2", "tableZero"}
      BY <1>4 DEF CallWrite, BackingTable, BackingGrain, Allocate, TableSpace, TakeCell, Goto, Safe, Typed, ThreadsOK
    <2>2. QED
      BY <2>1, HoldsOver DEF HoldingPlaces, EntryPlaces
  <1>5. CASE TableFlush(q)
    <2>1. pc[q] = "tableFlush" /\ Goto(q, AfterBlank(q))
      BY <1>5 DEF TableFlush
    <2>2. my[q].purpose \in {"primary", "twin", "seed"}
      BY <2>1, HolderIs DEF WriterOK, TablePlaces, Safe
    <2>3. pc'[q] \in {"tableSpace", "gdWrite", "rgdWrite", "seedCopy"}
      BY <2>1, <2>2 DEF AfterBlank, Goto, Safe, Typed, ThreadsOK
    <2>4. QED
      BY <2>3, HoldsOver DEF HoldingPlaces, EntryPlaces
  <1>6. CASE RgdFlush(q) \/ GdFlush(q) \/ Invalidate(q) \/ LookAgain(q) \/ Redundant(q) \/ MergeFlush(q)
    <2>1. pc'[q] \in {"gdWrite", "grainSpace", "invalidate", "gt2", "through", "redundant", "tableSpace",
                      "mergeWrite"}
      BY <1>6 DEF RgdFlush, GdFlush, Invalidate, LookAgain, Redundant, MergeFlush, Goto, Safe, Typed, ThreadsOK
    <2>2. QED
      BY <2>1, HoldsOver DEF HoldingPlaces, EntryPlaces
  <1>7. CASE Through(q) \/ Refresh(q) \/ Refused(q) \/ WriteFails(q) \/ FlushFails(q)
    <2>1. pc'[q] \in {"idle", "gd"}
      BY <1>7 DEF Through, Refresh, ChunkDone, Refused, WriteFails, FlushFails, Fail, Goto, Safe, Typed, ThreadsOK
    <2>2. QED
      BY <2>1, HoldsOver DEF HoldingPlaces, EntryPlaces
  <1>8. QED
    BY <1>1, <1>2, <1>3, <1>4, <1>5, <1>6, <1>7 DEF WriterStep

LEMMA ContentsInit == Init => Contents
  <1> SUFFICES ASSUME Init, NEW w \in Writers PROVE Filling(w)
    BY DEF Contents
  <1>1. pc[w] = "idle"
    BY DEF Init
  <1>2. QED
    BY <1>1 DEF Filling, Holds, EntryPlaces

-----------------------------------------------------------------------------
(* What every step makes of a block *)

\* A step leaves b as it was; or b becomes what w, which has it in its chunk, writes.
Spared(b) == Now(b)' = Now(b) /\ \A v : Wakes(b, v)' => Wakes(b, v)
Written(w, b) == /\ pc[w] # "idle" /\ b \in Chunk(w)
                 /\ Now(b)' = w /\ \A v : Wakes(b, v)' => Wakes(b, v) \/ v = w

LEMMA SettlesSpares ==
    ASSUME Typed, Space, Settles \/ Lengthens, NEW b \in Blocks
    PROVE  Spares(b)
  <1>1. Roots(b) \subseteq Locs \ {Length, Header}
    BY RootsAre
  <1>2. QED
    BY <1>1 DEF Spares, Settles, Lengthens

\* publish_directory_entry's write of a blank primary table.
LEMMA GdWriteNow ==
    ASSUME Safe, Coherent, Kept, disk'[Header] = disk[Header], gd' = gd,
           NEW w \in Writers, NamingStore(w), pc[w] = "gdWrite", NEW b \in Blocks
    PROVE  Spared(b)
  <1>1. PICK i, t, j, e, k : /\ i = Here(w).gt /\ t = my[w].table
                             /\ j = IndexOf(b) /\ e = SlotOf(b) /\ k = WordOf(b)
    OBVIOUS
  <1>2. Typed /\ Space /\ TablesAgree
    BY DEF Safe, Coherent
  <1>3. i \in Indices /\ j \in Indices /\ e \in Slots
    BY <1>1, <1>2, HolderIs, BlockIs
  <1>4. Puts(Gd(i), t)
    BY <1>1, NamingIs
  <1>5. CASE i # j
    <2>1. Gd(i) \notin Roots(b)
      BY <1>1, <1>5, Locating DEF Roots
    <2>2. QED
      BY <1>2, <1>4, <2>1, PutSpares, SparedIs DEF Spared
  <1>6. CASE i = j
    <2>1. gd[i] = Unallocated /\ Ready(t)
      BY <1>1 DEF Coherent, KnowsTable, Knows, GdPlaces, Safe, Owns, Claims
    <2>2. t \in Cells /\ t # Unallocated /\ media[At(t, e)] = {Unallocated} /\ At(t, e) \in Locs
      BY <1>3, <2>1, CellsAre, Locating DEF Ready, Fresh
    <2>3. Now(b) = Zero /\ Now(b)' = Zero
      BY <1>1, <1>6, <2>1 DEF Now
    <2>4. \A x : NamesGrain(x)' <=> NamesGrain(x)
      BY NamesKept
    <2>5. ~NamesGrain(Unallocated)
      BY CellsAre
    <2>6. Held(i)
      BY <1>3 DEF Kept
    <2>7. Wakes(b, Zero)
      <3>1. disk[Gd(i)] \in media[Gd(i)]
        BY <1>2, <1>3, Locating DEF Typed, DeviceOK
      <3>2. PICK u : u \in media[Gd(i)]
        BY <3>1
      <3>3. u # Unallocated => media[At(u, e)] = {Unallocated}
        BY <1>3, <2>1, <2>6, <3>2 DEF Held
      <3>4. QED
        BY <1>1, <1>6, <2>5, <3>2, <3>3 DEF Wakes
    <2>8. ASSUME NEW v, Wakes(b, v)' PROVE Wakes(b, v)
      <3>1. PICK u \in media'[Gd(i)] :
               \/ u = Unallocated /\ v = Zero
               \/ /\ u # Unallocated
                  /\ \E x \in media'[At(u, e)] : IF NamesGrain(x) THEN v \in media'[At(x, k)] ELSE v = Zero
        BY <1>1, <1>6, <2>4, <2>8 DEF Wakes
      <3>2. CASE u = Unallocated
        BY <2>7, <3>1, <3>2
      <3>3. CASE u # Unallocated
        <4>1. u \in media[Gd(i)] \/ u = t
          BY <1>4, <3>1 DEF Puts
        <4>2. media[At(u, e)] = {Unallocated} /\ At(u, e) \in Locs
          BY <1>1, <1>2, <1>3, <1>6, <2>1, <2>2, <2>6, <3>3, <4>1, RootsAre DEF Held
        <4>3. media'[At(u, e)] = {Unallocated}
          BY <1>4, <4>2, Locating DEF Puts
        <4>4. QED
          BY <2>5, <2>7, <3>1, <3>3, <4>3
      <3>4. QED
        BY <3>2, <3>3
    <2>9. QED
      BY <2>3, <2>8 DEF Spared
  <1>7. QED
    BY <1>5, <1>6

\* update_gt_entry's write of the primary entry: the chunk appears, zeros around it.
LEMMA EntryNow ==
    ASSUME Safe, Coherent, Kept, Contents, disk'[Header] = disk[Header], gd' = gd,
           NEW w \in Writers, NamingStore(w), pc[w] = "entryPrimary", NEW b \in Blocks
    PROVE  IF b \in Chunk(w) THEN Written(w, b) ELSE Spared(b)
  <1>1. PICK i, e, n, g, j, f, k, a :
           /\ i = Here(w).gt /\ e = Here(w).gte /\ n = my[w].new /\ g = gd[Here(w).gt] /\ a = Here(w)
           /\ j = IndexOf(b) /\ f = SlotOf(b) /\ k = WordOf(b)
    OBVIOUS
  <1>2. Typed /\ Space /\ TablesAgree /\ pc[w] # "idle" /\ pc[w] \in HoldingPlaces /\ pc[w] \in EntryPlaces
        /\ pc[w] \in GrainPlaces
    BY DEF Safe, Coherent, HoldingPlaces, EntryPlaces, GrainPlaces
  <1>3. i \in Indices /\ e \in Slots /\ WriterOK(w) /\ j \in Indices /\ f \in Slots /\ k \in GrainWords
    BY <1>1, <1>2, HolderIs, BlockIs
  <1>4. Puts(At(g, e), n)
    BY <1>1, NamingIs
  <1>5. g \in Cells /\ g # Unallocated /\ media[Gd(i)] = {g} /\ ~NamesGrain(disk[At(g, e)])
    BY <1>1, <1>2, BothAre
  <1>6. g \in TableCells
    BY <1>3, <1>5 DEF TableCells
  <1>7. Fresh(n) /\ n \in Cells /\ \A m \in GrainWords : At(n, m) \in Locs
    BY <1>1, <1>2, FillerIs
  <1>8. n # g /\ NamesGrain(n)
    BY <1>6, <1>7, FreshIsNoTable, CellsAre
  <1>9. CASE j # i \/ f # e
    <2>1. b \notin Chunk(w)
      BY <1>1, <1>2, <1>3, <1>9, ChunkIs
    <2>2. At(g, e) \notin Roots(b)
      <3>1. At(g, e) # Gd(j)
        BY Locating
      <3>2. ASSUME NEW t \in media[Gd(j)] \ {Unallocated}, At(g, e) = At(t, f) PROVE FALSE
        <4>1. g = t /\ e = f
          BY <3>2, Locating
        <4>2. Gd(i) \in PointerPlaces /\ Gd(j) \in PointerPlaces /\ NamesGrain(g)
          BY <1>3, <1>5, CellsAre DEF PointerPlaces
        <4>3. Gd(i) = Gd(j)
          BY <1>2, <1>5, <3>2, <4>1, <4>2 DEF Space
        <4>4. QED
          BY <1>9, <4>1, <4>3, Locating
      <3>3. ASSUME NEW t \in media[Gd(j)] \ {Unallocated}, NEW x \in media[At(t, f)], NamesGrain(x),
                   At(g, e) = At(x, k)
            PROVE  FALSE
        <4>1. g = x
          BY <3>3, Locating
        <4>2. Gd(i) \in PointerPlaces /\ At(t, f) \in PointerPlaces
          BY <1>1, <1>2, <1>3, <3>3, RootsAre DEF PointerPlaces
        <4>3. Gd(i) = At(t, f)
          BY <1>2, <1>5, <3>3, <4>1, <4>2 DEF Space
        <4>4. QED
          BY <4>3, Locating
      <3>4. QED
        BY <1>1, <3>1, <3>2, <3>3 DEF Roots
    <2>3. QED
      BY <1>2, <1>4, <2>1, <2>2, PutSpares, SparedIs DEF Spared
  <1>10. CASE j = i /\ f = e
    <2>1. PICK z : z = Word(w, a, k)
      OBVIOUS
    <2>2. media[At(n, k)] = {z}
      <3>1. Filling(w)
        BY DEF Contents
      <3>2. Holds(pc[w], n, a, w)
        BY <1>1, <3>1 DEF Filling
      <3>3. QED
        BY <1>2, <1>3, <2>1, <3>2 DEF Holds
    <2>3. disk[At(n, k)] = z
      BY <1>2, <1>3, <1>7, <2>2 DEF Typed, DeviceOK
    <2>4. At(g, e) \in Locs /\ At(n, k) \in Locs /\ At(n, k) # At(g, e) /\ Gd(i) \in Locs /\ Gd(i) # At(g, e)
      BY <1>3, <1>5, <1>7, <1>8, Locating
    <2>5. /\ disk'[At(g, e)] = n /\ disk'[At(n, k)] = z /\ media'[At(n, k)] = {z}
          /\ media'[At(g, e)] = media[At(g, e)] \cup {n} /\ media'[Gd(i)] = {g}
      BY <1>4, <1>5, <2>2, <2>3, <2>4 DEF Puts
    <2>6. \A x : NamesGrain(x)' <=> NamesGrain(x)
      BY NamesKept
    <2>7. Now(b)' = z
      BY <1>1, <1>5, <1>8, <1>10, <2>5, <2>6 DEF Now
    <2>8. Now(b) = Zero
      BY <1>1, <1>5, <1>10 DEF Now
    <2>9. disk[At(g, e)] \in media[At(g, e)] /\ Held(i)
      BY <1>2, <1>3, <2>4 DEF Typed, DeviceOK, Kept
    <2>10. Wakes(b, Zero)
      BY <1>1, <1>5, <1>10, <2>9 DEF Wakes
    <2>11. \A x \in media[At(g, e)] : ~NamesGrain(x)
      BY <1>1, <1>3, <1>5, <2>9 DEF Held
    <2>12. ASSUME NEW v, Wakes(b, v)' PROVE Wakes(b, v) \/ v = z
      <3>1. PICK t \in media'[Gd(i)] :
               \/ t = Unallocated /\ v = Zero
               \/ /\ t # Unallocated
                  /\ \E x \in media'[At(t, e)] : IF NamesGrain(x) THEN v \in media'[At(x, k)] ELSE v = Zero
        BY <1>1, <1>10, <2>6, <2>12 DEF Wakes
      <3>2. t = g
        BY <2>5, <3>1
      <3>3. PICK x \in media'[At(g, e)] : IF NamesGrain(x) THEN v \in media'[At(x, k)] ELSE v = Zero
        BY <1>5, <3>1, <3>2
      <3>4. CASE x = n
        BY <1>8, <2>5, <3>3, <3>4
      <3>5. CASE x # n
        BY <2>5, <2>10, <2>11, <3>3, <3>5
      <3>6. QED
        BY <3>4, <3>5
    <2>13. b \in Chunk(w) <=> k \in a.in .. a.in + a.len - 1
      BY <1>1, <1>2, <1>3, <1>10, ChunkIs DEF InChunk
    <2>14. z = IF b \in Chunk(w) THEN w ELSE Zero
      BY <2>1, <2>13 DEF Word
    <2>15. QED
      BY <1>2, <2>7, <2>8, <2>10, <2>12, <2>14 DEF Written, Spared
  <1>11. QED
    BY <1>9, <1>10

LEMMA NamingNow ==
    ASSUME Safe, Coherent, Kept, Contents, disk'[Header] = disk[Header], gd' = gd,
           NEW w \in Writers, NamingStore(w), NEW b \in Blocks
    PROVE  Spared(b) \/ Written(w, b)
  <1>1. Typed /\ Space /\ TablesAgree
    BY DEF Safe, Coherent
  <1>2. CASE pc[w] \in {"mergeWrite", "entryRedundant"}
    <2>1. Spares(b)
      BY <1>1, <1>2, CopyApart, ApartSpares
    <2>2. QED
      BY <1>1, <2>1, SparedIs DEF Spared
  <1>3. CASE pc[w] = "rgdWrite"
    <2>1. Puts(Rgd(Here(w).gt), my[w].new)
      BY <1>3, NamingIs
    <2>2. Rgd(Here(w).gt) \notin Roots(b)
      BY Locating DEF Roots
    <2>3. Spares(b)
      BY <1>1, <2>1, <2>2, PutSpares
    <2>4. QED
      BY <1>1, <2>3, SparedIs DEF Spared
  <1>4. QED
    BY <1>2, <1>3, GdWriteNow, EntryNow DEF NamingStore, NamingPlaces

\* publish_directory_entry's end: a blank table's blocks read as zero, as before.
LEMMA GdFlushNow ==
    ASSUME Safe, Coherent, Kept, NEW w \in Writers, GdFlush(w), NEW b \in Blocks
    PROVE  Spared(b)
  <1>1. PICK i, t : i = Here(w).gt /\ t = my[w].table
    OBVIOUS
  <1>2. Typed /\ Space /\ TablesAgree /\ pc[w] = "gdFlush" /\ DevFlush /\ gd' = [gd EXCEPT ![i] = t]
    BY <1>1 DEF Safe, Coherent, GdFlush
  <1>3. i \in Indices /\ gd[i] = Unallocated /\ disk[Gd(i)] = t /\ gd \in [Indices -> {Unallocated} \cup Cells]
    BY <1>1, <1>2, HolderIs DEF Coherent, KnowsTable, Knows, GdPlaces, Safe, Owns, Claims, Typed, MemoryOK
  <1>4. Settles /\ disk' = disk
    BY <1>2, FlushSettles, FlushIs DEF Typed
  <1>5. Spares(b) /\ disk'[Header] = disk[Header]
    BY <1>2, <1>4, SettlesSpares
  <1>6. \A v : Wakes(b, v)' => Wakes(b, v)
    BY <1>2, <1>5, SparedIs
  <1>7. CASE IndexOf(b) # i
    <2>1. gd'[IndexOf(b)] = gd[IndexOf(b)]
      BY <1>2, <1>3, <1>7, BlockIs
    <2>2. QED
      BY <1>2, <1>5, <1>6, <2>1, SparedIs DEF Spared
  <1>8. CASE IndexOf(b) = i
    <2>1. gd'[i] = t /\ Now(b) = Zero
      BY <1>2, <1>3, <1>8 DEF Now
    <2>2. PICK e : e = SlotOf(b)
      OBVIOUS
    <2>3. t \in media[Gd(i)] /\ Held(i) /\ e \in Slots
      BY <1>2, <1>3, <2>2, Locating, BlockIs DEF Typed, DeviceOK, Kept
    <2>4. t # Unallocated => disk[At(t, e)] = Unallocated
      <3>1. SUFFICES ASSUME t # Unallocated PROVE disk[At(t, e)] = Unallocated
        OBVIOUS
      <3>2. media[At(t, e)] = {Unallocated} /\ At(t, e) \in Locs
        BY <1>2, <1>3, <1>8, <2>2, <2>3, <3>1, RootsAre DEF Held
      <3>3. disk[At(t, e)] \in media[At(t, e)]
        BY <1>2, <3>2 DEF Typed, DeviceOK
      <3>4. QED
        BY <3>2, <3>3
    <2>5. ~NamesGrain(Unallocated)' /\ \A x : NamesGrain(x)' <=> NamesGrain(x)
      BY <1>5, NamesKept, CellsAre
    <2>6. Now(b)' = Zero
      BY <1>4, <1>8, <2>1, <2>2, <2>4, <2>5 DEF Now
    <2>7. QED
      BY <1>6, <2>1, <2>6 DEF Spared
  <1>9. QED
    BY <1>7, <1>8

LEMMA NowStep ==
    ASSUME Sound, Contents, [Next]_vars, ~Crash, NEW b \in Blocks
    PROVE  Spared(b) \/ \E w \in Writers : Written(w, b)
  <1>1. Safe /\ Coherent /\ Told /\ Kept /\ Typed /\ Space /\ TablesAgree
    BY DEF Sound, Safe, Coherent
  <1>2. Kinds /\ disk'[Header] = disk[Header]
    BY <1>1, StepKinds, HeaderStays
  <1>3. CASE \E w \in Writers : GdFlush(w)
    BY <1>1, <1>3, GdFlushNow
  <1>4. CASE gd' = gd
    <2>1. Spares(b) => Spared(b)
      BY <1>1, <1>2, <1>4, SparedIs DEF Spared
    <2>2. CASE Settles \/ Lengthens
      BY <1>1, <2>1, <2>2, SettlesSpares
    <2>3. CASE \E c : Fresh(c) /\ Only(c)
      BY <1>1, <2>1, <2>3, FreshApart, ApartSpares
    <2>4. CASE \E w \in Writers : NamingStore(w)
      BY <1>1, <1>2, <1>4, <2>4, NamingNow
    <2>5. ASSUME NEW w \in Writers, PayloadStore(w) PROVE Spared(b) \/ Written(w, b)
      <3>1. pc[w] # "idle"
        BY <2>5 DEF PayloadStore
      <3>2. QED
        BY <1>1, <1>2, <1>4, <2>1, <2>5, <3>1, PayloadNow DEF Written
    <2>6. QED
      BY <1>2, <2>2, <2>3, <2>4, <2>5 DEF Kinds
  <1>5. QED
    BY <1>1, <1>3, <1>4, DirectoriesMove DEF RgdFlush

-----------------------------------------------------------------------------
(* When a refresh is due *)

\* No thread is about to refresh the cached table; no cached entry needs it.
NoneDue == \A w \in Writers : pc[w] # "refresh"
NoneStale == \A i \in Indices, e \in Slots : ~Stale(i, e)

LEMMA CurrentIs == Coherent /\ NoneDue => NoneStale
  <1> SUFFICES ASSUME CacheCoherent, NoneDue, NEW i \in Indices, NEW e \in Slots, Stale(i, e) PROVE FALSE
    BY DEF Coherent, NoneStale
  <1>1. cache.loaded = <<i, gd[i]>> /\ cache.entries[e] # disk[At(gd[i], e)]
    BY DEF Stale
  <1>2. cache # NoCache /\ cache.loaded[1] = i /\ cache.loaded[2] = gd[i]
    BY <1>1, NoPair DEF NoCache
  <1>3. QED
    BY <1>1, <1>2 DEF CacheCoherent, NoneDue

LEMMA CurrentNext == Coherent' /\ NoneDue' => NoneStale'
  BY CurrentIs, PTL

\* The holder of the allocation alone has a refresh due, so none is after its refresh.
LEMMA RefreshedIs ==
    ASSUME Typed, Typed', NEW w \in Writers, Refresh(w)
    PROVE  NoneDue'
  <1>1. pc[w] = "refresh" /\ pc[w] \in HeldPlaces
    BY PlacesAre DEF Refresh
  <1>2. \A q \in Writers : pc[q] = "refresh" => q = w
    BY <1>1, OneHolder
  <1>3. PICK to : to \in {"gd", "idle"} /\ Goto(w, to)
    BY DEF Refresh, ChunkDone
  <1>4. to \in Places
    BY <1>3 DEF Places, FreePlaces
  <1>5. Goes(w, to)
    BY <1>3, <1>4, GotoIs DEF Typed
  <1>6. QED
    BY <1>2, <1>3, <1>5 DEF NoneDue, Goes

\* An entry that names a grain does not become stale.
LEMMA StaleStep ==
    ASSUME EntryIsReliable, Safe, Coherent, [Next]_vars, crashes' = crashes, NEW i \in Indices, NEW e \in Slots,
           NEW x, Grain(x, i, e), Stale(i, e)'
    PROVE  Stale(i, e)
  <1>1. PICK g : g = gd[i]
    OBVIOUS
  <1>2. g # Unallocated /\ disk[At(g, e)] = x /\ NamesGrain(x)
    BY <1>1 DEF Grain
  <1>3. gd'[i] = g /\ disk'[At(g, e)] = x
    BY <1>1, <1>2, StepStays DEF EntriesStay
  <1>4. cache'.loaded = <<i, g>> /\ cache'.entries[e] # x
    BY <1>3 DEF Stale
  <1>5. cache' # NoCache
    BY <1>4, NoPair DEF NoCache
  <1>6. SUFFICES cache.loaded = <<i, g>> /\ cache.entries[e] # x
    BY <1>1, <1>2 DEF Stale
  <1>7. CASE cache' = cache
    BY <1>4, <1>7
  <1>8. ASSUME NEW k \in Indices, cache' = Lookup(k, gd[k])
        PROVE  cache.loaded = <<i, g>> /\ cache.entries[e] # x
    <2>1. CASE cache.loaded = <<k, gd[k]>>
      BY <1>4, <1>8, <2>1 DEF Lookup
    <2>2. CASE cache.loaded # <<k, gd[k]>>
      <3>1. cache' = Loaded(k, gd[k])
        BY <1>8, <2>2 DEF Lookup
      <3>2. cache'.loaded = <<k, gd[k]>> /\ cache'.entries[e] = disk[At(gd[k], e)]
        BY <3>1 DEF Loaded, TableAt
      <3>3. gd[k] = g
        BY <1>4, <3>2
      <3>4. QED
        BY <1>2, <1>4, <3>2, <3>3
    <2>3. QED
      BY <2>1, <2>2
  <1>9. ASSUME NEW w \in Writers, Refresh(w) PROVE FALSE
    <2>1. Typed /\ Typed' /\ Coherent'
      BY TypedStep, CoherentStep DEF Safe
    <2>2. QED
      BY <1>9, <2>1, RefreshedIs, CurrentNext DEF NoneStale
  <1>10. QED
    BY <1>5, <1>7, <1>8, <1>9, CacheMoves

\* A thread on its way to write through has found its grain in the cached table.
Sees(w) == pc[w] = "through" => ~Stale(Here(w).gt, Here(w).gte)
Seeing == \A w \in Writers : Sees(w)

LEMMA SeesStep ==
    ASSUME EntryIsReliable, Safe, Coherent, Told, Seeing, [Next]_vars, ~Crash, NEW w \in Writers,
           pc'[w] = "through"
    PROVE  Sees(w)'
  <1>1. PICK i, e : i = Here(w).gt /\ e = Here(w).gte
    OBVIOUS
  <1>2. crashes' = crashes
    BY StepKinds
  <1>3. CASE pc'[w] = pc[w] /\ my'[w] = my[w]
    <2>1. i \in Indices /\ e \in Slots /\ Grain(my[w].new, i, e) /\ ~Stale(i, e)
      BY <1>1, <1>3, HolderIs DEF Safe, Told, ThroughKnows, Seeing, Sees
    <2>2. ~Stale(i, e)'
      BY <1>2, <2>1, StaleStep
    <2>3. Here(w)' = Here(w)
      BY <1>3, HereKept
    <2>4. QED
      BY <1>1, <2>2, <2>3 DEF Sees, Stale
  <1>4. CASE BackingGrain(w) \/ LookAgain(w)
    <2>1. PICK c, n : c = my[w].table /\ n = Lookup(i, c).entries[e]
      OBVIOUS
    <2>2. pc[w] \in {"gt", "gt2"} /\ UNCHANGED devVars /\ gd' = gd /\ cache' = Lookup(i, c)
      BY <1>1, <1>4, <2>1 DEF BackingGrain, LookAgain
    <2>3. c = gd[i] /\ c # Unallocated
      BY <1>1, <2>1, <2>2, PlacesAre DEF Coherent, KnowsTable, Knows
    <2>4. i \in Indices /\ e \in Slots
      BY <1>1, <2>2, HolderIs DEF Safe
    <2>5. PICK to \in Places : Goto(w, to) /\ (to = "through" => NamesGrain(n) /\ my' = [my EXCEPT ![w].new = n])
      BY <1>1, <1>4, <2>1, PlacesAre DEF BackingGrain, LookAgain, Places
    <2>6. to = "through"
      BY <2>5, GotoIs DEF Safe, Typed, Goes
    <2>7. Grain(n, i, e)
      BY <2>1, <2>3, <2>4, <2>5, <2>6, LookupNames DEF Told
    <2>8. cache'.entries[e] = disk'[At(gd'[i], e)]
      BY <2>1, <2>2, <2>7 DEF Grain, devVars
    <2>9. my'[w].at = my[w].at /\ my'[w].end = my[w].end
      <3>1. Becomes(w, my[w].at, my[w].end, my[w].table, n, my[w].purpose)
        BY <2>5, <2>6, MyIs DEF Safe, Typed
      <3>2. QED
        BY <3>1 DEF Becomes
    <2>10. Here(w)' = Here(w)
      BY <2>9, HereKept
    <2>11. QED
      BY <1>1, <2>8, <2>10 DEF Sees, Stale
  <1>5. QED
    BY <1>3, <1>4, OneMoves, ToThrough DEF Safe

LEMMA SeeingStep ==
    ASSUME EntryIsReliable, Safe, Coherent, Told, Seeing, [Next]_vars
    PROVE  Seeing'
  <1>1. CASE Crash
    BY <1>1 DEF Crash, Seeing, Sees
  <1>2. CASE ~Crash
    BY <1>2, SeesStep DEF Seeing, Sees
  <1>3. QED
    BY <1>1, <1>2

-----------------------------------------------------------------------------
(* What a block may be seen as after a step *)

LEMMA SeenStep ==
    ASSUME EntryIsReliable, Sound, Contents, [Next]_vars, ~Crash, NEW b \in Blocks, NEW v \in Seen(b)'
    PROVE  v \in Seen(b) \/ \E w \in Writers : pc[w] # "idle" /\ b \in Chunk(w) /\ v = w
  <1>1. PICK i, e : i = IndexOf(b) /\ e = SlotOf(b)
    OBVIOUS
  <1>2. Safe /\ Coherent /\ i \in Indices /\ e \in Slots
    BY <1>1, BlockIs DEF Sound
  <1>3. CASE v = Now(b)'
    BY <1>3, NowStep DEF Spared, Written, Seen
  <1>4. CASE Stale(i, e)' /\ v = Zero
    <2>1. crashes' = crashes
      BY <1>2, StepKinds
    <2>2. CASE Stale(i, e)
      BY <1>1, <1>4, <2>2 DEF Seen
    <2>3. CASE ~Stale(i, e)
      <3>1. \A x : ~Grain(x, i, e)
        BY <1>2, <1>4, <2>1, <2>3, StaleStep
      <3>2. Now(b) = Zero
        BY <1>1, <3>1 DEF Now, Grain
      <3>3. QED
        BY <1>4, <3>2 DEF Seen
    <2>4. QED
      BY <2>2, <2>3
  <1>5. QED
    BY <1>1, <1>3, <1>4 DEF Seen

\* With one value at every location, a block wakes as what it reads as.
Calm == \A l \in Locs : media[l] = {disk[l]}
CalmWakes == \A b \in Blocks : \A v : Wakes(b, v) => v = Now(b)

LEMMA CalmIs == Sound /\ Calm => CalmWakes
  <1> SUFFICES ASSUME Sound, Calm, NEW b \in Blocks, NEW v, Wakes(b, v) PROVE v = Now(b)
    BY DEF CalmWakes
  <1>1. PICK i, e, k, g : i = IndexOf(b) /\ e = SlotOf(b) /\ k = WordOf(b) /\ g = gd[IndexOf(b)]
    OBVIOUS
  <1>2. Typed /\ Space /\ TablesAgree /\ i \in Indices /\ e \in Slots
    BY <1>1, BlockIs DEF Sound, Safe, Coherent
  <1>3. PICK t \in media[Gd(i)] :
           \/ t = Unallocated /\ v = Zero
           \/ /\ t # Unallocated
              /\ \E x \in media[At(t, e)] : IF NamesGrain(x) THEN v \in media[At(x, k)] ELSE v = Zero
    BY <1>1 DEF Wakes
  <1>4. t = disk[Gd(i)]
    BY <1>2, <1>3, Locating DEF Calm
  <1>5. CASE g # Unallocated
    <2>1. t = g
      BY <1>1, <1>2, <1>4, <1>5 DEF TablesAgree
    <2>2. PICK x \in media[At(g, e)] : IF NamesGrain(x) THEN v \in media[At(x, k)] ELSE v = Zero
      BY <1>3, <1>5, <2>1
    <2>3. At(g, e) \in Locs /\ (NamesGrain(x) => At(x, k) \in Locs)
      BY <1>1, <1>2, <1>3, <1>5, <2>1, <2>2, RootsAre
    <2>4. x = disk[At(g, e)] /\ (NamesGrain(x) => v = disk[At(x, k)])
      BY <2>2, <2>3 DEF Calm
    <2>5. QED
      BY <1>1, <1>5, <2>2, <2>4 DEF Now
  <1>6. CASE g = Unallocated
    <2>1. Now(b) = Zero /\ Held(i)
      BY <1>1, <1>2, <1>6 DEF Now, Sound, Kept
    <2>2. t # Unallocated => media[At(t, e)] = {Unallocated}
      BY <1>1, <1>2, <1>3, <1>6, <2>1 DEF Held
    <2>3. QED
      BY <1>3, <2>1, <2>2, CellsAre
  <1>7. QED
    BY <1>5, <1>6

LEMMA CalmNext == Sound' /\ Calm' => CalmWakes'
  BY CalmIs, PTL

\* What is opened after a crash is what the block might have woken as.
LEMMA CrashWakes ==
    ASSUME Safe, Crash, NEW b \in Blocks
    PROVE  Wakes(b, Now(b)')
  <1>1. PICK i, e, k : i = IndexOf(b) /\ e = SlotOf(b) /\ k = WordOf(b)
    OBVIOUS
  <1>2. Typed /\ Space /\ i \in Indices /\ e \in Slots
    BY <1>1, BlockIs DEF Safe
  <1>3. PICK c : DevCrash(c)
    BY DEF Crash
  <1>4. \A l \in Locs : disk'[l] \in media[l]
    BY <1>2, <1>3, CrashIs DEF Typed
  <1>5. gd'[i] = disk'[Gd(i)] /\ disk'[Header] = disk[Header]
    BY <1>2, CrashKept
  <1>6. \A x : NamesGrain(x)' <=> NamesGrain(x)
    BY <1>5, NamesKept
  <1>7. PICK t : t = gd'[i]
    OBVIOUS
  <1>8. t \in media[Gd(i)]
    BY <1>2, <1>4, <1>5, <1>7, Locating
  <1>9. CASE t = Unallocated
    <2>1. Now(b)' = Zero
      BY <1>1, <1>7, <1>9 DEF Now
    <2>2. QED
      BY <1>1, <1>8, <1>9, <2>1 DEF Wakes
  <1>10. CASE t # Unallocated
    <2>1. PICK x : x = disk'[At(t, e)]
      OBVIOUS
    <2>2. At(t, e) \in Locs
      BY <1>1, <1>2, <1>8, <1>10, RootsAre
    <2>3. x \in media[At(t, e)]
      BY <1>4, <2>1, <2>2
    <2>4. Now(b)' = IF NamesGrain(x) THEN disk'[At(x, k)] ELSE Zero
      BY <1>1, <1>6, <1>7, <1>10, <2>1 DEF Now
    <2>5. NamesGrain(x) => At(x, k) \in Locs
      BY <1>1, <1>2, <1>8, <1>10, <2>3, RootsAre
    <2>6. NamesGrain(x) => disk'[At(x, k)] \in media[At(x, k)]
      BY <1>4, <2>5
    <2>7. QED
      BY <1>1, <1>8, <1>10, <2>3, <2>4, <2>6 DEF Wakes
  <1>11. QED
    BY <1>9, <1>10

-----------------------------------------------------------------------------
(* What the calls in flight are owed *)

\* A value that the success of w's call does not overwrite.
Good(w, b, v) == v = w \/ v \notin call[w][b]

\* A call's blocks: those still to be written, and what they may be and survive as.
Bound(w) == /\ DOMAIN call[w] \subseteq Blocks
            /\ pc[w] # "idle" => /\ my[w].at .. my[w].end - 1 \subseteq DOMAIN call[w]
                                 /\ \A b \in DOMAIN call[w] : b < my[w].end
Owed(w) == \A b \in DOMAIN call[w] : w \in may[b] /\ w \in survive[b]

\* No call overwrites what another in flight writes.
Disjoint(w, x) == w # x => \A b \in DOMAIN call[w] \cap DOMAIN call[x] : x \notin call[w][b]

\* Nothing that w's call has overwritten is seen in the chunks that are done, nor is
\* it what the device holds of the chunk whose refresh is due.
Done(w) == pc[w] # "idle" =>
              \A b \in DOMAIN call[w] : b < my[w].at => \A v \in Seen(b) : Good(w, b, v)
Doing(w) == pc[w] = "refresh" => \A b \in Chunk(w) : Good(w, b, Now(b))

PromisesTyped == may = [b \in Blocks |-> may[b]] /\ survive = [b \in Blocks |-> survive[b]]

Allows == \A b \in Blocks : Seen(b) \subseteq may[b]
Survives == \A b \in Blocks : \A v : Wakes(b, v) => v \in survive[b]

Promised ==
    /\ PromisesTyped /\ Allows /\ Survives
    /\ \A w \in Writers : Bound(w) /\ Owed(w) /\ Done(w) /\ Doing(w)
    /\ \A w, x \in Writers : Disjoint(w, x)

\* All that the write path keeps, and what its calls are owed.
Keeping == Sound /\ Contents /\ Seeing /\ Promised

LEMMA ChunkCalled ==
    ASSUME Typed, NEW w \in Writers, Bound(w), pc[w] # "idle", NEW b \in Chunk(w)
    PROVE  b \in Blocks /\ b \in DOMAIN call[w] /\ b < my[w].at + Here(w).len
  <1>1. PICK a, l, z : a = my[w].at /\ l = Here(w).len /\ z = my[w].end
    OBVIOUS
  <1>2. /\ Chunk(w) \subseteq Blocks /\ a \in Nat /\ z \in Nat /\ l \in Nat \ {0} /\ a + l <= z
    BY <1>1, HolderIs, ChunkIs
  <1>3. b \in a .. a + l - 1
    BY <1>1 DEF Chunk
  <1>4. b \in a .. z - 1 /\ b < a + l
    BY <1>2, <1>3
  <1>5. QED
    BY <1>1, <1>2, <1>4 DEF Bound

\* What a step makes of the blocks of the calls in flight.
LEMMA SeenGood ==
    ASSUME EntryIsReliable, Keeping, [Next]_vars, ~Crash, NEW x \in Writers, NEW b \in DOMAIN call[x]
    PROVE  /\ (\A v \in Seen(b) : Good(x, b, v)) => \A v \in Seen(b)' : Good(x, b, v)
           /\ Good(x, b, Now(b)) => Good(x, b, Now(b)')
  <1>1. Sound /\ Contents /\ Typed /\ b \in Blocks /\ Bound(x)
    BY DEF Keeping, Sound, Safe, Promised, Bound
  <1>2. ASSUME NEW w \in Writers, pc[w] # "idle", b \in Chunk(w) PROVE Good(x, b, w)
    <2>1. Bound(w) /\ Disjoint(x, w)
      BY DEF Keeping, Promised
    <2>2. b \in DOMAIN call[w]
      BY <1>1, <1>2, <2>1, ChunkCalled
    <2>3. QED
      BY <2>1, <2>2 DEF Disjoint, Good
  <1>3. ASSUME \A v \in Seen(b) : Good(x, b, v), NEW v \in Seen(b)' PROVE Good(x, b, v)
    <2>1. v \in Seen(b) \/ \E w \in Writers : pc[w] # "idle" /\ b \in Chunk(w) /\ v = w
      BY <1>1, SeenStep
    <2>2. QED
      BY <1>2, <1>3, <2>1
  <1>4. ASSUME Good(x, b, Now(b)) PROVE Good(x, b, Now(b)')
    <2>1. Spared(b) \/ \E w \in Writers : Written(w, b)
      BY <1>1, NowStep
    <2>2. Now(b)' = Now(b) \/ \E w \in Writers : pc[w] # "idle" /\ b \in Chunk(w) /\ Now(b)' = w
      BY <2>1 DEF Spared, Written
    <2>3. QED
      BY <1>2, <1>4, <2>2
  <1>5. QED
    BY <1>3, <1>4

\* What a step makes of any block.
LEMMA SeenAllowed ==
    ASSUME EntryIsReliable, Keeping, [Next]_vars, ~Crash, NEW b \in Blocks
    PROVE  /\ \A v \in Seen(b)' : v \in may[b]
           /\ \A v : Wakes(b, v)' => v \in survive[b]
  <1>1. Sound /\ Contents /\ Typed /\ Allows /\ Survives
    BY DEF Keeping, Sound, Safe, Promised
  <1>2. ASSUME NEW w \in Writers, pc[w] # "idle", b \in Chunk(w) PROVE w \in may[b] /\ w \in survive[b]
    <2>1. Bound(w) /\ Owed(w)
      BY DEF Keeping, Promised
    <2>2. b \in DOMAIN call[w]
      BY <1>1, <1>2, <2>1, ChunkCalled
    <2>3. QED
      BY <2>1, <2>2 DEF Owed
  <1>3. ASSUME NEW v \in Seen(b)' PROVE v \in may[b]
    <2>1. v \in Seen(b) \/ \E w \in Writers : pc[w] # "idle" /\ b \in Chunk(w) /\ v = w
      BY <1>1, SeenStep
    <2>2. QED
      BY <1>1, <1>2, <2>1 DEF Allows
  <1>4. ASSUME NEW v, Wakes(b, v)' PROVE v \in survive[b]
    <2>1. Spared(b) \/ \E w \in Writers : Written(w, b)
      BY <1>1, NowStep
    <2>2. Wakes(b, v) \/ \E w \in Writers : pc[w] # "idle" /\ b \in Chunk(w) /\ v = w
      BY <1>4, <2>1 DEF Spared, Written
    <2>3. QED
      BY <1>1, <1>2, <2>2 DEF Survives
  <1>5. QED
    BY <1>3, <1>4

\* The last step of a chunk leaves none of its blocks as the call found them.
Ends(w) == Through(w) \/ Refresh(w)
Errs(w) == Refused(w) \/ WriteFails(w) \/ FlushFails(w)

LEMMA ChunkGood ==
    ASSUME EntryIsReliable, Keeping, [Next]_vars, ~Crash, NEW w \in Writers, Ends(w),
           NEW b \in DOMAIN call[w], b < my[w].at + Here(w).len
    PROVE  \A v \in Seen(b)' : Good(w, b, v)
  <1>1. PICK a, l : a = my[w].at /\ l = Here(w).len
    OBVIOUS
  <1>2. /\ Sound /\ Contents /\ Safe /\ Typed /\ Space /\ TablesAgree /\ Coherent /\ Told /\ Kept /\ b \in Blocks
        /\ pc[w] # "idle"
    BY DEF Keeping, Sound, Safe, Coherent, Promised, Bound, Ends, Through, Refresh
  <1>3. a \in Nat /\ l \in Nat \ {0} /\ b \in Nat
    BY <1>1, <1>2, HolderIs, ChunkIs, BlocksAre
  <1>4. CASE b < a
    <2>1. Done(w)
      BY DEF Keeping, Promised
    <2>2. \A v \in Seen(b) : Good(w, b, v)
      BY <1>1, <1>2, <1>4, <2>1 DEF Done
    <2>3. QED
      BY <2>2, SeenGood
  <1>5. CASE ~(b < a)
    <2>1. b \in Chunk(w)
      BY <1>1, <1>3, <1>5 DEF Chunk
    <2>2. PICK i, e : i = IndexOf(b) /\ e = SlotOf(b)
      OBVIOUS
    <2>3. i \in Indices /\ e \in Slots /\ i = Here(w).gt /\ e = Here(w).gte
      BY <1>2, <2>1, <2>2, HolderIs, ChunkIs, BlockIs
    <2>4. CASE Through(w)
      <3>1. PayloadStore(w) /\ gd' = gd
        BY <2>4 DEF Through, PayloadStore, memory
      <3>2. disk'[Header] = disk[Header] /\ crashes' = crashes
        BY <1>2, StepKinds, HeaderStays
      <3>3. Now(b)' = w
        BY <1>2, <2>1, <3>1, <3>2, PayloadNow
      <3>4. pc[w] = "through" /\ Grain(my[w].new, i, e) /\ ~Stale(i, e)
        BY <1>2, <2>3, <3>1 DEF PayloadStore, Told, ThroughKnows, Keeping, Seeing, Sees
      <3>5. ~Stale(i, e)'
        BY <1>2, <2>3, <3>2, <3>4, StaleStep
      <3>6. \A v \in Seen(b)' : v = w
        BY <2>2, <3>3, <3>5 DEF Seen
      <3>7. QED
        BY <3>6 DEF Good
    <2>5. CASE Refresh(w)
      <3>1. pc[w] = "refresh"
        BY <2>5 DEF Refresh
      <3>2. Good(w, b, Now(b))
        BY <2>1, <3>1 DEF Keeping, Promised, Doing
      <3>3. Good(w, b, Now(b)')
        BY <3>2, SeenGood
      <3>4. NoneStale'
        BY <1>2, <2>5, RefreshedIs, TypedStep, CoherentStep, CurrentNext
      <3>5. ~Stale(i, e)'
        BY <2>3, <3>4 DEF NoneStale
      <3>6. \A v \in Seen(b)' : v = Now(b)'
        BY <2>2, <3>5 DEF Seen
      <3>7. QED
        BY <3>3, <3>6
    <2>6. QED
      BY <2>4, <2>5 DEF Ends
  <1>6. QED
    BY <1>4, <1>5

-----------------------------------------------------------------------------
(* What a step makes of the calls *)

\* A step within a call; a call that no later one overwrites; a call that is over.
Stays(x) == /\ pc[x] = "idle" <=> pc'[x] = "idle"
            /\ my'[x].at = my[x].at /\ my'[x].end = my[x].end
Shrunk(x) == /\ DOMAIN call'[x] = DOMAIN call[x]
             /\ \A b \in DOMAIN call[x] : call'[x][b] \subseteq call[x][b]
Over(x) == pc'[x] = "idle" /\ call'[x] = Disk!NoCall

LEMMA NoCallIs == DOMAIN Disk!NoCall = {}
  BY DEF Disk!NoCall

\* Only update_gt_entry's write of the primary entry makes a refresh due.
LEMMA ToRefresh ==
    ASSUME Typed, NEW w \in Writers, CallWrite(w) \/ WriterStep(w), pc'[w] = "refresh"
    PROVE  pc[w] = "entryPrimary" /\ Store(w)
  <1>1. CASE Store(w)
    <2>1. pc[w] \in DOMAIN AfterStore /\ pc'[w] = AfterStore[pc[w]]
      BY <1>1 DEF Store, Goto, Typed, ThreadsOK
    <2>2. QED
      BY <1>1, <2>1, AfterStoreIs
  <1>2. CASE Flushed(w)
    <2>1. pc[w] \in DOMAIN AfterFlush /\ pc'[w] = AfterFlush[pc[w]]
      BY <1>2 DEF Flushed, Goto, Typed, ThreadsOK
    <2>2. QED
      BY <2>1, AfterFlushIs
  <1>3. CASE TableFlush(w)
    <2>1. pc[w] = "tableFlush" /\ pc'[w] = AfterBlank(w)
      BY <1>3 DEF TableFlush, Goto, Typed, ThreadsOK
    <2>2. my[w].purpose \in {"primary", "twin", "seed"}
      BY <2>1, HolderIs DEF WriterOK, TablePlaces
    <2>3. QED
      BY <2>1, <2>2 DEF AfterBlank
  <1>4. CASE CallWrite(w) \/ BackingTable(w) \/ BackingGrain(w) \/ Allocate(w) \/ TableSpace(w) \/ GrainSpace(w)
    BY <1>4 DEF CallWrite, BackingTable, BackingGrain, Allocate, TableSpace, GrainSpace, TakeCell, Goto, Typed,
                ThreadsOK
  <1>5. CASE RgdFlush(w) \/ GdFlush(w) \/ Invalidate(w) \/ LookAgain(w) \/ Redundant(w) \/ MergeFlush(w)
    BY <1>5 DEF RgdFlush, GdFlush, Invalidate, LookAgain, Redundant, MergeFlush, Goto, Typed, ThreadsOK
  <1>6. CASE Through(w) \/ Refresh(w) \/ Refused(w) \/ WriteFails(w) \/ FlushFails(w)
    BY <1>6 DEF Through, Refresh, ChunkDone, Refused, WriteFails, FlushFails, Fail, Goto, Typed, ThreadsOK
  <1>7. QED
    BY <1>1, <1>2, <1>3, <1>4, <1>5, <1>6 DEF WriterStep

\* The other steps stay within the chunk.
LEMMA MoverStays ==
    ASSUME Typed, NEW w \in Writers, WriterStep(w), ~Ends(w), ~Errs(w)
    PROVE  Stays(w) /\ UNCHANGED promises
  <1>1. /\ "idle" \notin DOMAIN AfterStore /\ "idle" \notin DOMAIN AfterFlush
        /\ \A p \in DOMAIN AfterStore : AfterStore[p] # "idle" /\ AfterStore[p] \in Places
        /\ \A p \in DOMAIN AfterFlush : AfterFlush[p] # "idle" /\ AfterFlush[p] \in Places
    BY AfterStoreIs, AfterFlushIs, PlacesAre DEF Places
  <1>2. SUFFICES ASSUME NEW to, Goto(w, to), to # "idle", pc[w] # "idle",
                        my' = my \/ (\E x : my' = [my EXCEPT ![w].new = x])
                        \/ (\E x : my' = [my EXCEPT ![w].table = x])
                        \/ (\E x : my' = [my EXCEPT ![w].purpose = x])
                        \/ (\E x, p : my' = [my EXCEPT ![w].table = x, ![w].purpose = p]),
                        UNCHANGED promises
                 PROVE  Stays(w) /\ UNCHANGED promises
    <2>1. CASE BackingTable(w) \/ BackingGrain(w) \/ Allocate(w)
      BY <1>2, <2>1 DEF BackingTable, BackingGrain, Allocate
    <2>2. CASE TableSpace(w) \/ GrainSpace(w)
      BY <1>2, <2>2 DEF TableSpace, GrainSpace, TakeCell
    <2>3. CASE TableFlush(w)
      <3>1. pc[w] = "tableFlush" /\ Goto(w, AfterBlank(w))
        BY <2>3 DEF TableFlush
      <3>2. my[w].purpose \in {"primary", "twin", "seed"}
        BY <3>1, HolderIs DEF WriterOK, TablePlaces
      <3>3. AfterBlank(w) # "idle"
        BY <3>2 DEF AfterBlank
      <3>4. my' = my \/ \E x, p : my' = [my EXCEPT ![w].table = x, ![w].purpose = p]
        BY <2>3 DEF TableFlush
      <3>5. QED
        BY <1>2, <2>3, <3>1, <3>3, <3>4 DEF TableFlush
    <2>4. CASE RgdFlush(w) \/ GdFlush(w) \/ Invalidate(w) \/ MergeFlush(w)
      BY <1>2, <2>4 DEF RgdFlush, GdFlush, Invalidate, MergeFlush
    <2>5. CASE LookAgain(w) \/ Redundant(w)
      BY <1>2, <2>5 DEF LookAgain, Redundant
    <2>6. CASE Store(w)
      BY <1>1, <1>2, <2>6 DEF Store
    <2>7. CASE Flushed(w)
      BY <1>1, <1>2, <2>7 DEF Flushed
    <2>8. QED
      BY <2>1, <2>2, <2>3, <2>4, <2>5, <2>6, <2>7 DEF WriterStep, Ends, Errs
  <1>3. my'[w].at = my[w].at /\ my'[w].end = my[w].end
    <2>1. ThreadsOK
      BY DEF Typed
    <2>2. \E t, n, u : Becomes(w, my[w].at, my[w].end, t, n, u)
      <3>1. CASE my' = my
        BY <2>1, <3>1, MyIs
      <3>2. CASE \E x : my' = [my EXCEPT ![w].new = x]
        BY <2>1, <3>2, MyIs
      <3>3. CASE \E x : my' = [my EXCEPT ![w].table = x]
        BY <2>1, <3>3, MyIs
      <3>4. CASE \E x : my' = [my EXCEPT ![w].purpose = x]
        BY <2>1, <3>4, MyIs
      <3>5. CASE \E x, p : my' = [my EXCEPT ![w].table = x, ![w].purpose = p]
        BY <2>1, <3>5, MyIs
      <3>6. QED
        BY <1>2, <3>1, <3>2, <3>3, <3>4, <3>5
    <2>3. QED
      BY <2>2 DEF Becomes
  <1>4. pc'[w] = to
    BY <1>2 DEF Goto, Typed, ThreadsOK
  <1>5. QED
    BY <1>2, <1>3, <1>4 DEF Stays

-----------------------------------------------------------------------------
(* What the calls are owed after a step *)

LEMMA OverIs ==
    ASSUME NEW x \in Writers, Over(x)
    PROVE  Bound(x)' /\ Owed(x)' /\ Done(x)' /\ Doing(x)'
  BY NoCallIs DEF Over, Bound, Owed, Done, Doing

LEMMA DisjointStays ==
    ASSUME NEW x \in Writers, NEW y \in Writers, Disjoint(x, y), Shrunk(x) \/ Over(x), Shrunk(y) \/ Over(y)
    PROVE  Disjoint(x, y)'
  BY NoCallIs DEF Disjoint, Shrunk, Over

\* A refresh is due, now or still.
LEMMA RefreshOwed ==
    ASSUME EntryIsReliable, Keeping, [Next]_vars, ~Crash, NEW x \in Writers, Shrunk(x),
           pc'[x] = "refresh",
           \/ pc[x] = "refresh" /\ my'[x] = my[x]
           \/ CallWrite(x) \/ WriterStep(x)
    PROVE  Doing(x)'
  <1>1. Typed /\ Safe /\ Coherent /\ Kept /\ Contents /\ disk'[Header] = disk[Header]
    BY StepKinds, HeaderStays DEF Keeping, Sound, Safe
  <1>2. CASE pc[x] = "refresh" /\ my'[x] = my[x]
    <2>1. Chunk(x)' = Chunk(x)
      BY <1>2, HereKept DEF Chunk
    <2>2. Bound(x) /\ Doing(x)
      BY DEF Keeping, Promised
    <2>3. ASSUME NEW b \in Chunk(x) PROVE Good(x, b, Now(b))'
      <3>1. b \in DOMAIN call[x]
        BY <1>1, <1>2, <2>2, ChunkCalled
      <3>2. Good(x, b, Now(b)')
        BY <1>2, <2>2, <3>1, SeenGood DEF Doing
      <3>3. QED
        BY <3>1, <3>2 DEF Good, Shrunk
    <2>4. QED
      BY <2>1, <2>3 DEF Doing
  <1>3. CASE CallWrite(x) \/ WriterStep(x)
    <2>1. pc[x] = "entryPrimary" /\ Store(x)
      BY <1>1, <1>3, ToRefresh
    <2>2. NamingStore(x) /\ gd' = gd /\ my' = my
      BY <2>1 DEF Store, NamingStore, NamingPlaces, memory
    <2>3. Chunk(x)' = Chunk(x)
      BY <2>2, HereKept DEF Chunk
    <2>4. ASSUME NEW b \in Chunk(x) PROVE Good(x, b, Now(b))'
      <3>1. b \in Blocks
        BY <1>1, <2>1, <2>4, ChunkCalled DEF Keeping, Promised
      <3>2. Now(b)' = x
        BY <1>1, <2>1, <2>2, <2>4, <3>1, EntryNow DEF Written
      <3>3. QED
        BY <3>2 DEF Good
    <2>5. QED
      BY <2>3, <2>4 DEF Doing
  <1>4. QED
    BY <1>2, <1>3

\* A call that goes on is owed what it was.
LEMMA StaysOwed ==
    ASSUME EntryIsReliable, Keeping, [Next]_vars, ~Crash, NEW x \in Writers, Stays(x), Shrunk(x),
           \A b \in DOMAIN call[x] : x \in may'[b] /\ x \in survive'[b]
    PROVE  Bound(x)' /\ Owed(x)' /\ Done(x)' /\ Doing(x)'
  <1>1. Bound(x) /\ Done(x)
    BY DEF Keeping, Promised
  <1>2. Bound(x)'
    BY <1>1 DEF Bound, Stays, Shrunk
  <1>3. Owed(x)'
    BY DEF Owed, Shrunk
  <1>4. Done(x)'
    <2>1. SUFFICES ASSUME pc[x] # "idle", NEW b \in DOMAIN call[x], b < my[x].at, NEW v \in Seen(b)'
                   PROVE  Good(x, b, v)'
      BY DEF Done, Stays, Shrunk
    <2>2. \A u \in Seen(b) : Good(x, b, u)
      BY <1>1, <2>1 DEF Done
    <2>3. Good(x, b, v)
      BY <2>1, <2>2, SeenGood
    <2>4. QED
      BY <2>1, <2>3 DEF Good, Shrunk
  <1>5. Doing(x)'
    <2>1. Typed
      BY DEF Keeping, Sound, Safe
    <2>2. CASE pc'[x] # "refresh"
      BY <2>2 DEF Doing
    <2>3. CASE pc'[x] = "refresh"
      <3>1. (pc'[x] = pc[x] /\ my'[x] = my[x]) \/ CallWrite(x) \/ WriterStep(x)
        BY <2>1, OneMoves
      <3>2. (pc[x] = "refresh" /\ my'[x] = my[x]) \/ CallWrite(x) \/ WriterStep(x)
        BY <2>3, <3>1
      <3>3. QED
        BY <2>3, <3>2, RefreshOwed
    <2>4. QED
      BY <2>2, <2>3
  <1>6. QED
    BY <1>2, <1>3, <1>4, <1>5

\* What is left to show of a step, crashes and flushes aside.
LEMMA StepOwed ==
    ASSUME EntryIsReliable, Keeping, [Next]_vars, ~Crash, PromisesTyped',
           \A b \in Blocks : survive[b] \subseteq survive'[b],
           \A b \in Blocks : \A v \in Seen(b)' : v \in may[b] => v \in may'[b],
           \A x \in Writers : Bound(x)' /\ Owed(x)' /\ Done(x)' /\ Doing(x)',
           \A x, y \in Writers : Disjoint(x, y)'
    PROVE  Promised'
  <1>1. Allows'
    BY SeenAllowed DEF Allows
  <1>2. Survives'
    BY SeenAllowed DEF Survives
  <1>3. QED
    BY <1>1, <1>2 DEF Promised

LEMMA QuietOwed ==
    ASSUME EntryIsReliable, Keeping, [Next]_vars, UNCHANGED promises, \A x \in Writers : Stays(x), ~Crash
    PROVE  Promised'
  <1>1. may' = may /\ survive' = survive /\ call' = call /\ Promised
    BY DEF promises, Keeping
  <1>2. \A x \in Writers : Shrunk(x) /\ Owed(x)
    BY <1>1 DEF Shrunk, Promised
  <1>3. \A x \in Writers : Bound(x)' /\ Owed(x)' /\ Done(x)' /\ Doing(x)'
    BY <1>1, <1>2, StaysOwed DEF Owed
  <1>4. \A x, y \in Writers : Disjoint(x, y)'
    BY <1>1 DEF Disjoint, Promised
  <1>5. PromisesTyped'
    BY <1>1 DEF Promised, PromisesTyped
  <1>6. QED
    BY <1>1, <1>3, <1>4, <1>5, StepOwed

\* write_at returns an error.
LEMMA ErrOwed ==
    ASSUME EntryIsReliable, Keeping, [Next]_vars, ~Crash, NEW w \in Writers, Errs(w)
    PROVE  Promised'
  <1>1. Typed /\ ThreadsOK /\ Promised
    BY DEF Keeping, Sound, Safe, Typed
  <1>2. Fail(w)
    BY DEF Errs, Refused, WriteFails, FlushFails
  <1>3. Goes(w, "idle") /\ my' = [my EXCEPT ![w] = Idle]
    BY <1>1, <1>2, FailThreads DEF Fail
  <1>4. may' = may /\ survive' = survive /\ call' = [call EXCEPT ![w] = Disk!NoCall]
    BY <1>2 DEF Fail, Disk!PromiseErr
  <1>5. Over(w) /\ \A x \in Writers \ {w} : Stays(x) /\ Shrunk(x)
    <2>1. call'[w] = Disk!NoCall /\ \A x \in Writers \ {w} : call'[x] = call[x]
      BY <1>1, <1>4 DEF ThreadsOK
    <2>2. \A x \in Writers \ {w} : my'[x] = my[x] /\ pc'[x] = pc[x]
      BY <1>1, <1>3, MyIs DEF Becomes, Goes
    <2>3. QED
      BY <1>3, <2>1, <2>2 DEF Over, Stays, Shrunk, Goes
  <1>6. ASSUME NEW x \in Writers PROVE Bound(x)' /\ Owed(x)' /\ Done(x)' /\ Doing(x)'
    <2>1. CASE x = w
      BY <1>5, <2>1, OverIs
    <2>2. CASE x # w
      <3>1. Owed(x)
        BY <1>1 DEF Promised
      <3>2. QED
        BY <1>4, <1>5, <2>2, <3>1, StaysOwed DEF Owed
    <2>3. QED
      BY <2>1, <2>2
  <1>7. \A x, y \in Writers : Disjoint(x, y)'
    BY <1>1, <1>5, DisjointStays DEF Promised
  <1>8. PromisesTyped'
    BY <1>1, <1>4 DEF Promised, PromisesTyped
  <1>9. QED
    BY <1>4, <1>6, <1>7, <1>8, StepOwed

\* The end of a chunk, or of the call: what it found there is nowhere to be seen.
LEMMA EndOwed ==
    ASSUME EntryIsReliable, Keeping, [Next]_vars, ~Crash, NEW w \in Writers, Ends(w)
    PROVE  Promised'
  <1>1. /\ Typed /\ ThreadsOK /\ Promised /\ PromisesTyped /\ Bound(w) /\ Owed(w)
        /\ ChunkDone(w) /\ pc[w] # "idle"
    BY DEF Keeping, Sound, Safe, Typed, Promised, Ends, Through, Refresh
  <1>2. PICK a, l, z : a = my[w].at /\ l = Here(w).len /\ z = my[w].end
    OBVIOUS
  <1>3. a \in Nat /\ l \in Nat \ {0} /\ z \in Nat
    BY <1>1, <1>2, HolderIs, ChunkIs
  <1>4. \A b \in DOMAIN call[w] : b \in Blocks /\ b \in Nat /\ b < z
    BY <1>1, <1>2, BlocksAre DEF Bound
  <1>5. ASSUME NEW b \in DOMAIN call[w], b < a + l PROVE \A v \in Seen(b)' : Good(w, b, v)
    BY <1>2, <1>5, ChunkGood
  <1>6. CASE a + l < z
    <2>1. /\ Goto(w, "gd") /\ UNCHANGED promises
          /\ my' = [my EXCEPT ![w] = [Idle EXCEPT !.at = a + l, !.end = z]]
      BY <1>1, <1>2, <1>6 DEF ChunkDone
    <2>2. may' = may /\ survive' = survive /\ call' = call
      BY <2>1 DEF promises
    <2>3. Becomes(w, a + l, z, 0, 0, "none") /\ Goes(w, "gd")
      BY <1>1, <2>1, MyIs, GotoIs DEF Places, FreePlaces
    <2>4. pc'[w] = "gd" /\ my'[w].at = a + l /\ my'[w].end = z
      BY <2>3 DEF Becomes, Goes
    <2>5. Bound(w)'
      <3>1. my[w].at .. my[w].end - 1 \subseteq DOMAIN call[w]
        BY <1>1 DEF Bound
      <3>2. a + l .. z - 1 \subseteq a .. z - 1
        BY <1>3
      <3>3. QED
        BY <1>1, <1>2, <1>4, <2>2, <2>4, <3>1, <3>2 DEF Bound
    <2>6. Owed(w)'
      BY <1>1, <2>2 DEF Owed
    <2>7. Done(w)'
      BY <1>5, <2>2, <2>4 DEF Done, Good
    <2>8. Doing(w)'
      BY <2>4 DEF Doing
    <2>9. \A x \in Writers \ {w} : Stays(x) /\ Shrunk(x) /\ Owed(x)
      BY <1>1, <2>2, <2>3 DEF Becomes, Goes, Stays, Shrunk, Promised
    <2>10. \A x \in Writers \ {w} : Bound(x)' /\ Owed(x)' /\ Done(x)' /\ Doing(x)'
      BY <2>2, <2>9, StaysOwed DEF Owed
    <2>11. \A x, y \in Writers : Disjoint(x, y)'
      BY <1>1, <2>2 DEF Disjoint, Promised
    <2>12. PromisesTyped'
      BY <1>1, <2>2 DEF PromisesTyped
    <2>13. QED
      BY <2>2, <2>5, <2>6, <2>7, <2>8, <2>10, <2>11, <2>12, StepOwed
  <1>7. CASE ~(a + l < z)
    <2>1. Goto(w, "idle") /\ my' = [my EXCEPT ![w] = Idle] /\ Disk!PromiseOk(w)
      BY <1>1, <1>2, <1>7 DEF ChunkDone
    <2>2. /\ survive' = survive /\ call' = [call EXCEPT ![w] = Disk!NoCall]
          /\ may' = [b \in Blocks |->
                       IF b \in DOMAIN call[w] THEN (may[b] \ call[w][b]) \cup {w} ELSE may[b]]
      BY <2>1 DEF Disk!PromiseOk
    <2>3. Becomes(w, 0, 0, 0, 0, "none") /\ Goes(w, "idle")
      BY <1>1, <2>1, MyIs, GotoIs DEF Places, FreePlaces
    <2>4. call'[w] = Disk!NoCall /\ \A x \in Writers \ {w} : call'[x] = call[x]
      BY <1>1, <2>2 DEF ThreadsOK
    <2>5. Over(w) /\ \A x \in Writers \ {w} : Stays(x) /\ Shrunk(x)
      BY <2>3, <2>4 DEF Becomes, Goes, Over, Stays, Shrunk
    <2>6. ASSUME NEW b \in Blocks, NEW v, v \in may[b], b \in DOMAIN call[w] => Good(w, b, v)
          PROVE  v \in may'[b]
      BY <2>2, <2>6 DEF Good
    <2>7. \A b \in DOMAIN call[w] : b < a + l
      BY <1>3, <1>4, <1>7
    <2>8. \A b \in Blocks : \A v \in Seen(b)' : v \in may[b] => v \in may'[b]
      BY <1>5, <2>6, <2>7
    <2>9. ASSUME NEW x \in Writers \ {w}, NEW b \in DOMAIN call[x] PROVE x \in may'[b] /\ x \in survive'[b]
      <3>1. Owed(x) /\ Bound(x) /\ Disjoint(w, x)
        BY <1>1 DEF Promised
      <3>2. b \in Blocks /\ x \in may[b] /\ x \in survive[b]
        BY <3>1 DEF Owed, Bound
      <3>3. b \in DOMAIN call[w] => Good(w, b, x)
        BY <3>1 DEF Disjoint, Good
      <3>4. QED
        BY <2>2, <2>6, <3>2, <3>3
    <2>10. ASSUME NEW x \in Writers PROVE Bound(x)' /\ Owed(x)' /\ Done(x)' /\ Doing(x)'
      <3>1. CASE x = w
        BY <2>5, <3>1, OverIs
      <3>2. CASE x # w
        BY <2>5, <2>9, <3>2, StaysOwed
      <3>3. QED
        BY <3>1, <3>2
    <2>11. \A x, y \in Writers : Disjoint(x, y)'
      BY <1>1, <2>5, DisjointStays DEF Promised
    <2>12. PromisesTyped'
      BY <1>1, <2>2 DEF PromisesTyped
    <2>13. QED
      BY <2>2, <2>8, <2>10, <2>11, <2>12, StepOwed
  <1>8. QED
    BY <1>6, <1>7

\* write_at is called: it may overwrite what is settled, and no other call it.
LEMMA CallOwed ==
    ASSUME EntryIsReliable, Keeping, [Next]_vars, ~Crash, NEW w \in Writers, CallWrite(w)
    PROVE  Promised'
  <1>1. Typed /\ ThreadsOK /\ Promised /\ PromisesTyped
    BY DEF Keeping, Sound, Safe, Typed, Promised
  <1>2. PICK r \in Ranges : /\ my' = [my EXCEPT ![w] = [Idle EXCEPT !.at = r[1], !.end = r[2] + 1]]
                            /\ Disk!PromiseCall(w, r[1] .. r[2])
    BY DEF CallWrite
  <1>3. PICK p, q, B : p = r[1] /\ q = r[2] /\ B = p .. q
    OBVIOUS
  <1>4. p \in Nat /\ q \in Nat /\ p <= q /\ B \subseteq Blocks
    <2>1. p \in Blocks /\ q \in Blocks /\ p <= q
      BY <1>3, GrainAssumption
    <2>2. QED
      BY <1>3, <2>1, RangeOfBlocks, BlocksAre
  <1>5. /\ call' = [x \in Writers |->
                      IF x = w THEN [b \in B |-> may[b] \ Disk!InFlight(b)]
                      ELSE [b \in DOMAIN call[x] |->
                              IF b \in B THEN call[x][b] \ {w} ELSE call[x][b]]]
        /\ may' = [b \in Blocks |-> IF b \in B THEN may[b] \cup {w} ELSE may[b]]
        /\ survive' = [b \in Blocks |-> IF b \in B THEN survive[b] \cup {w} ELSE survive[b]]
    BY <1>2, <1>3 DEF Disk!PromiseCall
  <1>6. Becomes(w, p, q + 1, 0, 0, "none") /\ Goes(w, "gd") /\ pc[w] = "idle"
    BY <1>1, <1>2, <1>3, MyIs, GotoIs DEF CallWrite, Places, FreePlaces
  <1>7. pc'[w] = "gd" /\ my'[w].at = p /\ my'[w].end = q + 1
    BY <1>6 DEF Becomes, Goes
  <1>8. DOMAIN call'[w] = B /\ \A b \in B : call'[w][b] = may[b] \ Disk!InFlight(b)
    BY <1>5
  <1>9. ASSUME NEW x \in Writers \ {w}
        PROVE  /\ Shrunk(x) /\ Stays(x)
               /\ \A b \in DOMAIN call[x] : call'[x][b] = IF b \in B THEN call[x][b] \ {w} ELSE call[x][b]
    <2>1. call'[x] = [b \in DOMAIN call[x] |-> IF b \in B THEN call[x][b] \ {w} ELSE call[x][b]]
      BY <1>5
    <2>2. Stays(x)
      BY <1>6 DEF Becomes, Goes, Stays
    <2>3. QED
      BY <2>1, <2>2 DEF Shrunk
  <1>10. \A b \in Blocks : may[b] \subseteq may'[b] /\ survive[b] \subseteq survive'[b]
    BY <1>5
  <1>11. Bound(w)' /\ Owed(w)' /\ Done(w)' /\ Doing(w)'
    <2>1. Bound(w)'
      BY <1>3, <1>4, <1>7, <1>8 DEF Bound
    <2>2. Owed(w)'
      BY <1>4, <1>5, <1>8 DEF Owed
    <2>3. Done(w)'
      BY <1>3, <1>4, <1>7, <1>8 DEF Done
    <2>4. QED
      BY <1>7, <2>1, <2>2, <2>3 DEF Doing
  <1>12. ASSUME NEW x \in Writers \ {w} PROVE Bound(x)' /\ Owed(x)' /\ Done(x)' /\ Doing(x)'
    <2>1. Owed(x) /\ Bound(x)
      BY <1>1 DEF Promised
    <2>2. \A b \in DOMAIN call[x] : x \in may'[b] /\ x \in survive'[b]
      BY <1>10, <2>1 DEF Owed, Bound
    <2>3. QED
      BY <1>9, <2>2, StaysOwed
  <1>13. ASSUME NEW x \in Writers, NEW y \in Writers, x # y PROVE Disjoint(x, y)'
    <2>1. CASE x = w
      <3>1. ASSUME NEW b \in DOMAIN call'[w], b \in DOMAIN call'[y] PROVE y \notin call'[w][b]
        <4>1. b \in DOMAIN call[y]
          BY <1>9, <1>13, <2>1, <3>1 DEF Shrunk
        <4>2. y \in Disk!InFlight(b)
          BY <4>1 DEF Disk!InFlight
        <4>3. QED
          BY <1>8, <3>1, <4>2
      <3>2. QED
        BY <2>1, <3>1 DEF Disjoint
    <2>2. CASE y = w
      <3>1. ASSUME NEW b \in DOMAIN call'[x], b \in DOMAIN call'[w] PROVE w \notin call'[x][b]
        <4>1. b \in B /\ b \in DOMAIN call[x]
          BY <1>8, <1>9, <1>13, <2>2, <3>1 DEF Shrunk
        <4>2. call'[x][b] = call[x][b] \ {w}
          BY <1>9, <1>13, <2>2, <4>1
        <4>3. QED
          BY <4>2
      <3>2. QED
        BY <2>2, <3>1 DEF Disjoint
    <2>3. CASE x # w /\ y # w
      BY <1>1, <1>9, <2>3, DisjointStays DEF Promised
    <2>4. QED
      BY <2>1, <2>2, <2>3
  <1>14. \A x, y \in Writers : Disjoint(x, y)'
    BY <1>13 DEF Disjoint
  <1>15. PromisesTyped'
    BY <1>5 DEF PromisesTyped
  <1>16. QED
    BY <1>10, <1>11, <1>12, <1>14, <1>15, StepOwed

\* After a flush, and after a crash: no call is in flight, the device holds one value
\* at each location, and the promises are what the blocks read as.
Rests == /\ \A x \in Writers : Over(x)
         /\ PromisesTyped'
         /\ \A b \in Blocks : may'[b] = {Value'[b]} /\ survive'[b] = {Value'[b]}

LEMMA RestOwed ==
    ASSUME Sound', Calm', Rests
    PROVE  Promised' /\ \A b \in Blocks : Value'[b] = Now(b)'
  <1>1. NoneStale'
    <2>1. Coherent'
      BY DEF Sound
    <2>2. NoneDue'
      BY DEF Rests, Over, NoneDue
    <2>3. QED
      BY <2>1, <2>2, CurrentNext
  <1>2. ASSUME NEW b \in Blocks
        PROVE  Seen(b)' = {Now(b)'} /\ Value'[b] = Now(b)' /\ \A v : Wakes(b, v)' => v = Now(b)'
    <2>1. IndexOf(b) \in Indices /\ SlotOf(b) \in Slots
      BY BlockIs
    <2>2. ~Stale(IndexOf(b), SlotOf(b))'
      BY <1>1, <2>1 DEF NoneStale
    <2>3. Value'[b] = Now(b)'
      BY <2>2, ValueIsNext DEF ValueIsSeen
    <2>4. \A v : Wakes(b, v)' => v = Now(b)'
      BY CalmNext DEF CalmWakes
    <2>5. QED
      BY <2>2, <2>3, <2>4 DEF Seen
  <1>3. Allows' /\ Survives'
    BY <1>2 DEF Rests, Allows, Survives
  <1>4. \A x \in Writers : Bound(x)' /\ Owed(x)' /\ Done(x)' /\ Doing(x)'
    BY OverIs DEF Rests
  <1>5. \A x, y \in Writers : Disjoint(x, y)'
    BY NoCallIs DEF Rests, Over, Disjoint
  <1>6. QED
    BY <1>2, <1>3, <1>4, <1>5 DEF Rests, Promised

\* VmdkReader::flush.
LEMMA FlushOwed ==
    ASSUME Keeping, Sound', Flush
    PROVE  Promised'
  <1>1. Typed /\ DeviceOK /\ ThreadsOK /\ pc' = pc /\ call' = call
    BY DEF Keeping, Sound, Safe, Typed, Flush, Disk!PromiseFlush
  <1>2. disk' = disk /\ \A l \in Locs : media'[l] = {disk[l]}
    BY <1>1, FlushIs DEF Flush
  <1>3. Calm'
    BY <1>2 DEF Calm
  <1>4. Value' = Value
    BY <1>2 DEF Flush, memory, Value, ReadBlock, NamesGrain, UsesZeroed
  <1>5. may' = [b \in Blocks |-> {Value[b]}] /\ survive' = may'
    BY DEF Flush, Disk!PromiseFlush
  <1>6. \A x \in Writers : Over(x)
    BY <1>1 DEF Flush, Over, ThreadsOK, WriterOK
  <1>7. Rests
    BY <1>4, <1>5, <1>6 DEF Rests, PromisesTyped
  <1>8. QED
    BY <1>3, <1>7, RestOwed

\* The process dies, and the image is opened again.
LEMMA CrashOwed ==
    ASSUME Keeping, Sound', Crash
    PROVE  Promised' /\ \A b \in Blocks : Value'[b] \in survive[b]
  <1>1. Typed /\ DeviceOK /\ Safe /\ Survives
    BY DEF Keeping, Sound, Safe, Typed, Promised
  <1>2. PICK c \in CrashOutcomes : DevCrash(c)
    BY DEF Crash
  <1>3. \A l \in Locs : disk'[l] = c[l] /\ media'[l] = {c[l]}
    BY <1>1, <1>2, CrashIs
  <1>4. Calm'
    BY <1>3 DEF Calm
  <1>5. may' = [b \in Blocks |-> {Value'[b]}] /\ survive' = may'
    BY DEF Crash, Disk!PromiseCrash
  <1>6. call' = [w \in Writers |-> Disk!NoCall] /\ pc' = [w \in Writers |-> "idle"]
    BY DEF Crash, Disk!PromiseCrash
  <1>7. Rests
    BY <1>5, <1>6 DEF Rests, Over, PromisesTyped
  <1>8. Promised' /\ \A b \in Blocks : Value'[b] = Now(b)'
    BY <1>4, <1>7, RestOwed
  <1>9. \A b \in Blocks : Wakes(b, Now(b)')
    BY <1>1, CrashWakes
  <1>10. QED
    BY <1>1, <1>8, <1>9 DEF Survives

-----------------------------------------------------------------------------
(* Every step *)

\* The steps that are none of the caller's business.
Within(w) == WriterStep(w) /\ ~Ends(w) /\ ~Errs(w)

LEMMA StepsAre ==
    ASSUME [Next]_vars
    PROVE  \/ Crash \/ Flush
           \/ \E w \in Writers : CallWrite(w) \/ Ends(w) \/ Errs(w)
           \/ \E w \in Writers : Within(w)
           \/ UNCHANGED <<pc, my, promises>>
  <1>1. Next \/ UNCHANGED vars
    OBVIOUS
  <1>2. CASE UNCHANGED vars
    BY <1>2 DEF vars
  <1>3. ASSUME NEW i \in Indices, ReaderLoads(i) PROVE UNCHANGED <<pc, my, promises>>
    BY <1>3 DEF ReaderLoads
  <1>4. ASSUME NEW w \in Writers, WriterStep(w) PROVE Ends(w) \/ Errs(w) \/ Within(w)
    BY <1>4 DEF Within
  <1>5. QED
    BY <1>1, <1>2, <1>3, <1>4 DEF Next

LEMMA WithinStays ==
    ASSUME Typed, [Next]_vars, ~Crash, (\E w \in Writers : Within(w)) \/ UNCHANGED <<pc, my, promises>>
    PROVE  UNCHANGED promises /\ \A x \in Writers : Stays(x)
  <1>1. CASE UNCHANGED <<pc, my, promises>>
    BY <1>1 DEF Stays
  <1>2. ASSUME NEW w \in Writers, Within(w) PROVE UNCHANGED promises /\ \A x \in Writers : Stays(x)
    <2>1. Stays(w) /\ UNCHANGED promises
      BY <1>2, MoverStays DEF Within
    <2>2. ASSUME NEW x \in Writers, x # w PROVE Stays(x)
      BY <1>2, <2>2, OthersWait DEF Within, Stays
    <2>3. QED
      BY <2>1, <2>2
  <1>3. QED
    BY <1>1, <1>2

LEMMA PromisedStep ==
    ASSUME EntryIsReliable, Keeping, Sound', [Next]_vars
    PROVE  Promised'
  <1>1. CASE Crash
    BY <1>1, CrashOwed
  <1>2. CASE Flush
    BY <1>2, FlushOwed
  <1>3. CASE ~Crash /\ \E w \in Writers : CallWrite(w) \/ Ends(w) \/ Errs(w)
    BY <1>3, CallOwed, EndOwed, ErrOwed
  <1>4. CASE ~Crash /\ ((\E w \in Writers : Within(w)) \/ UNCHANGED <<pc, my, promises>>)
    <2>1. Typed
      BY DEF Keeping, Sound, Safe
    <2>2. UNCHANGED promises /\ \A x \in Writers : Stays(x)
      BY <1>4, <2>1, WithinStays
    <2>3. QED
      BY <1>4, <2>2, QuietOwed
  <1>5. QED
    BY <1>1, <1>2, <1>3, <1>4, StepsAre

LEMMA KeepingStep == EntryIsReliable /\ Keeping /\ [Next]_vars => Keeping'
  <1> SUFFICES ASSUME EntryIsReliable, Keeping, [Next]_vars PROVE Keeping'
    OBVIOUS
  <1>1. Sound /\ Safe /\ Coherent /\ Told /\ Kept /\ Contents /\ Seeing
    BY DEF Keeping, Sound
  <1>2. Sound'
    BY <1>1, SoundStep
  <1>3. Contents' /\ Seeing'
    BY <1>1, ContentsStep, SeeingStep
  <1>4. Promised'
    BY <1>2, PromisedStep
  <1>5. QED
    BY <1>2, <1>3, <1>4 DEF Keeping

\* An image as it is opened: what its blocks read as is all that is promised.
LEMMA KeepingInit == Init /\ NoSharedSpace => Keeping
  <1> SUFFICES ASSUME Init, NoSharedSpace PROVE Keeping
    OBVIOUS
  <1>1. Sound /\ Typed /\ Contents
    BY SoundInit, ContentsInit DEF Sound, Safe
  <1>2. \A w \in Writers : pc[w] = "idle" /\ call[w] = Disk!NoCall
    BY DEF Init, Disk!Init
  <1>3. Seeing
    BY <1>2 DEF Seeing, Sees
  <1>4. NoneStale
    BY <1>1, <1>2, CurrentIs DEF Sound, NoneDue
  <1>5. CalmWakes
    BY <1>1, KeptInit, CalmIs DEF Calm
  <1>6. may = [b \in Blocks |-> {Value[b]}] /\ survive = may
    BY DEF Init, Disk!Init
  <1>7. ASSUME NEW b \in Blocks
        PROVE  Seen(b) = {Now(b)} /\ Value[b] = Now(b) /\ \A v : Wakes(b, v) => v = Now(b)
    <2>1. ~Stale(IndexOf(b), SlotOf(b))
      BY <1>4, BlockIs DEF NoneStale
    <2>2. Value[b] = Now(b)
      BY <1>1, <2>1, ValueIs DEF ValueIsSeen
    <2>3. QED
      BY <1>5, <2>1, <2>2 DEF Seen, CalmWakes
  <1>8. PromisesTyped /\ Allows /\ Survives
    BY <1>6, <1>7 DEF PromisesTyped, Allows, Survives
  <1>9. \A w \in Writers : Bound(w) /\ Owed(w) /\ Done(w) /\ Doing(w)
    BY <1>2, NoCallIs DEF Bound, Owed, Done, Doing
  <1>10. \A w, x \in Writers : Disjoint(w, x)
    BY <1>2, NoCallIs DEF Disjoint
  <1>11. QED
    BY <1>1, <1>3, <1>8, <1>9, <1>10 DEF Keeping, Promised

-----------------------------------------------------------------------------
(* The refinement *)

\* A step keeps VirtualDisk's promises, or is none of its business.
LEMMA StepImplements ==
    EntryIsReliable /\ Keeping /\ Keeping' /\ [Next]_vars => [Disk!Next]_(Disk!vars)
  <1> SUFFICES ASSUME EntryIsReliable, Keeping, Keeping', [Next]_vars PROVE Disk!Next
    OBVIOUS
  <1>1. Disk!Allowed'
    <2>1. ValueIsSeen' /\ Allows'
      BY ValueIsNext DEF Keeping, Promised
    <2>2. ASSUME NEW b \in Blocks PROVE Value'[b] \in may'[b]
      <3>1. IF Stale(IndexOf(b), SlotOf(b))' THEN Value'[b] = Zero ELSE Value'[b] = Now(b)'
        BY <2>1 DEF ValueIsSeen
      <3>2. Value'[b] \in Seen(b)'
        BY <3>1 DEF Seen
      <3>3. QED
        BY <2>1, <3>2 DEF Allows
    <2>3. QED
      BY <2>2 DEF Disk!Allowed
  <1>2. Typed /\ Sound'
    BY DEF Keeping, Sound, Safe
  <1>3. CASE Crash
    <2>1. Disk!PromiseCrash /\ \A b \in Blocks : Value'[b] \in survive[b]
      BY <1>2, <1>3, CrashOwed DEF Crash
    <2>2. QED
      BY <2>1 DEF Disk!Next
  <1>4. CASE Flush
    BY <1>1, <1>4 DEF Flush, Disk!Next
  <1>5. ASSUME NEW w \in Writers, CallWrite(w) PROVE Disk!Next
    <2>1. PICK r \in Ranges : Disk!PromiseCall(w, r[1] .. r[2])
      BY <1>5 DEF CallWrite
    <2>2. r[1] .. r[2] \in SUBSET Blocks
      <3>1. r[1] \in Blocks /\ r[2] \in Blocks
        BY GrainAssumption
      <3>2. QED
        BY <3>1, RangeOfBlocks
    <2>3. QED
      BY <1>1, <2>1, <2>2 DEF Disk!Next
  <1>6. ASSUME NEW w \in Writers, Errs(w) PROVE Disk!Next
    <2>1. Disk!PromiseErr(w)
      BY <1>6 DEF Errs, Refused, WriteFails, FlushFails, Fail
    <2>2. QED
      BY <1>1, <2>1 DEF Disk!Next
  <1>7. ASSUME NEW w \in Writers, Ends(w) PROVE Disk!Next
    <2>1. Disk!PromiseOk(w) \/ UNCHANGED promises
      BY <1>7 DEF Ends, Through, Refresh, ChunkDone
    <2>2. QED
      BY <1>1, <2>1 DEF Disk!Next, promises
  <1>8. CASE ~Crash /\ ((\E w \in Writers : Within(w)) \/ UNCHANGED <<pc, my, promises>>)
    <2>1. UNCHANGED promises
      BY <1>2, <1>8, WithinStays
    <2>2. QED
      BY <1>1, <2>1 DEF Disk!Next, promises
  <1>9. QED
    BY <1>3, <1>4, <1>5, <1>6, <1>7, <1>8, StepsAre

\* write_at, read_at and flush on an image whose structures share no host space: every
\* read returns what VirtualDisk allows, through any interleaving, error or crash, when
\* a primary entry whose write fails is left as it was.
THEOREM IsADisk == EntryIsReliable => (Spec /\ NoSharedSpace => ImplementsDisk)
  <1> SUFFICES ASSUME EntryIsReliable PROVE Spec /\ NoSharedSpace => ImplementsDisk
    OBVIOUS
  <1>1. Keeping /\ [Next]_vars => Keeping'
    BY KeepingStep
  <1>2. Init /\ NoSharedSpace => Keeping
    BY KeepingInit
  <1>3. Init => Disk!Init
    BY DEF Init
  <1>4. Keeping /\ Keeping' /\ [Next]_vars => [Disk!Next]_(Disk!vars)
    BY StepImplements
  <1>5. QED
    BY <1>1, <1>2, <1>3, <1>4, PTL DEF Spec, ImplementsDisk, Disk!Spec

=============================================================================
