----------------------------- MODULE GrainWriter -----------------------------
(***************************************************************************)
(* The write path of VmdkReader (src/src/reader.rs) below the session      *)
(* envelope of WriteSession: write_at's loop, the fast path through a      *)
(* grain that exists, and allocate_and_write with every device call it     *)
(* makes: grain tables and grains allocated at the tail, both directories, *)
(* both tables, the grain-table cache. Threads interleave at device calls  *)
(* and lock boundaries; device calls may fail and the process may crash.   *)
(*                                                                         *)
(* Host space is counted in cells. A cell holds one grain (BlocksPerGrain  *)
(* blocks) or one grain table (EntriesPerTable entries); its number stands *)
(* for its first sector. Cell 1 is the metadata the header places.         *)
(***************************************************************************)
EXTENDS BlockDevice, Integers, FiniteSets

CONSTANTS Writers,          \* threads calling write_at
          NoOne,            \* the owner of a free lock
          Tables,           \* directory entries: 0 .. Tables - 1
          EntriesPerTable,  \* num_gtes_per_gt
          BlocksPerGrain,   \* the caller's unit inside one grain
          MaxCell,          \* the last addressable cell (u32 sectors)
          Ranges,           \* the <<first, last>> blocks calls may write
          Images,           \* the disks that may be opened
          Budgets,          \* <<device calls that may fail, crashes>>
          DirtyAt           \* the places where a device write that fails may
                            \* have taken effect all the same

Grains == Tables * EntriesPerTable
Blocks == 0 .. (Grains * BlocksPerGrain - 1)
Indices == 0 .. (Tables - 1)
Slots == 0 .. (EntriesPerTable - 1)

Unallocated == 0      \* GrainState::Unallocated
ZeroedGrain == 1      \* GTE_ZEROED_GRAIN, also the number of the metadata cell
FirstCell == 2
Cells == FirstCell .. MaxCell
Zero == 0             \* a block of zeros
Refusal == -1         \* a read that returns an error

\* Locations of the device.
Length == <<"length">>
Header == <<"header">>
Gd(i) == <<"gd", i>>
Rgd(i) == <<"rgd", i>>
At(c, k) == <<"cell", c, k>>

\* The words of a cell: a table's entries, or a grain's blocks.
Words == 0 .. ((IF EntriesPerTable > BlocksPerGrain THEN EntriesPerTable ELSE BlocksPerGrain) - 1)
Locs == {Length, Header} \cup {Gd(i) : i \in Indices} \cup {Rgd(i) : i \in Indices}
        \cup {At(c, k) : c \in Cells, k \in Words}

ASSUME GrainAssumption ==
    /\ Tables \in Nat \ {0} /\ EntriesPerTable \in Nat \ {0}
    /\ BlocksPerGrain \in Nat \ {0} /\ MaxCell \in Nat
    /\ NoOne \notin Writers
    /\ Budgets \subseteq Nat \X Nat
    /\ DirtyAt \subseteq STRING
    /\ \A r \in Ranges : r[1] \in Blocks /\ r[2] \in Blocks /\ r[1] <= r[2]

\* An image has its locations; directories name cells or nothing. What tables and
\* grains hold is left open.
ASSUME ImageAssumption ==
    \A d \in Images :
        /\ d = [l \in Locs |-> d[l]]
        /\ d[Length] \in 1 .. MaxCell
        /\ d[Header] \in [rgd : BOOLEAN, zeroed : BOOLEAN]
        /\ \A i \in Indices : {d[Gd(i)], d[Rgd(i)]} \subseteq {Unallocated} \cup Cells

VARIABLES gd, rgd,       \* the directories in memory
          cache,         \* gt_cache: [loaded |-> <<index, cell>>, entries]
          cursor,        \* alloc_cursor: the next free cell
          tables,        \* grain_tables: cells known to hold a table
          merged,        \* redundant_merged
          allocation,    \* the owner of the allocation mutex
          gdLock,        \* the owner of the gd mutex across a publication
          pc, my,        \* each thread's place and locals
          faults, crashes,   \* what may still go wrong
          may, survive, call   \* VirtualDisk's promises

memory == <<gd, rgd, cache, cursor, tables, merged>>
locks == <<allocation, gdLock>>
budget == <<faults, crashes>>
promises == <<may, survive, call>>
vars == <<disk, media, memory, locks, pc, my, budget, promises>>

-----------------------------------------------------------------------------
(* Addresses and entries *)

Lesser(x, y) == IF x < y THEN x ELSE y

\* grain_address
Address(at, end) ==
    LET grain == at \div BlocksPerGrain IN
    [in |-> (at % BlocksPerGrain),
     gt |-> (grain \div EntriesPerTable),
     gte |-> (grain % EntriesPerTable),
     len |-> Lesser(BlocksPerGrain - (at % BlocksPerGrain), end - at)]

\* The header's two flags, which nothing here writes: the image has a redundant
\* directory, and an entry of 1 marks a zeroed grain.
HasRgd == disk[Header].rgd
UsesZeroed == disk[Header].zeroed

\* grain_state: whether an entry names a grain.
NamesGrain(e) == e # Unallocated /\ ~(UsesZeroed /\ e = ZeroedGrain)

\* grain_host_offset's and lookup_grain's checks of a pointer.
InFile(c) == c \in FirstCell .. disk[Length]
ValidGrain(c) == InFile(c) /\ c \notin tables

\* The table at cell c as the device holds it.
TableAt(d, c) == [e \in Slots |-> d[At(c, e)]]

NoCache == [loaded |-> <<>>, entries |-> <<>>]
Loaded(i, c) == [loaded |-> <<i, c>>, entries |-> TableAt(disk, c)]

\* Mutant of Lookup: a filled slot serves any table.
LookupUnkeyed(i, c) == IF cache # NoCache THEN cache ELSE Loaded(i, c)

\* lookup_grain's entries: the cached ones, or the table read from the device.
Lookup(i, c) == IF cache.loaded = <<i, c>> THEN cache ELSE Loaded(i, c)

\* What read_at returns for block b from device d, directory g and cache k.
ReadBlock(d, g, k, b) ==
    LET a == Address(b, b + 1)
        table == g[a.gt]
        entry == IF k.loaded = <<a.gt, table>> THEN k.entries[a.gte]
                                               ELSE d[At(table, a.gte)]
    IN CASE table = Unallocated -> Zero
         [] table # Unallocated /\ ~NamesGrain(entry) -> Zero
         [] table # Unallocated /\ NamesGrain(entry) ->
              IF entry \in FirstCell .. d[Length] THEN d[At(entry, a.in)] ELSE Refusal

Value == [b \in Blocks |-> ReadBlock(disk, gd, cache, b)]

Disk == INSTANCE VirtualDisk WITH value <- Value

-----------------------------------------------------------------------------
(* Opening *)

\* open_inner: the directories are read, the cursor is the end of the file,
\* and every table they name that lies in the file is protected.
Named(d) == {d[Gd(i)] : i \in Indices} \cup {d[Rgd(i)] : i \in Indices}

\* Mutant of Opened: the cursor is the last sector in use, not the one past it.
OpenedShort(d) ==
    [gd |-> [i \in Indices |-> d[Gd(i)]],
     rgd |-> [i \in Indices |-> d[Rgd(i)]],
     cursor |-> d[Length],
     tables |-> Named(d) \cap (FirstCell .. d[Length])]

Opened(d) ==
    [gd |-> [i \in Indices |-> d[Gd(i)]],
     rgd |-> [i \in Indices |-> d[Rgd(i)]],
     cursor |-> d[Length] + 1,
     tables |-> Named(d) \cap (FirstCell .. d[Length])]

Idle == [at |-> 0, end |-> 0, table |-> 0, new |-> 0, purpose |-> "none"]

Init ==
    /\ disk \in Images
    /\ media = [l \in DOMAIN disk |-> {disk[l]}]
    /\ gd = Opened(disk).gd /\ rgd = Opened(disk).rgd
    /\ cursor = Opened(disk).cursor /\ tables = Opened(disk).tables
    /\ cache = NoCache
    /\ merged = {}
    /\ allocation = NoOne /\ gdLock = NoOne
    /\ pc = [w \in Writers |-> "idle"]
    /\ my = [w \in Writers |-> Idle]
    /\ \E b \in Budgets : faults = b[1] /\ crashes = b[2]
    /\ Disk!Init

-----------------------------------------------------------------------------
(* Control *)

Goto(w, to) == pc' = [pc EXCEPT ![w] = to]
Here(w) == Address(my[w].at, my[w].end)

\* The guards a thread holds when its call, or its chunk, ends.
ReleaseLocks(w) ==
    /\ allocation' = IF allocation = w THEN NoOne ELSE allocation
    /\ gdLock' = IF gdLock = w THEN NoOne ELSE gdLock

Fail(w) ==
    /\ Goto(w, "idle")
    /\ my' = [my EXCEPT ![w] = Idle]
    /\ ReleaseLocks(w)
    /\ Disk!PromiseErr(w)

\* The end of one chunk: on to the next, or return Ok.
ChunkDone(w) ==
    /\ ReleaseLocks(w)
    /\ IF my[w].at + Here(w).len < my[w].end
       THEN /\ Goto(w, "gd")
            /\ my' = [my EXCEPT ![w] = [Idle EXCEPT !.at = my[w].at + Here(w).len,
                                                    !.end = my[w].end]]
            /\ UNCHANGED promises
       ELSE /\ Goto(w, "idle")
            /\ my' = [my EXCEPT ![w] = Idle]
            /\ Disk!PromiseOk(w)

\* write_at is called on a range of blocks.
CallWrite(w) ==
    /\ pc[w] = "idle"
    /\ \E r \in Ranges :
          /\ my' = [my EXCEPT ![w] = [Idle EXCEPT !.at = r[1], !.end = r[2] + 1]]
          /\ Disk!PromiseCall(w, r[1] .. r[2])
    /\ Goto(w, "gd")
    /\ UNCHANGED <<devVars, memory, locks, budget>>

-----------------------------------------------------------------------------
(* The fast path: backing_sector, then write_through *)

BackingTable(w) ==
    /\ pc[w] = "gd"
    /\ gdLock = NoOne
    /\ my' = [my EXCEPT ![w].table = gd[Here(w).gt]]
    /\ Goto(w, IF gd[Here(w).gt] = Unallocated THEN "allocate" ELSE "gt")
    /\ UNCHANGED <<devVars, memory, locks, budget, promises>>

BackingGrain(w) ==
    /\ pc[w] = "gt"
    /\ InFile(my[w].table)
    /\ LET k == Lookup(Here(w).gt, my[w].table)
           e == k.entries[Here(w).gte]
       IN /\ cache' = k
          /\ IF NamesGrain(e)
             THEN Goto(w, "through") /\ my' = [my EXCEPT ![w].new = e]
             ELSE Goto(w, "allocate") /\ UNCHANGED my
    /\ UNCHANGED <<devVars, gd, rgd, cursor, tables, merged, locks, budget, promises>>

\* The device write of the caller's bytes, into the grain at my[w].new.
Payload(w) == [l \in {At(my[w].new, Here(w).in + k) : k \in 0 .. Here(w).len - 1} |-> w]

\* write_through: one device write, no flush.
Through(w) ==
    /\ pc[w] = "through"
    /\ ValidGrain(my[w].new)
    /\ DevWriteAll(Payload(w))
    /\ ChunkDone(w)
    /\ UNCHANGED <<memory, budget>>

-----------------------------------------------------------------------------
(* allocate_and_write, under the allocation mutex *)

\* Mutant of Allocate: the sequence is not serialised, only its parts are.
AllocateUnlocked(w) ==
    /\ pc[w] = "allocate"
    /\ gdLock = NoOne
    /\ my' = [my EXCEPT ![w].table = gd[Here(w).gt], ![w].purpose = "primary"]
    /\ Goto(w, IF gd[Here(w).gt] = Unallocated THEN "tableSpace" ELSE "gt2")
    /\ UNCHANGED <<devVars, memory, locks, budget, promises>>

Allocate(w) ==
    /\ pc[w] = "allocate"
    /\ allocation = NoOne /\ gdLock = NoOne
    /\ allocation' = w
    /\ my' = [my EXCEPT ![w].table = gd[Here(w).gt], ![w].purpose = "primary"]
    /\ Goto(w, IF gd[Here(w).gt] = Unallocated THEN "tableSpace" ELSE "gt2")
    /\ UNCHANGED <<devVars, memory, gdLock, budget, promises>>

\* Mutant of TakeCell: the file grows, the cursor stays.
TakeCellTwice(w, next) ==
    /\ cursor <= MaxCell
    /\ DevWrite(Length, cursor)
    /\ cursor' = cursor
    /\ my' = [my EXCEPT ![w].new = cursor]
    /\ Goto(w, next)

\* Mutant of TakeCell: no set_len.
TakeCellBeyond(w, next) ==
    /\ cursor <= MaxCell
    /\ UNCHANGED devVars
    /\ cursor' = cursor + 1
    /\ my' = [my EXCEPT ![w].new = cursor]
    /\ Goto(w, next)

\* allocate_sectors: set_len, then the cursor, both under its lock.
TakeCell(w, next) ==
    /\ cursor <= MaxCell
    /\ DevWrite(Length, cursor)
    /\ cursor' = cursor + 1
    /\ my' = [my EXCEPT ![w].new = cursor]
    /\ Goto(w, next)

\* allocate_blank_grain_table: space, protection, zeros, flush.
TableSpace(w) ==
    /\ pc[w] = "tableSpace"
    /\ TakeCell(w, "tableZero")
    /\ tables' = tables \cup {cursor}
    /\ UNCHANGED <<gd, rgd, cache, merged, locks, budget, promises>>

\* Where allocate_grain_table and redundant_gt_sector go on with a blank table:
\* the primary waits for its redundant twin, which is published before it.
AfterBlank(w) ==
    CASE my[w].purpose = "primary" /\ HasRgd  -> "tableSpace"
      [] my[w].purpose = "primary" /\ ~HasRgd -> "gdWrite"
      [] my[w].purpose = "twin"               -> "rgdWrite"
      [] my[w].purpose = "seed"               -> "seedCopy"

TableFlush(w) ==
    /\ pc[w] = "tableFlush"
    /\ DevFlush
    /\ Goto(w, AfterBlank(w))
    /\ my' = IF my[w].purpose = "primary"
             THEN [my EXCEPT ![w].table = my[w].new,
                             ![w].purpose = IF HasRgd THEN "twin" ELSE "primary"]
             ELSE my
    /\ UNCHANGED <<memory, locks, budget, promises>>

\* publish_directory_entry, redundant: for a twin of a new table, or a seeded
\* copy of an existing one.
RgdFlush(w) ==
    /\ pc[w] = "rgdFlush"
    /\ DevFlush
    /\ rgd' = [rgd EXCEPT ![Here(w).gt] = my[w].new]
    /\ IF my[w].purpose = "twin"
       THEN Goto(w, "gdWrite") /\ UNCHANGED merged
       ELSE Goto(w, "grainSpace") /\ merged' = merged \cup {Here(w).gt}
    /\ UNCHANGED <<gd, cache, cursor, tables, my, locks, budget, promises>>

\* publish_directory_entry, primary: the gd mutex is held from the write on.
GdFlush(w) ==
    /\ pc[w] = "gdFlush"
    /\ DevFlush
    /\ gd' = [gd EXCEPT ![Here(w).gt] = my[w].table]
    /\ gdLock' = NoOne
    /\ Goto(w, "invalidate")
    /\ UNCHANGED <<rgd, cache, cursor, tables, merged, my, allocation, budget, promises>>

Invalidate(w) ==
    /\ pc[w] = "invalidate"
    /\ cache' = IF cache # NoCache /\ cache.loaded[1] = Here(w).gt THEN NoCache ELSE cache
    /\ Goto(w, "gt2")
    /\ UNCHANGED <<devVars, gd, rgd, cursor, tables, merged, my, locks, budget, promises>>

\* Mutant of LookAgain: what was read before the lock is believed.
LookAgainNot(w) ==
    /\ pc[w] = "gt2"
    /\ InFile(my[w].table)
    /\ cache' = Lookup(Here(w).gt, my[w].table)
    /\ Goto(w, IF HasRgd THEN "redundant" ELSE "grainSpace")
    /\ UNCHANGED <<devVars, gd, rgd, cursor, tables, merged, my, locks, budget, promises>>

\* The entry is read again under the lock: another writer may have published.
LookAgain(w) ==
    /\ pc[w] = "gt2"
    /\ InFile(my[w].table)
    /\ LET k == Lookup(Here(w).gt, my[w].table)
           e == k.entries[Here(w).gte]
       IN /\ cache' = k
          /\ IF NamesGrain(e)
             THEN Goto(w, "through") /\ my' = [my EXCEPT ![w].new = e]
             ELSE Goto(w, IF HasRgd THEN "redundant" ELSE "grainSpace") /\ UNCHANGED my
    /\ UNCHANGED <<devVars, gd, rgd, cursor, tables, merged, locks, budget, promises>>

\* Mutant of MergedEntry: only entries that name grains are copied.
MergedEntryGrains(w, e) ==
    LET p == disk[At(my[w].table, e)]
        r == disk[At(rgd[Here(w).gt], e)]
    IN IF r = Unallocated /\ NamesGrain(p) THEN p ELSE r

\* merge_primary_into_redundant's result: gaps filled, nothing replaced.
MergedEntry(w, e) ==
    LET r == disk[At(rgd[Here(w).gt], e)] IN
    IF r = Unallocated THEN disk[At(my[w].table, e)] ELSE r

\* redundant_gt_sector: seed a missing table, merge into one not merged yet
\* (written only when something changed), use any other as it is.
Redundant(w) ==
    LET i == Here(w).gt
        r == rgd[i]
        changes == \E e \in Slots : MergedEntry(w, e) # disk[At(r, e)]
    IN
    /\ pc[w] = "redundant"
    /\ \/ /\ r = Unallocated
          /\ my' = [my EXCEPT ![w].purpose = "seed"]
          /\ Goto(w, "tableSpace")
          /\ UNCHANGED merged
       \/ /\ InFile(r) /\ i \notin merged /\ changes
          /\ Goto(w, "mergeWrite")
          /\ UNCHANGED <<my, merged>>
       \/ /\ InFile(r) /\ (i \in merged \/ ~changes)
          /\ merged' = merged \cup {i}
          /\ Goto(w, "grainSpace")
          /\ UNCHANGED my
    /\ UNCHANGED <<devVars, gd, rgd, cache, cursor, tables, locks, budget, promises>>

MergeFlush(w) ==
    /\ pc[w] = "mergeFlush"
    /\ DevFlush
    /\ merged' = merged \cup {Here(w).gt}
    /\ Goto(w, "grainSpace")
    /\ UNCHANGED <<gd, rgd, cache, cursor, tables, my, locks, budget, promises>>

\* allocate_grain; a chunk that covers only part of the grain zeroes it first.
GrainSpace(w) ==
    /\ pc[w] = "grainSpace"
    /\ TakeCell(w, IF Here(w).len < BlocksPerGrain THEN "grainZero" ELSE "grainData")
    /\ UNCHANGED <<gd, rgd, cache, tables, merged, locks, budget, promises>>

\* The device writes of the allocation, each at its own pc: where, and what.
Stores(w) ==
    LET i == Here(w).gt
        new == my[w].new
    IN
    CASE pc[w] = "tableZero"  -> [l \in {At(new, e) : e \in Slots} |-> Unallocated]
      [] pc[w] = "seedCopy"   -> [l \in {At(new, e) : e \in Slots} |->
                                     disk[At(my[w].table, l[3])]]
      [] pc[w] = "rgdWrite"   -> [l \in {Rgd(i)} |-> new]
      [] pc[w] = "gdWrite"    -> [l \in {Gd(i)} |-> my[w].table]
      [] pc[w] = "mergeWrite" -> [l \in {At(rgd[i], e) : e \in Slots} |->
                                     MergedEntry(w, l[3])]
      [] pc[w] = "grainZero"  -> [l \in {At(new, k) : k \in 0 .. BlocksPerGrain - 1} |-> Zero]
      [] pc[w] = "grainData"  -> Payload(w)
      [] pc[w] = "entryRedundant" -> [l \in {At(rgd[i], Here(w).gte)} |-> new]
      [] pc[w] = "entryPrimary"   -> [l \in {At(my[w].table, Here(w).gte)} |-> new]

\* Mutant of AfterStore: no flush between the redundant entry and the primary.
AfterStoreUnordered ==
    [tableZero |-> "tableFlush", seedCopy |-> "seedFlush", rgdWrite |-> "rgdFlush",
     gdWrite |-> "gdFlush", mergeWrite |-> "mergeFlush", grainZero |-> "grainData",
     grainData |-> "grainFlush", entryRedundant |-> "entryPrimary",
     entryPrimary |-> "refresh"]

\* Mutant of AfterStore: no flush between a grain's data and its entry.
AfterStoreEager ==
    [tableZero |-> "tableFlush", seedCopy |-> "seedFlush", rgdWrite |-> "rgdFlush",
     gdWrite |-> "gdFlush", mergeWrite |-> "mergeFlush", grainZero |-> "grainData",
     grainData |-> IF HasRgd THEN "entryRedundant" ELSE "entryPrimary",
     entryRedundant |-> "entryFlush", entryPrimary |-> "refresh"]

AfterStore ==
    [tableZero |-> "tableFlush", seedCopy |-> "seedFlush", rgdWrite |-> "rgdFlush",
     gdWrite |-> "gdFlush", mergeWrite |-> "mergeFlush", grainZero |-> "grainData",
     grainData |-> "grainFlush", entryRedundant |-> "entryFlush",
     entryPrimary |-> "refresh"]

Store(w) ==
    /\ pc[w] \in DOMAIN AfterStore
    /\ pc[w] = "gdWrite" => gdLock = NoOne
    /\ DevWriteAll(Stores(w))
    /\ gdLock' = IF pc[w] = "gdWrite" THEN w ELSE gdLock
    /\ Goto(w, AfterStore[pc[w]])
    /\ UNCHANGED <<memory, allocation, my, budget, promises>>

\* The flushes after which memory does not change: before the seeded copy is
\* published, before the entry that names a grain, between its two copies.
\* update_gt_entry's own redundant_gt_sector finds the table merged.
AfterFlush ==
    [seedFlush |-> "rgdWrite",
     grainFlush |-> IF HasRgd THEN "entryRedundant" ELSE "entryPrimary",
     entryFlush |-> "entryPrimary"]

Flushed(w) ==
    /\ pc[w] \in DOMAIN AfterFlush
    /\ DevFlush
    /\ Goto(w, AfterFlush[pc[w]])
    /\ UNCHANGED <<memory, locks, my, budget, promises>>

\* Mutant of Refresh: the cached table is left alone.
RefreshNot(w) ==
    /\ pc[w] = "refresh"
    /\ ChunkDone(w)
    /\ UNCHANGED <<devVars, memory, budget>>

\* update_gt_entry's last step: the cached table, if it is this one.
Refresh(w) ==
    /\ pc[w] = "refresh"
    /\ cache' = IF cache.loaded = <<Here(w).gt, my[w].table>>
                THEN [cache EXCEPT !.entries[Here(w).gte] = my[w].new]
                ELSE cache
    /\ ChunkDone(w)
    /\ UNCHANGED <<devVars, gd, rgd, cursor, tables, merged, budget>>

-----------------------------------------------------------------------------
(* Errors, the other callers, crashes *)

\* A pointer is refused, or the address space is full: no device call is made.
Refused(w) ==
    /\ \/ pc[w] \in {"gt", "gt2"} /\ ~InFile(my[w].table)
       \/ pc[w] = "through" /\ ~ValidGrain(my[w].new)
       \/ pc[w] = "redundant" /\ rgd[Here(w).gt] # Unallocated /\ ~InFile(rgd[Here(w).gt])
       \/ pc[w] \in {"tableSpace", "grainSpace"} /\ cursor > MaxCell
    /\ Fail(w)
    /\ UNCHANGED <<devVars, memory, budget>>

\* A device write or set_len returns an error, with or without effect.
WriteFails(w) ==
    /\ faults > 0
    /\ faults' = faults - 1
    /\ \/ pc[w] \in DOMAIN AfterStore /\ (pc[w] = "gdWrite" => gdLock = NoOne)
       \/ pc[w] = "through" /\ ValidGrain(my[w].new)
       \/ pc[w] \in {"tableSpace", "grainSpace"} /\ cursor <= MaxCell
    /\ \/ UNCHANGED devVars
       \/ pc[w] \in DirtyAt /\ CASE pc[w] \in DOMAIN AfterStore -> DevWriteAll(Stores(w))
                                [] pc[w] = "through" -> DevWriteAll(Payload(w))
                                [] OTHER -> DevWrite(Length, cursor)
    /\ Fail(w)
    /\ UNCHANGED <<memory, crashes>>

FlushFails(w) ==
    /\ faults > 0
    /\ faults' = faults - 1
    /\ pc[w] \in DOMAIN AfterFlush \cup {"tableFlush", "rgdFlush", "gdFlush", "mergeFlush"}
    /\ DevFlushFails
    /\ Fail(w)
    /\ UNCHANGED <<memory, crashes>>

\* A reader loads a table into the one cache slot.
ReaderLoads(i) ==
    /\ gdLock = NoOne
    /\ InFile(gd[i])
    /\ cache' = Lookup(i, gd[i])
    /\ UNCHANGED <<devVars, gd, rgd, cursor, tables, merged, locks, pc, my, budget, promises>>

\* VmdkReader::flush, which excludes writes in flight (WriteSession).
Flush ==
    /\ \A w \in Writers : pc[w] = "idle"
    /\ DevFlush
    /\ Disk!PromiseFlush
    /\ UNCHANGED <<memory, locks, pc, my, budget>>

\* The process dies, and the image is opened again for writing.
Crash ==
    /\ crashes > 0
    /\ crashes' = crashes - 1
    /\ \E c \in CrashOutcomes :
          /\ DevCrash(c)
          /\ gd' = Opened(c).gd /\ rgd' = Opened(c).rgd
          /\ cursor' = Opened(c).cursor /\ tables' = Opened(c).tables
    /\ cache' = NoCache
    /\ merged' = {}
    /\ allocation' = NoOne /\ gdLock' = NoOne
    /\ pc' = [w \in Writers |-> "idle"]
    /\ my' = [w \in Writers |-> Idle]
    /\ Disk!PromiseCrash
    /\ UNCHANGED faults

WriterStep(w) ==
    \/ BackingTable(w) \/ BackingGrain(w) \/ Through(w)
    \/ Allocate(w) \/ TableSpace(w) \/ TableFlush(w) \/ RgdFlush(w) \/ GdFlush(w)
    \/ Invalidate(w) \/ LookAgain(w) \/ Redundant(w) \/ MergeFlush(w)
    \/ GrainSpace(w) \/ Store(w) \/ Flushed(w) \/ Refresh(w)
    \/ Refused(w) \/ WriteFails(w) \/ FlushFails(w)

Next ==
    \/ \E w \in Writers : CallWrite(w) \/ WriterStep(w)
    \/ \E i \in Indices : ReaderLoads(i)
    \/ Flush
    \/ Crash

Spec == Init /\ [][Next]_vars

-----------------------------------------------------------------------------
(* Properties *)

TypeOK ==
    /\ \A l \in Locations : disk[l] \in media[l]
    /\ disk[Length] \in 1 .. MaxCell
    /\ disk[Header] \in [rgd : BOOLEAN, zeroed : BOOLEAN]
    /\ gd \in [Indices -> {Unallocated} \cup Cells]
    /\ rgd \in [Indices -> {Unallocated} \cup Cells]
    /\ \/ cache = NoCache
       \/ cache.loaded \in Indices \X Cells /\ DOMAIN cache.entries = Slots
    /\ cursor \in 2 .. MaxCell + 1 /\ tables \subseteq Cells /\ merged \subseteq Indices
    /\ faults \in Nat /\ crashes \in Nat
    /\ allocation \in Writers \cup {NoOne} /\ gdLock \in {allocation, NoOne}
    /\ \A w \in Writers : pc[w] = "idle" => call[w] = Disk!NoCall

\* Every call, flush and crash keeps VirtualDisk's promises: no read returns
\* stale or foreign bytes, no acknowledged write is lost to a concurrent one,
\* nothing flushed is lost in a crash, and a partial write reads as zero
\* around itself.
ImplementsDisk == Disk!Spec

\* The places on device d that name a cell, and the cell each names.
Primary(d, i, e) == d[At(d[Gd(i)], e)]
Pointers(d) ==
    {<<l, d[l]>> : l \in {Gd(i) : i \in Indices} \cup {Rgd(i) : i \in Indices}}
    \cup {<<<<"entry", i, e>>, Primary(d, i, e)>> : i \in {j \in Indices : d[Gd(j)] # Unallocated},
                                          e \in Slots}

Used(d) == {p \in Pointers(d) : NamesGrain(p[2])}

\* No two structures share host space: two tables, two grains, a table and a
\* grain.
DistinctSpace == \A p, q \in Used(disk) : p[2] = q[2] => p = q

\* Moreover all of it lies inside the file. Both hold now and (the state a
\* crash leaves being a state) after a crash at any point of an allocation.
NoSharedSpace ==
    DistinctSpace /\ \A p \in Used(disk) : p[2] \in FirstCell .. disk[Length]

\* The redundant table of index i holds every entry of the primary one.
Covers(i) ==
    /\ disk[Rgd(i)] # Unallocated
    /\ \A e \in Slots :
          LET p == Primary(disk, i, e)
              r == disk[At(disk[Rgd(i)], e)]
          IN (NamesGrain(p) => r = p) /\ (p # Unallocated => r # Unallocated)

\* The same of whatever a crash may leave of both.
EverCovers(i) ==
    \A g \in media[Gd(i)] \ {Unallocated}, r \in media[Rgd(i)] :
        /\ r # Unallocated
        /\ \A e \in Slots : \A p \in media[At(g, e)], q \in media[At(r, e)] :
              (NamesGrain(p) => q = p) /\ (p # Unallocated => q # Unallocated)

\* A redundant copy that covers the primary never falls behind it: not between
\* two writes, not in what a crash leaves of them.
RedundantNeverBehind ==
    [][HasRgd => \A i \in Indices : EverCovers(i) => EverCovers(i)']_vars

\* Opened incomplete, a redundant table is complete from its first merge on.
MergedIsComplete == \A i \in merged : Covers(i)

\* An entry that names a grain never changes within a session: what the fast
\* path decides outside the allocation lock stays true.
PublishedNeverMoves ==
    [][\A i \in Indices :
          gd[i] # Unallocated /\ crashes' = crashes =>
            /\ gd'[i] = gd[i]
            /\ \A e \in Slots :
                  LET l == At(gd[i], e) IN NamesGrain(disk[l]) => disk'[l] = disk[l]]_vars

\* The cached table is the device's, but for the entry whose writer is about
\* to refresh it.
CacheCoherent ==
    cache # NoCache =>
        LET i == cache.loaded[1]
            c == cache.loaded[2]
        IN /\ c = gd[i]
           /\ \A e \in Slots :
                 \/ cache.entries[e] = disk[At(c, e)]
                 \/ \E w \in Writers : /\ pc[w] = "refresh"
                                       /\ <<Here(w).gt, Here(w).gte>> = <<i, e>>
                                       /\ my[w].new = disk[At(c, e)]
=============================================================================
