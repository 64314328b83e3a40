# A verification project for rust-img-vmdk

TLA+ models of the VMDK sparse-extent reader and writer in `src/reader.rs`, its header
and descriptor parsers, the commands that move data in `src/cli/vmdk/img.rs`, and the
host device underneath; TLC runs over small instances; TLAPS proofs about the write
session, the grain write path, the read path, opening, the content-identifier field and
the commands. Paths and line numbers
below are relative to the repository root.

## 1. The system

The crate opens one sparse extent (`monolithicSparse`, read and write, or
`streamOptimized`, read only) over an abstract block device and presents the virtual disk
inside. Everything with behaviour sits in one type, `VmdkReader`; any number of threads
may call `read_at`, `write_at` and `flush` on one reader.

| Part | Where | State it keeps | Operations | Modelled in |
|---|---|---|---|---|
| Write session | `src/reader.rs` | `writes_in_flight` (reader-writer lock), `content_id_bumped`, `unclean_marked`; the `CID=` line and `uncleanShutdown` byte on the device | `write_at`'s envelope, `mark_modified`, `bump_content_id`, `flush` | `WriteSession` |
| Grain allocation and write path | `src/reader.rs` | `gd`, `rgd`, `gt_cache`, `alloc_cursor`, `allocation`, `grain_tables`, `redundant_merged`; directories, tables and grains on the device | `write_at`'s loop, `backing_sector`, `write_through`, `allocate_and_write`, `allocate_grain_table`, `redundant_gt_sector`, `update_gt_entry` | `GrainWriter` |
| Read path | `src/reader.rs` | the pending run and the buffer of each call; `inflated` (one cached grain) | `read_at`, `read_run`, `inflated_grain` | `ReadPath` (and the table cache it shares with writers in `GrainWriter`) |
| Opening and layout | `src/reader.rs`, `src/header.rs`, `src/descriptor.rs` | nothing until it succeeds; then the immutable layout | `open`, `open_rw`, the probe, header, footer, descriptor, both directories, protected regions, `grain_host_offset` | `OpenImage` |
| Protected byte ranges | `src/reader.rs` (`Extents`) | a sorted vector of ranges | `insert`, `overlaps` | `Extents` |
| Host device | crate `fs_core` (external) | bytes, and what of them is durable | `read`, `write`, `flush`, `set_len` | `BlockDevice` |
| Content-identifier field | `src/reader.rs` | the `CID=` line and all text after it, in the descriptor's sectors | `locate_content_id`, `next_content_id`, the rewrite in `bump_content_id` | `ContentId`; its place in the session in `WriteSession`, the refusal at open in `OpenImage` |
| C interface | `src/capi.rs`, `include/img_vmdk.h` | one boxed reader per handle | `vmdk_*` | no |
| Command line | `src/cli/` | the output files and their `FILE.partial` | `img read`, `img write`; `img info`, `get`, sizes and arguments | `ImgTool`, the first two |
| Errors, crate root, fuzz targets, tests, scripts | `src/error.rs`, `src/lib.rs`, `fuzz/`, `tests/`, `scripts/` | — | — | no (read as documentation) |

**How they interact.** `open_inner` builds the layout. `write_at` takes `writes_in_flight`
shared, runs `mark_modified` (the session), then the grain loop (the write path). `flush`
takes the same lock exclusively. Readers take none of the writers' locks except, briefly,
`gd`, `gt_cache`, `grain_tables` and `inflated`; a grain table loaded by a reader lands in
the same one-slot cache a writer refreshes. The command line is a client: `img read` and
`img write` are loops of `read_at` and `write_at` calls between files and streams.
Everything ends at the device, which may fail any call and may lose or reorder what has
not been flushed.

**What is hard.** Two writers meeting in one grain or one table; a reader loading a
table between a writer's device write and its cache refresh; a `flush` racing a write;
which of a write's device calls a crash keeps; a device call that fails half way through
a growing write, and the retry; a pointer that is refused today and lies inside the file
tomorrow; joined reads; a cached inflated grain served for another entry; regions at odd
places in a file; one device write torn between two sectors; a file replaced by a rename
before it is durable, or while another process is still writing it. `PROJECT.json` lists
each of these ("hazards") at its line, with the properties that watch it.

**What makes each part correct.**

* Session: the marker stands whenever a crash could leave data half written; the content
  identifier moves, durably, before content does and once per session; a flush that
  returns Ok is a barrier and lowers the marker; the envelope's own device calls never
  fall into another thread's loop over chunks; nobody deadlocks and calls return.
* Write path: the image behaves as an ordinary disk with a volatile cache
  (`VirtualDisk`): acknowledged writes are read back, flushed ones survive, untouched
  blocks never change; no two structures share host space; a published entry never moves;
  the redundant copy never falls behind.
* Read path: an Ok read filled each unit with its own bytes; an error comes exactly when
  some grain of the range deserves it; one device read per contiguous run.
* Opening: what opens is sound (every offset has an entry, pointers stay in grains, what
  is held apart is exactly the metadata the file has whole); what opens for writing can be
  kept up; a failed device read is never a verdict on the file.
* Content-identifier field: a bump moves the identifier and changes nothing else a reader
  of the descriptor sees, a bumped identifier is durable, nothing is ever written past the
  region, the line itself is never lost, and what a crash leaves still opens.
* Commands: an output file is the old one or a whole new one, at every instant; what
  stdout gets is a prefix of the range; what can be refused is refused before the first
  byte; Ok means the whole of it.

## 2. Modules

`VirtualDisk` is an abstract specification: `may[b]`, the values a read of block `b` may
return, and `survive[b]`, the values it may have after a crash, changed by calls starting,
returning Ok, returning an error, by flushes and crashes. `GrainWriter` implements it:
`Value[b]` is what `read_at` would return for `b` from the present device, directory and
cache, and `ImplementsDisk == Disk!Spec` (instance with `value <- Value`) is checked as a
property. `GrainWriter` carries `may`, `survive` and `call` along as history of its
callers; they guard none of its steps.

`BlockDevice` is the device both write-side models extend. `disk[l]` is what a read
returns; `media[l]` the set of values a crash may leave. A write adds to `media[l]`; a
successful flush reduces every `media[l]` to the present value; a failed flush does
nothing; a failed write may or may not have taken effect. A crash picks one value per
location independently, so unflushed writes survive in any combination. One location is
written atomically (a header byte, a directory or table entry, a unit of a grain); a
device call over several locations may be torn between them.

`WriteSession` models the envelope. A thread's `pc` names the next lock or device call:
`CheckBumped`, `WriteCid`, `FlushCid` are `bump_content_id` under `content_id_bumped`;
`CheckMarked`, `WriteRaise`, `FlushRaise` the second half of `mark_modified`; `WriteData`
and `FlushData` the grain loop seen from outside (`data` is one abstract location, a call
makes up to `MaxWrites` device writes, with or without a flush between); `QueueFlush`,
`EnterFlush`, `Sync`, `CheckLower`, `WriteLower`, `FlushLower` are `flush`. Each `...Fails`
action is the `?` after the call of that name. `MCWriteSession` instantiates it;
`WriteSession_proof` proves about it.

`GrainWriter` models the loop inside, one device call or lock boundary per step. Host
space is counted in *cells*, each a grain or a grain table; cell numbers stand for first
sectors, the length of the file is a location of its own (`set_len`), cell 1 stands for
the metadata the header places, and 1 is also `GTE_ZEROED_GRAIN`, as in the format. The
chunk's address comes from `Address` (`grain_address`); `BackingTable`, `BackingGrain` and
`Through` are the fast path, which takes no `allocation`; `Allocate` to `Refresh` are
`allocate_and_write` under it: the primary table, its redundant twin (published first),
the directory entries (the `gd` mutex is held across the primary one), the second look,
the redundant table used, merged into or seeded, the grain, zeros when only part of it is
written, data, flush, redundant entry, flush, primary entry, cache. `Stores` says what each
plain device write writes and `AfterStore`/`AfterFlush` where control goes next. `Refused`
collects the early returns, `WriteFails`/`FlushFails` the device errors; `ReaderLoads` is a
reader filling the cache slot; `Flush` is the flush of `WriteSession`; `Crash` reopens what
is left. That `Flush` is one step between calls, and that the device calls of
`mark_modified` and `bump_content_id` are no steps of this module, is an abstraction of
`WriteSession` whose two premises are theorems there: `FlushIsABarrier` and
`EnvelopeIsApart`, by which no such call falls into a loop over chunks. `ImageAssumption`
says which disks may be opened: directories name cells or nothing, what tables and grains
hold is left open. `GrainWriter_proof`, `GrainTables_proof` and `GrainDisk_proof`, each
extending the one before, prove about it.

`ReadPath` models a read's walk over grains: `WalkHole`, `WalkRun`, `WalkRefused`,
`ReadRun`, `WalkEnds`, then `CacheHit`, `CacheMiss`, `Inflate`, `InflateRefused`, `Keep`
for streams. A unit of the buffer records where it came from (a host unit, a unit of the
record of a given grain, or zero), which is all the properties tell apart. Table lookups
are one function from grains to entries, because the lookup itself is `GrainWriter`'s.

`OpenImage` models `open_inner`, one step per device read with all the checks up to the
next. Checks are written as an ordered list of conditions and verdicts (`Judge`), the
first that applies decides. Bytes, sectors and 64-bit words are scaled by `SectorBytes` and
`MaxWord`; `GrainHostOffset` keeps the wrap-around of its one unchecked addition.
`SparseHeaders` and `FilesAssumption` say what a field of a header and an entry of a
directory can be. `Extents` holds the sorted ranges as a sequence, with the two partition
points the code uses; `JoinedTo` is where the loop of `insert` stops and `Hull` the range
it has grown by then.

`ContentId` extends `BlockDevice` with sectors as locations, so one device write over
several sectors may be torn. Text is a sequence of symbols (a digit, a line end, NUL,
`CID=`, any other word), one byte each. `LocateContentId` is `locate_content_id`,
`NextContentId` every value its comparisons admit, `Rewritten` the value and the text moved
behind it. `Open`, `Bump`, `Write`, `Flush`, `Fails`, `Crash` and `Close` run any number of
sessions over what earlier ones left; a failed write leaves a prefix of its sectors
written, a crash any subset of the unflushed ones. `Told` is what the properties compare:
the text up to the value of the first `CID=` line, and what follows its digits up to the
padding. `MCContentId` instantiates it; `ContentId_proof` proves about it.

`ImgTool` models processes, each running one command after another over one image and one
directory. `Start` and `Check` are the up-front checks (`RangeIsRefused`, `WriteIsRefused`);
`Emit` to `EmitFails` the stream to stdout; `Create`, `Copy`, `SetLength`, `Sync`, `Rename`
and `Remove` the copy through `FILE.partial`; `Put` and `PutDone` the chunk loop of a write.
Output files are inodes with a table of names, both locations of a `BlockDevice`: `sync_all`
makes one inode durable, the names become durable when the kernel writes them back
(`WriteBack`). `EmitFails`, `Fails`, `Killed` and `Crash` are what may go wrong. One
`write_at` is one step on the image here: its parts are the other modules' subject.
`Exclusive` says whether commands that conflict (one output file, or a write of the image beside anything else) are
kept from running at once; nothing in the code keeps them, so the tool's promises are
checked with it and `ImgShared` shows what happens without. `MCImgTool` instantiates it;
`ImgTool_proof` and `ReadPath_proof` hold the proofs of these two components.

Operators whose comment begins "Mutant of" are plausible slips of the code; nothing in a
specification refers to them. They exist to show that each property can fail: putting one
in the place of the definition it names violates the property `PROJECT.json` pairs it with.

## 3. Runs

| Run | Question | Bounds | Distinct states |
|---|---|---|---|
| `SessionSafety` | marker, identifier, barrier, and the envelope kept out of the loops | 2 writers, 1 flusher, 2 writes per call, 2 contents, 3 identifiers, any number of calls, crashes and faults of the data writes and flushes | 5 372 |
| `SessionLiveness` | do calls end and return, and nobody wait in a circle | the same without crashes, every device call may fail, no symmetry | 435 570 |
| `SessionLowerFault` | the marker when lowering it fails | as `SessionSafety`, faults of the lowering only | violated |
| `GrainWriters` | two writers in the same grains, tables and cache slot | 2 tables of 2 grains of 2 blocks, ranges crossing from one table into the other, two images (an empty one whose needs fit exactly, a used one that runs out of space), one fault or one crash | 153 786 |
| `GrainImages` | faults followed by crashes on every image | 1 writer, whole and partial grains, seven images, one fault and one crash | 360 132 |
| `GrainDirtyFault` | a primary entry written by a call that failed | 1 writer, one such fault | violated |
| `GrainTruncated` | a file cut before its last grain | 1 writer, no fault | violated |
| `OpenFiles` | what opens, and as what | about 4 000 files, two modes, any read may fail | 54 746 |
| `ReadPath` | does a read return the disk | every range; 4 grains over 1 250 sparse layouts with one reader (readers of a sparse image share nothing that matters here); 2 grains, 2 records, 128 stream layouts with two readers; any device read may fail | 344 370 |
| `ContentId` | does a bump move the identifier, durably, and keep the rest | about 200 descriptors of 3 sectors of 4 bytes, values of up to 2 digits, any number of sessions; no trouble, a fault and a crash, or two crashes | 71 728 |
| `ImgTool` | are output files, streams and images whole | 2 processes, disks of 3 units, chunks of 2, three commands out of twelve, one failing call or one kill or crash, conflicting commands never at once | 2 286 085 |
| `ImgShared` | two `img read -o` on one file | 2 processes, two commands, no trouble | violated |

**Why the bounds are enough.** Two writers are what every race in the write path is
between: the mutexes admit one at a time, and a third adds only another waiter. A range
that ends in one grain and starts the next makes a call of two chunks, both partial, so
that two calls meet in two grains in either order; `WholeOrPart` adds whole grains, which
take the path without zeroing. Two tables are what the one-slot cache, keyed by table, can
confuse, and `GrainWriters` has its ranges cross from one into the other. `MaxCell` leaves
an empty image exactly the cells two calls need, so that a used image, or a fault that
leaked some, runs out: the full address space is reached as well. One fault and
one crash are enough for "fails half way, then crashes" and "crashes, reopens, fails"; a
second fault repeats the first from a state reached already. Three identifiers allow a
bump to return to the one the session opened with after two, which is the case that would
break `ContentIdMovesFirst`. Sectors of two bytes are the smallest for which "whole sector"
and "byte" differ, words of six bits wrap for sector numbers and grain sizes a test file uses. In
`ContentId` three sectors let the line, what follows it and the padding fall into the same
or different sectors, and two digits are the fewest that can be short of one. In `ImgTool`
a disk of one chunk and a part is the smallest with both; a third command is what finds the
leavings of a killed one beside a second. Threads, processes,
contents and identifiers are interchangeable, so the safety runs take their symmetry; the
liveness run takes none.

**Faults in the passing runs.** Some device errors break what the code promises; these
are the findings below. The passing runs include every fault but those: `SessionSafety`
excludes the raise (which breaks only `FlushLowersMarker`, see below), the lowering and
the identifier's own calls; `GrainWriters` and `GrainImages` let each failing write but
the primary entry's have taken effect (`ButEntry`); `ContentId` and `ImgTool` let every
call fail. `DescriptorSurvives` speaks of descriptors whose rewrite moves text within one
sector or not at all (`Moves`); what a torn wider move leaves is described below.

**Fairness.** Only `SessionLiveness` states any: weak fairness of a thread's next step inside
a call, while no lock may keep it waiting (`Waits`), which is what a scheduler that goes on
running threads gives. Nothing makes a thread call. No policy of `writes_in_flight` is
assumed: `std::sync::RwLock` documents none, so in `EnterWrite` a new writer may get in beside
a flush that waits, and in `Waits` it may as well be held off until that flush is done. A
flush beside an endless stream of new writers may therefore wait for ever, in the model as in
the code. What is checked is what the code itself answers for: `CallsReturn`, that calls
under way go on returning, so that every call returns at the latest once others stop calling;
and its two safety halves, `NoDeadlock` (whoever waits, somebody in a call does not) and
`CallsAreFinite` (each step brings a call nearer to its end, a failed one included).

## 4. What is proved

**The write session.** `WriteSession_proof` holds nine theorems, one for each property
`SessionSafety` and `SessionLiveness` check but liveness itself, for any sets of writers
and flushers, contents and identifiers, any `MaxWrites`, with and without crashes.

* `TypeCorrect == Spec => []TypeOK`. `TypeOK` is inductive as it stands; it includes
  `disk[l] \in media[l]`, the fact about the device everything else rests on.
* `MarkerIsSafe == LowerIsReliable => (Spec => []MarkerCoversWrites)`. `LowerIsReliable`
  says that the two device calls that lower the marker do not fail; `SessionLowerFault`
  shows it is needed. All other calls may fail, the raise included. The property is not
  inductive: it says nothing of a writer that has raised the marker but not begun, of what
  memory believes, or of a flusher in the middle of lowering. `LockInv` ties the owners of
  the four locks to the places of the threads; `MarkerInv` adds that memory's `marked`
  implies a durable marker except between the two calls of the lowering, when all data is
  durable and no writer is in.
* `ContentIdIsSafe == CidIsReliable => (Spec => []ContentIdMovesFirst)`. `CidIsReliable`
  says that the identifier's two device calls do not fail: after a failed bump the retry
  picks again and may, if unlucky, pick the identifier the session opened with.
  `ContentIdInv` adds that until a bump has succeeded the data is what was opened, and
  that a written, unflushed identifier differs from it.
* `FlushIsBarrier == Spec => FlushIsABarrier`, under any faults. `BarrierInv` says that
  between the device flush of `flush` and its look at the marker everything is durable;
  what keeps it is `LockInv` alone: whoever holds `writes_in_flight` exclusively keeps every
  other thread off the device.
* `BumpIsOnce == Spec => BumpedOnce`, under any faults. `BumpInv`: once bumped, the
  identifier is durable and nobody is about to write it.
* `FlushLowers == RaiseIsReliable => (Spec => FlushLowersMarker)`. `RaiseIsReliable` says
  that the two calls that raise the marker do not fail (see section 5). `LoweredInv`: while
  memory calls the marker lowered and nobody is raising it, it stands on the device only if
  the session found it standing.
* `EnvelopeIsKeptApart == Spec => []EnvelopeIsApart`, under any faults. `LockInv` alone
  does not say it, because writers hold `writes_in_flight` together. `ApartInv` adds what
  each place of the envelope has seen: who writes the identifier, that nobody had bumped;
  who raises the marker, that nobody had raised it; who is past either, that it is done
  and remembered. A second writer in the envelope contradicts a first in its loop.
* `NobodyDeadlocks == Spec => []NoDeadlock`, under any faults. `OwnersRun` walks the order
  of the locks: who owns `content_id_bumped` or `unclean_marked` waits for nothing, so who
  waits for one of them, or for `writes_in_flight`, has somebody to wait for.
* `EveryCallIsFinite == Spec => CallsAreFinite`, under any faults. `StepsLeft` counts the
  steps a call has to make at most; `LeftInv` says that a writer in a call has at least one
  device write to make, without which the count could grow.

Each inductive step is split by component (one lemma for writers, one for flushers, one
for crashes), under that by action, under that by conjunct; the effects of a device write,
flush and crash on three locations are lemmas of their own.

**The grain write path.** Three modules hold a theorem for each property of `GrainWriters`
and `GrainImages`, the refinement included, for any number of writers, tables, slots,
blocks and cells, any images, and crashes at any step.

* `TypeCorrect == Spec => []TypeOK` (`GrainWriter_proof`), under any faults. The invariant
  `Typed` adds to `TypeOK` what each place of a thread says of its locals and locks
  (`WriterOK`): which locals are cells, that whoever is between `Allocate` and the end of its
  chunk owns `allocation`, and so is alone there; and that every value a crash may leave at
  a location is of that location's type (`DeviceOK`).
* `SpaceIsNotShared == Spec /\ NoSharedSpace => []NoSharedSpace` and `SpaceIsDistinctAlways`,
  the same of `DistinctSpace` (`GrainWriter_proof`), under any faults, each with or without
  effect, from an image whose structures share no space: what `GrainTruncated` opens is the
  image this excludes. The property speaks of the device
  as it reads now; the invariant `Safe` must speak of every value a crash may leave. `Space`
  says that no two places name one cell in any mixture of them, that what is named lies
  below the cursor and inside every length the file may have, that every table a crash may
  bring back is protected, and that no redundant table is a primary one. `Owns` says what
  the holder of the allocation has in hand: a cell nothing names yet (`Fresh`), then one
  that is moreover inside the durable file, protected and blank on the medium (`Ready`),
  which is what the order space, zeros, flush, entry is for.
* `CacheIsCoherent == EntryIsReliable => (Spec /\ NoSharedSpace => []CacheCoherent)` and
  `EntriesNeverMove`, the same of `PublishedNeverMoves` (`GrainTables_proof`).
  `EntryIsReliable` says that a primary entry whose write fails is left as it was;
  `GrainDirtyFault` shows it is needed for the second. All other writes may fail with effect.
  The invariant `Coherent` ties three views of one table together: the directory in memory
  names what the device's does (`TablesAgree`), the cached table is the device's, and each
  thread knows at its place what it has seen there (`KnowsTable`): past its second look the
  entry still names nothing, which is why the entry it writes replaces none. It rests on
  `Safe`, by which one cell is the table of one index only.
* `CopiesNeverFallBehind == EntryIsReliable => (Spec /\ NoSharedSpace => RedundantNeverBehind)`
  and `MergedCopiesAreComplete == EntryIsReliable => (Spec /\ NoSharedSpace /\ CopiesAgree =>
  []MergedIsComplete)` (`GrainTables_proof`). `CopiesAgree` says of the image as it is opened
  that an entry both copies hold names the same grain in both: the code completes a
  redundant table, it never corrects one. The invariant `Kept` says of each index what the
  two directories may hold at the place its writer is at (`Held`), and of the writer what is
  already durable in the copy (`Tending`: the entry it publishes stands in the redundant
  table, and on no medium without, before the primary one is written). `Told` says that a
  name in the cached table is the device's, and that a thread that writes through one does
  so to a grain its entry names. `Sound` is all of these with `Safe` and `Coherent`.
* `IsADisk == EntryIsReliable => (Spec /\ NoSharedSpace => ImplementsDisk)`
  (`GrainDisk_proof`): the write path implements `VirtualDisk`. The invariant `Keeping` adds
  to `Sound` what a grain holds. `Contents`: the grain a call is about to publish holds the
  bytes of its chunk and zeros elsewhere, durably so from the flush before the entry on.
  `Seeing`: who writes through sees in the cache the grain it writes. `Promised`: what each
  block can read as now is in `may` (`Allows`), what it can read as after a crash in
  `survive` (`Survives`), and of a call in flight which blocks it has still to write, and
  that the ones it has passed read as one of the calls that began since (`Bound`, `Owed`,
  `Done`, `Doing`). Each step of `GrainWriter` is then a step of `Disk!Next` or leaves the
  promises alone. Only `survive` makes the crash step go through: it must hold of every
  mixture of unflushed writes, which is where `Kept` (which copy a crash reads) comes in.

**Reads.** `ReadPath_proof` holds a theorem for each property of the run `ReadPath`, for
any image, any size of grain, any number of readers and any failing reads, from
`ReadAssumption` alone (grains are not empty, an image has an entry for each grain and a
record for each entry of a stream).

* `TypeCorrect == Spec => []TypeOK`, `OkIsTrue == Spec => []OkReadIsTrue` and
  `VerdictIsTheUnits == Spec => []VerdictIsPerGrain` share the invariant `Typed`. It says of
  each reader that the cursor lies in its range and the buffer spans it (`Cursor`); that a
  pending run ends at the cursor and holds, in order, exactly the units whose places it
  covers (`Pending`, which is what makes joining grains harmless); that what is filled is
  true and what was passed is readable one unit at a time (`Sound`); and of the shared slot
  that the grain in it passed the marker and length checks of its own key (`CacheOK`), so
  that a hit is as good as a miss. The step from "this chunk of a grain" to "these units of
  the disk" is division with remainder: lemmas `Division`, `SameGrain`, `GrainIs`.
* `OneReadPerRun == Spec => []RunsAreWhole` adds `Whole`: once a run was read, what comes
  next does not continue it on the host and in the buffer.

**Opening.** `OpenImage_proof` holds a theorem for each property of the run `OpenFiles`, for
any set of files, any sizes of sector, entry, word and grain, and any failing read, from
`OpenAssumption` and `FilesAssumption` (a length, a field and an entry are as wide as the
format makes them).

* What `Extents` computes: ranges in order and apart (`Spaced`) stay so through `Insert`,
  whose bytes are the bytes there were and those of the new range (`InsertSpaced`,
  `InsertBytes`), and `Overlaps` is true exactly of a range that shares a byte
  (`OverlapsIs`). A partition point is a cardinality here, so `FirstAre` says that a set of
  first indices is told by how many they are.
* The loop over the directories is a recursive function; `TablesAre` says what it holds
  after the last entry (`Collected`): the bytes of the tables a lookup would follow, each
  of one entry only if no clash was seen. Induction over its index is `Induct`, from the
  well-foundedness of `<` on the naturals: the library's fact is about a relation, so it
  needs no operator parameter.
* The invariant `Inv` is `Reached` (what each read finds already settled: after the header
  read its fields are sane, after the descriptor its region is in bounds, ...) and
  `Settled`, which says of an image that opened that it is `Laid`: the directories are the
  file's, every region is in bounds, `fixed` has the bytes of `FixedBytes`, `tables` what
  the loop collected, the floor lies in the file, and a writer's image is `Keepable`.
* `TypeCorrect`, `FailedReadsAreNoVerdict`, `WritableCanBeKept` and `OffsetsHaveEntries`
  state `[]` of `TypeOK`, `FailedReadIsNoVerdict`, `WritableIsMaintainable` and
  `EveryOffsetHasAnEntry`. The last one is arithmetic: two divisions rounded up against two
  rounded down.
* `ProtectedIsTheMetadata == Spec => []ProtectedIsExact`. What is to be protected is said
  without the lists: `HeldFixed`, the whole sectors of the regions of fixed metadata the file
  has (`HeldFixedIs`: what `fits` keeps is neither more nor less), and `HeldTables`, the
  tables a directory names inside the file and apart from those (`HeldTablesIs`: a lookup
  would follow exactly them).
* `PointersAreSafe == Spec => []PointersStayInGrains`. The property names two conditions of
  its own, which the files of `OpenFiles` meet or not. `NoWrap`: a grain that starts in the
  last sector of the file ends below 2^64; else the sum of a grain's start and an offset in it
  may wrap to below the floor. `WholeSectors`, for the last conjunct only: the file's length is
  a multiple of the sector; else a directory that ends in a partial one is in bounds but not
  held (both in section 5). `MetadataIs` is that last step: all metadata is held then.

**The content identifier.** `ContentId_proof` holds a theorem for each property of the run
`ContentId`, for any descriptors over any symbols, any size of sector and region, any number
of digits, sessions, faults and crashes, from `ContentIdAssumption` alone (regions are of
one length, a whole number of sectors; a line end, NUL and `CID=` are no digits).

* Bytes and sectors: byte `k` of the device is byte `OffsetOf(k)` of sector `SectorOf(k)` and
  no other (`Places`, `PlaceOf`), so a text is determined by its sectors and the other way
  round. `IsField` says in one predicate what `locate_content_id` accepts (`FieldIs`,
  `FieldFound`: it is neither more nor less); `PutAt` is what the one device write makes of
  a text (`PutIsRewrite`), byte by byte in its four parts (`PutIs`).
* `TypeCorrect`, `RewritesAreConfined`, `BumpIsExact`, `BumpMovesIdentifier`,
  `BumpedIsSafe` and `DescriptorIsSafe` state `TypeOK`, `RewriteIsConfined`,
  `BumpKeepsTheRest`, `BumpMovesTheCid`, `BumpedIsDurable` and `DescriptorSurvives`. They
  share one invariant, `IInv`. `DeviceOK`: the sector past the region is intact on every
  medium. `IsRewrite`: what is about to be written is what the device holds now with
  another value, so that a write that completes is exact from wherever failures left it.
  `LineKept`: up to the value, all that may survive is the original. It is what makes the
  next rewrite find the same line (`SameLine`), and it holds even where a torn move has
  lost what follows. `Settled`: nothing is pending once bumped; a session without a field
  is bumped without a flush, which is right because nothing was ever written then
  (`NoFieldSettled`).
* `OnlyImages` is the part `DescriptorSurvives` needs: where nothing moves across a sector,
  whatever can survive is an `Image` of the original, the original itself or the original
  with some value of all its digits. The step rests on `ImagesMix`: any mixture, by sector,
  of two images is an image. If the value has all its digits, images differ in digits
  only and a torn value is again a value. If it is short, all that a rewrite changes lies
  in one sector, so a mixture is one image or the other. That is where `Moves` is used, and
  why nothing of the kind holds without it.

**Commands.** `ImgTool_proof` holds a theorem for each property of the run `ImgTool`, for any
number of processes, any command lines, chunk sizes, files, faults, kills and crashes.

* `TypeCorrect == Spec => []TypeOK` and `NothingIsRefusedLate == Spec => []NothingRefusedLate`
  need no hypothesis: the second holds even if other commands write the image meanwhile,
  because a disk never changes its length.
* `OutputFilesAreWhole`, `StdoutGetsThePrefix` and `OkMeansDone` (`FileIsWhole`,
  `StdoutIsPrefix`, `OkIsDone`) assume `Exclusive`: commands on one output file, or one that
  writes the image beside any other, do not run at once. `ImgShared` shows the first needs
  it. The invariant `Safe`
  adds to `Typed` that running commands do not conflict (`Separate`); that no two names,
  on any table a crash may leave, stand for one inode, and that what `FILE` may stand for
  after a crash is synced and whole (`DiskSafe`, whose parts are `Apart`, `FileIsWhole` and
  `OnDisk`: the copy so far is in `FILE.partial`, zeros where it was skipped); that what a
  command is meant to produce is still the image's range, or the image with the rest of its
  input (`Aimed`); and that a
  stream holds what its cursor has passed (`Streamed`).

In all of these the inductive step is split by action, under that by conjunct; what a step
leaves alone is carried by one frame lemma per component.

**Only model-checked:** `CallsReturn`: liveness under fairness is out of the prover's
reach. What it rests on is proved: `NoDeadlock`, and `CallsAreFinite`, whose finite count is
what fairness runs down. Every other property of a passing run is stated by a theorem.

## 5. Findings

Each has a violation run whose counterexample shows it.

1. `SessionLowerFault` (`src/reader.rs:1212`): the byte is lowered, the call or the flush
   after it fails, memory still says "marked". The next write raises nothing and moves
   data under a lowered marker; the module comment (lines 61-63) says the marker stands
   over exactly the window in which a crash leaves the image half written.
2. `GrainDirtyFault` (line 1539): the primary entry's write takes effect but reports an
   error; the cached table is not refreshed, a retry does not see the entry, allocates
   again and replaces it. Lines 188-190 say an entry that names a sector never changes.
   The same fault also makes the failed write visible later, after an Ok flush, when the
   cached table is evicted and read again.
3. `GrainTruncated` (line 581): the cursor of a truncated image starts below a grain an
   entry still names; the next allocation takes that grain's space.
4. `ImgShared` (`src/cli/vmdk/img.rs:356`): `img read -o FILE` always copies through
   `FILE.partial`; a second command on the same file truncates the one the first is about
   to rename, and `FILE` is a file whose copy is still going on. Lines 311-312 say FILE is
   never left half written.

Seen while modelling, without a run of their own:

* A directory entry past the end of the file (line 1023) is neither refused at open nor
  protected; once allocation has grown the file over it, grain data is followed as a grain
  table. It is the directory's case of finding 3.
* Metadata in a last, partial sector is left out of `fixed_metadata` by rounding (line 599),
  so a grain pointer may name it. `OpenFiles` opens such files: `ProtectedIsExact` says what
  is left out, and `PointersStayInGrains` promises all of the metadata under `WholeSectors`
  only. (Fixed metadata is also rounded up: a directory is held to the end of its last sector.)
* Widening a short `CID` moves the text behind it, in one device write that runs before the
  marker is raised, though lines 61-63 say the marker stands over the window in which a
  crash leaves the image half written. If what moves crosses a sector boundary, a crash may
  keep one sector of it: a line cut or doubled, which the next session may refuse, and torn
  digits could even read `ffffffff`. `DescriptorSurvives` is checked where they do not cross.
* If raising the marker fails after the byte reached the device, the marker stands and
  memory does not know it; the next clean flush leaves it up. The error is on the safe
  side, so only `FlushLowersMarker` (and not `MarkerCoversWrites`) depends on it.
* The module comment gives the order "grain data, grain-table entry, grain-directory
  entry"; the code publishes the directory entry of a blank table first, which is as safe
  (`ImplementsDisk` is checked over it).
* The flush of the identifier is not needed for `ContentIdMovesFirst`: the first write of a
  session also raises the marker, whose flush comes before any data. `FlushCid` keeps it.
* "The fallback never claims a grain the primary has not got" (lines 75-78) holds the
  other way round: the redundant entry is written first, so after a crash the redundant
  table may name a grain the primary does not; what holds is `RedundantNeverBehind`.
* `streamOptimized` images open read-only, though `src/lib.rs`, `src/capi.rs` and the C
  header speak of `monolithicSparse` only.
* `grain_host_offset` adds `start + in_grain` unchecked (line 973); the model wraps it.
  With a grain of nearly 2^64 bytes the wrapped offset lies before the floor and is
  accepted if nothing protected is there. `OpenFiles` opens images whose offsets do wrap;
  `PointersStayInGrains` is stated under `NoWrap`.
* Whether a `flush` that waits holds new writers off is left to `std::sync::RwLock`, which
  promises nothing, though the comment in `flush` (line 1200) says it holds "new ones off":
  that is so once it has the lock, which is what the barrier and the marker need.

## 6. Not modelled, and why

Text and bytes: how a descriptor is split into lines and keys, field offsets and
endianness, zlib itself, formatting of errors. A file is a record of the statements the
checks ask about; in `ContentId`, where text is what moves, it is a sequence of symbols. The
clock in `next_content_id` is any value its comparisons admit.

The C interface (`src/capi.rs`): each function is a null and length check around one
call of the reader. Ownership of a handle is Rust's `Box` and `Arc` on one side and the
caller's protocol, outside the code, on the other, so a model of it would check its own
assumptions. Of the command line, `img info`, `get`, argument and size parsing keep no
state and make no sequence of calls; a read from stdin returns a whole chunk in the
model, where a pipe or a file may return less and only makes more, shorter, `write_at`
calls of the same bytes. The crate root, error conversions, fuzz targets, tests and
scripts hold no behaviour of their own.

Reads concurrent with the very device write of their own bytes are not given an order finer
than the device's locations. Poisoned mutexes (a thread panicking with one held) are left
out: every `lock().unwrap()` after one panics too, and the device keeps what it has.

## 7. Plan

Done: the write session, the grain write path with its refinement of `VirtualDisk`, reads,
opening, the content-identifier field and the commands (modelled, checked, proved).

Left: a module that composes `WriteSession` and `GrainWriter`, so that `Flush` of the latter
is the flush of the former rather than a step between calls. The two conditions such a
composition would put on the session, `FlushIsABarrier` and `EnvelopeIsApart`, are proved.
