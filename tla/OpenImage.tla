------------------------------ MODULE OpenImage ------------------------------
(***************************************************************************)
(* Opening a VMDK: open_inner (src/src/reader.rs) with everything it calls *)
(* to judge a file: the probe for a sparse extent, SparseHeader::parse     *)
(* (src/src/header.rs), Descriptor::parse (src/src/descriptor.rs), the     *)
(* footer, both directories and the regions grains may not touch. A step   *)
(* is one device read with the checks up to the next, so that a read may   *)
(* fail between any two of them. What the open image then admits is        *)
(* grain_host_offset's answer, GrainHostOffset below.                      *)
(*                                                                         *)
(* Bytes, sectors and words are scaled down: SectorBytes for 512, MaxWord  *)
(* for 2^64 - 1. A directory or table entry is EntryBytes long.            *)
(***************************************************************************)
EXTENDS Extents, TLC

CONSTANTS Files,              \* the files that may be opened
          SectorBytes,        \* SECTOR_SIZE and HEADER_SIZE
          EntryBytes,         \* GD_GT_ENTRY_SIZE
          MaxWord,            \* the largest u64
          MaxEntry,           \* the largest u32
          MaxGtes,            \* MAX_GTES_PER_GT
          MaxStreamGrain,     \* MAX_STREAM_OPTIMIZED_GRAIN_SECTORS
          MaxDescriptorFile,  \* MAX_DESCRIPTOR_FILE_BYTES
          InFooter,           \* gd_offset's "at the end" (all ones)
          ReadsMayFail        \* whether the device may fail a read

ASSUME OpenAssumption ==
    /\ SectorBytes \in Nat \ {0} /\ EntryBytes \in Nat \ {0}
    /\ MaxWord \in Nat /\ MaxEntry \in Nat /\ MaxGtes \in Nat
    /\ ReadsMayFail \in BOOLEAN

\* The fields of a header that the checks look at.
SparseHeaders ==
    [magic : STRING, version : Nat, compress : Nat, rgdFlag : BOOLEAN,
     capacity : 0 .. MaxWord, grainSize : 0 .. MaxWord, gtes : 0 .. MaxWord,
     descOffset : 0 .. MaxWord, descSize : 0 .. MaxWord, overHead : 0 .. MaxWord,
     gdOffset : 0 .. MaxWord, rgdOffset : 0 .. MaxWord]

ASSUME FilesAssumption ==
    \A f \in Files :
        /\ f.size \in 0 .. MaxWord
        /\ f.header \in SparseHeaders /\ f.footer \in SparseHeaders
        /\ \A d \in {f.gd, f.rgd} : \A i \in DOMAIN d : d[i] \in 0 .. MaxEntry

VARIABLES file,      \* the file on the device
          writable,  \* open_rw rather than open
          pc,        \* the read open_inner makes next
          header,    \* the parsed header
          gd, rgd,   \* the directories as read; rgd is None without one
          image,     \* the layout the reader keeps
          verdict,   \* how the open ended
          failed     \* whether a read has failed

vars == <<file, writable, pc, header, gd, rgd, image, verdict, failed>>

None == <<-1>>             \* no directory
Refusal == -1               \* no host offset
NoImage == [floor |-> 0, fixed |-> NoExtents, tables |-> NoExtents, size |-> 0]
Verdicts == {"NotVmdk", "Corrupt", "Unsupported", "Io", "opened"}

-----------------------------------------------------------------------------
(* Judgements: a sequence of checks, each a condition and the error it is   *)
(* refused with. The first that applies decides.                            *)

Judge(checks) ==
    LET applies == {i \in DOMAIN checks : checks[i][1]}
    IN IF applies = {} THEN "ok" ELSE checks[Min(applies)][2]

CeilDiv(x, y) == (x + y - 1) \div y

\* is_stream_optimized, has_redundant_grain_directory
IsStream(h) == h.compress = 1
HasRedundant(h) == h.rgdFlag /\ h.rgdOffset # 0

\* SparseHeader::parse
ParseHeader(h) == Judge(<<
    <<h.magic # "KDMV", "NotVmdk">>,
    <<h.version \notin {1, 2, 3}, "Unsupported">>,
    <<h.grainSize = 0, "Corrupt">>,
    <<h.grainSize * SectorBytes > MaxWord, "Corrupt">>,
    <<h.gtes = 0 \/ h.gtes > MaxGtes, "Corrupt">>,
    <<h.version = 3 /\ h.compress = 0, "Corrupt">>,
    <<h.version # 3 /\ h.compress = 1, "Corrupt">>,
    <<h.compress \notin {0, 1}, "Unsupported">> >>)

\* declares_parent: an empty hint and the sentinel CID name nobody.
DeclaresParent(t) == t.hint = "named" \/ t.parentCid = "other"

\* Descriptor::parse
ParseDescriptor(t) == Judge(<<
    <<t.createType = "absent", "Corrupt">>,
    <<t.createType \notin {"monolithicSparse", "streamOptimized"}, "Unsupported">>,
    <<DeclaresParent(t), "Unsupported">> >>)

\* descriptor_agrees_with_header
Agrees(t, h) == Judge(<<
    <<t.extents = <<>>, "Corrupt">>,
    <<Len(t.extents) > 1, "Unsupported">>,
    <<Len(t.extents) = 1 /\ t.extents[1].kind # "SPARSE", "Unsupported">>,
    <<(t.createType = "streamOptimized") # IsStream(h), "Corrupt">>,
    <<Len(t.extents) = 1 /\ t.extents[1].sectors # h.capacity, "Corrupt">> >>)

\* is_structurally_a_descriptor_file
IsDescriptorFile(t) == (t.banner \/ t.keys) /\ t.extents # <<>>

\* describe_descriptor_file, once its bytes are read
Describe(t) ==
    IF t.utf8 /\ IsDescriptorFile(t) /\ ParseDescriptor(t) \in {"ok", "Unsupported"}
    THEN "Unsupported"
    ELSE "NotVmdk"

\* A region of `bytes` bytes at sector `at`: whether checked arithmetic and
\* the end of the file leave it standing.
InBounds(at, bytes, size) ==
    at * SectorBytes <= MaxWord /\ bytes <= MaxWord /\ at * SectorBytes + bytes <= size

\* Mutant of GtCount: the last, partly used table is not counted.
GtCountFloor(h) == CeilDiv(h.capacity, h.grainSize) \div h.gtes

\* Directory entries the virtual disk needs.
GtCount(h) == CeilDiv(CeilDiv(h.capacity, h.grainSize), h.gtes)
GdBytes(h) == GtCount(h) * EntryBytes
GtBytes(h) == h.gtes * EntryBytes

\* read_directory
Directory(d, h) == [i \in 0 .. GtCount(h) - 1 |-> IF i \in DOMAIN d THEN d[i] ELSE 0]

-----------------------------------------------------------------------------

Init ==
    /\ file \in Files
    /\ writable \in BOOLEAN
    /\ pc = "probe"
    /\ header = file.header
    /\ gd = None /\ rgd = None
    /\ image = NoImage
    /\ verdict = "none"
    /\ failed = FALSE

End(v) == pc' = "done" /\ verdict' = v /\ UNCHANGED <<header, gd, rgd, image>>
Go(to) == pc' = to /\ UNCHANGED verdict

\* A step that ends with v, or goes on when v is "ok".
Unless(v, goOn) == IF v = "ok" THEN goOn ELSE End(v)

\* looks_like_a_sparse_extent
Probe ==
    /\ pc = "probe"
    /\ LET short == file.size < SectorBytes IN
       \/ /\ ~short /\ file.header.magic = "COWD"
          /\ End("Unsupported")
       \/ /\ ~short /\ file.header.magic = "KDMV"
          /\ Go("header") /\ UNCHANGED <<header, gd, rgd, image>>
       \/ /\ short \/ file.header.magic \notin {"COWD", "KDMV"}
          /\ IF file.size = 0 \/ file.size > MaxDescriptorFile
             THEN End("NotVmdk")
             ELSE Go("describe") /\ UNCHANGED <<header, gd, rgd, image>>
    /\ UNCHANGED <<file, writable, failed>>

DescribeFile ==
    /\ pc = "describe"
    /\ End(Describe(file.text))
    /\ UNCHANGED <<file, writable, failed>>

JudgeHeader(h) == Judge(<<
    <<ParseHeader(h) # "ok", ParseHeader(h)>>,
    <<IsStream(h) /\ h.grainSize > MaxStreamGrain, "Corrupt">>,
    <<writable /\ IsStream(h), "Unsupported">>,
    <<IsStream(h) /\ h.gdOffset = InFooter /\ file.size < 2 * SectorBytes, "Corrupt">> >>)

\* The checks of the descriptor's place, made before it is read.
JudgeDescriptorPlace(h) == Judge(<<
    <<h.descOffset = 0 \/ h.descSize = 0, "Unsupported">>,
    <<~InBounds(h.descOffset, h.descSize * SectorBytes, file.size), "Corrupt">> >>)

ReadHeader ==
    /\ pc = "header"
    /\ Unless(JudgeHeader(header),
              IF IsStream(header) /\ header.gdOffset = InFooter
              THEN Go("footer") /\ UNCHANGED <<header, gd, rgd, image>>
              ELSE Unless(JudgeDescriptorPlace(header),
                          Go("descriptor") /\ UNCHANGED <<header, gd, rgd, image>>))
    /\ UNCHANGED <<file, writable, failed>>

\* The footer repeats the header; only its directory offsets are taken.
ReadFooter ==
    /\ pc = "footer"
    /\ LET f == file.footer
           h == [header EXCEPT !.gdOffset = f.gdOffset, !.rgdOffset = f.rgdOffset]
       IN Unless(Judge(<< <<ParseHeader(f) # "ok", ParseHeader(f)>>,
                          <<f.gdOffset = InFooter \/ ~IsStream(f), "Corrupt">> >>),
                 Unless(JudgeDescriptorPlace(h),
                        /\ header' = h
                        /\ Go("descriptor") /\ UNCHANGED <<gd, rgd, image>>))
    /\ UNCHANGED <<file, writable, failed>>

JudgeDescriptor(t) == Judge(<<
    <<~t.utf8, "Corrupt">>,
    <<t.blank, "Unsupported">>,
    <<ParseDescriptor(t) # "ok", ParseDescriptor(t)>>,
    <<Agrees(t, header) # "ok", Agrees(t, header)>>,
    <<writable /\ t.cid = "unwritable", "Corrupt">>,
    <<header.gdOffset = 0, "Corrupt">>,
    <<GtCount(header) > MaxEntry, "Corrupt">>,
    <<~InBounds(header.gdOffset, GdBytes(header), file.size), "Corrupt">> >>)

ReadDescriptor ==
    /\ pc = "descriptor"
    /\ Unless(JudgeDescriptor(file.text),
              Go("gd") /\ UNCHANGED <<header, gd, rgd, image>>)
    /\ UNCHANGED <<file, writable, failed>>

-----------------------------------------------------------------------------
(* The regions the reader keeps *)

\* `fits`: the sector a region ends at, if the file has it whole.
Fits(at, sectors) == at + sectors <= MaxWord /\ at + sectors <= file.size \div SectorBytes

\* Mutant of Floor: an over_head of zero, or one past the end, is taken as it is.
FloorUnclamped == (IF Fits(header.overHead, 0) THEN header.overHead ELSE 0) * SectorBytes

Floor == Max({1, IF Fits(header.overHead, 0) THEN header.overHead ELSE 0}) * SectorBytes

\* Mutant of AddFixed: a region is kept though the file does not have it whole.
AddFixedRagged(x, region) == Insert(x, region[1] * SectorBytes, (region[1] + region[2]) * SectorBytes)

AddFixed(x, region) ==
    IF Fits(region[1], region[2])
    THEN Insert(x, region[1] * SectorBytes, (region[1] + region[2]) * SectorBytes)
    ELSE x

GdSectors == CeilDiv(GdBytes(header), SectorBytes)

FixedMetadata(redundant) ==
    LET regions == << <<header.descOffset, header.descSize>>, <<header.gdOffset, GdSectors>> >>
                   \o (IF redundant = None THEN <<>> ELSE << <<header.rgdOffset, GdSectors>> >>)
        base == Insert(NoExtents, 0, SectorBytes)
        first == AddFixed(AddFixed(base, regions[1]), regions[2])
    IN IF redundant = None THEN first ELSE AddFixed(first, regions[3])

\* Mutant of ProtectTable: tables are merged without asking whether they meet.
ProtectTableSilently(acc, fixed, sector) ==
    LET start == sector * SectorBytes
        end == start + GtBytes(header)
    IN IF sector # 0 /\ end <= file.size /\ ~Overlaps(fixed, start, end)
       THEN [tables |-> Insert(acc.tables, start, end), clash |-> FALSE]
       ELSE acc

\* What the loop over the directories has so far: the tables to protect, and
\* whether two entries were found to name the same storage.
ProtectTable(acc, fixed, sector) ==
    LET start == sector * SectorBytes
        end == start + GtBytes(header)
    IN IF sector # 0 /\ end <= file.size /\ ~Overlaps(fixed, start, end)
       THEN [tables |-> Insert(acc.tables, start, end),
             clash |-> acc.clash \/ Overlaps(acc.tables, start, end)]
       ELSE acc

GrainTables(primary, redundant, fixed) ==
    LET n == GtCount(header)
        Named(i) == IF i < n THEN primary[i] ELSE redundant[i - n]
        all == IF redundant = None THEN n ELSE 2 * n
        loop[i \in 0 .. all] ==
            IF i = 0 THEN [tables |-> NoExtents, clash |-> FALSE]
            ELSE ProtectTable(loop[i - 1], fixed, Named(i - 1))
    IN loop[all]

\* The rest of open_inner, which reads nothing more.
Finish(primary, redundant) ==
    LET fixed == FixedMetadata(redundant)
        t == GrainTables(primary, redundant, fixed)
        v == Judge(<< <<header.capacity * SectorBytes > MaxWord, "Corrupt">>,
                      <<writable /\ t.clash, "Corrupt">> >>)
    IN Unless(v, /\ gd' = primary /\ rgd' = redundant
                 /\ image' = [floor |-> Floor, fixed |-> fixed, tables |-> t.tables,
                              size |-> header.capacity * SectorBytes]
                 /\ pc' = "done" /\ verdict' = "opened"
                 /\ UNCHANGED header)

\* A redundant directory that does not fit the file: fatal to a writer only.
NoRedundant(primary) ==
    IF HasRedundant(header) /\ writable THEN End("Corrupt") ELSE Finish(primary, None)

ReadGd ==
    /\ pc = "gd"
    /\ LET primary == Directory(file.gd, header) IN
       IF HasRedundant(header) /\ InBounds(header.rgdOffset, GdBytes(header), file.size)
       THEN /\ gd' = primary
            /\ Go("rgd") /\ UNCHANGED <<header, rgd, image>>
       ELSE NoRedundant(primary)
    /\ UNCHANGED <<file, writable, failed>>

ReadRgd ==
    /\ pc = "rgd"
    /\ Finish(gd, Directory(file.rgd, header))
    /\ UNCHANGED <<file, writable, failed>>

\* Mutant of ReadFails: a descriptor file that cannot be read is no VMDK.
ReadFailsAsVerdict ==
    /\ ReadsMayFail
    /\ pc \in {"probe", "describe", "header", "footer", "descriptor", "gd", "rgd"}
    /\ pc = "probe" => file.size >= SectorBytes
    /\ failed' = TRUE
    /\ IF pc = "rgd" /\ ~writable THEN Finish(gd, None)
                                  ELSE End(IF pc = "describe" THEN "NotVmdk" ELSE "Io")
    /\ UNCHANGED <<file, writable>>

\* The device fails the read: `?`, but for the redundant directory of a
\* read-only open, which is done without.
ReadFails ==
    /\ ReadsMayFail
    /\ pc \in {"probe", "describe", "header", "footer", "descriptor", "gd", "rgd"}
    /\ pc = "probe" => file.size >= SectorBytes
    /\ failed' = TRUE
    /\ IF pc = "rgd" /\ ~writable THEN Finish(gd, None) ELSE End("Io")
    /\ UNCHANGED <<file, writable>>

Done == pc = "done" /\ UNCHANGED vars

Next ==
    \/ Probe \/ DescribeFile \/ ReadHeader \/ ReadFooter \/ ReadDescriptor
    \/ ReadGd \/ ReadRgd \/ ReadFails \/ Done

Spec == Init /\ [][Next]_vars

-----------------------------------------------------------------------------
(* What the open image admits *)

\* lookup_grain's checks of a table pointer.
TableUsable(sector) ==
    LET start == sector * SectorBytes
        end == start + GtBytes(header)
    IN sector # 0 /\ end <= file.size /\ ~Overlaps(image.fixed, start, end)

GrainBytes == header.grainSize * SectorBytes

\* Mutant of GrainHostOffset: a floor is the only check against metadata.
GrainHostOffsetFloor(sector, in, len) ==
    LET off == sector * SectorBytes + in IN
    IF sector * SectorBytes >= image.floor /\ off + len <= file.size THEN off ELSE Refusal

\* grain_host_offset: the byte offset it returns, or Refusal. `start + in_grain`
\* is an unchecked u64 addition, which wraps in a release build.
GrainHostOffset(sector, in, len) ==
    LET start == sector * SectorBytes
        off == (start + in) % (MaxWord + 1)
        end == off + len
    IN IF /\ start >= image.floor
          /\ end <= MaxWord
          /\ ~Overlaps(image.fixed, off, end)
          /\ ~Overlaps(image.tables, off, end)
          /\ end <= file.size
       THEN off ELSE Refusal

-----------------------------------------------------------------------------
(* Properties *)

TypeOK ==
    /\ writable \in BOOLEAN /\ failed \in BOOLEAN
    /\ pc \in {"probe", "describe", "header", "footer", "descriptor", "gd", "rgd", "done"}
    /\ verdict \in Verdicts \cup {"none"}
    /\ (pc = "done") <=> (verdict # "none")
    /\ IF verdict = "opened" THEN image.floor \in SectorBytes .. file.size ELSE image = NoImage
    /\ \A d \in {gd, rgd} : d # None => DOMAIN d = 0 .. GtCount(header) - 1

\* The bytes of the open file that are its metadata, from the header's own
\* account of them: header, descriptor, directories, and every table a
\* directory names and a lookup would follow.
Span(at, bytes) == at * SectorBytes .. at * SectorBytes + bytes - 1

Metadata ==
    Span(0, SectorBytes)
    \cup Span(header.descOffset, header.descSize * SectorBytes)
    \cup Span(header.gdOffset, GdBytes(header))
    \cup (IF rgd = None THEN {} ELSE Span(header.rgdOffset, GdBytes(header)))
    \cup UNION {Span(gd[i], GtBytes(header)) : i \in {j \in DOMAIN gd : TableUsable(gd[j])}}

\* What the code sets out to protect. A region of fixed metadata is held in whole
\* sectors, or not at all where it reaches into a last sector that is not whole; a table,
\* to the byte, if it lies in the file and apart from that metadata.
FixedRegions ==
    LET sectors == CeilDiv(GdBytes(header), SectorBytes)
    IN {<<0, 1>>, <<header.descOffset, header.descSize>>, <<header.gdOffset, sectors>>}
       \cup (IF rgd = None THEN {} ELSE {<<header.rgdOffset, sectors>>})

HeldFixed ==
    UNION {Span(q[1], q[2] * SectorBytes) :
             q \in {r \in FixedRegions : r[1] + r[2] <= file.size \div SectorBytes}}

HeldTables ==
    LET named == {gd[i] : i \in DOMAIN gd} \cup
                 (IF rgd = None THEN {} ELSE {rgd[i] : i \in DOMAIN gd})
    IN UNION {Span(sector, GtBytes(header)) :
                sector \in {s \in named : /\ s # 0 /\ s * SectorBytes + GtBytes(header) <= file.size
                                         /\ Span(s, GtBytes(header)) \cap HeldFixed = {}}}

SortedAndMerged(x) == \A i \in 1 .. Len(x) : x[i][1] < x[i][2] /\ (i > 1 => x[i - 1][2] < x[i][1])

\* What the reader keeps of the regions is exact: both lists are in order and apart, and
\* a range overlaps one precisely if it shares a byte with what the list is to protect.
ProtectedIsExact ==
    verdict = "opened" =>
        /\ SortedAndMerged(image.fixed) /\ SortedAndMerged(image.tables)
        /\ \A start \in 0 .. file.size - 1 : \A end \in start + 1 .. file.size :
              /\ Overlaps(image.fixed, start, end) <=> (start .. end - 1) \cap HeldFixed # {}
              /\ Overlaps(image.tables, start, end) <=> (start .. end - 1) \cap HeldTables # {}

Pieces == {p \in (0 .. GrainBytes - 1) \X (1 .. GrainBytes) : p[1] + p[2] <= GrainBytes}

\* Two conditions on the image, under which the pointer checks keep what they are for:
\* the file ends on a sector, as `fits` counts whole ones, and no piece of a grain is
\* so far out that grain_host_offset's unchecked addition wraps.
WholeSectors == file.size % SectorBytes = 0
NoWrap == file.size + SectorBytes + GrainBytes <= MaxWord + 1

\* Whatever sector a grain-table entry holds, the bytes it lets a read or a
\* write touch are inside the file, at or past the first byte a grain may
\* occupy, and outside all that is held; in whole sectors, outside all the metadata.
PointersStayInGrains ==
    verdict = "opened" /\ NoWrap =>
        \A sector \in 1 .. CeilDiv(file.size, SectorBytes) : \A p \in Pieces :
            LET off == GrainHostOffset(sector, p[1], p[2])
                touched == off .. off + p[2] - 1
            IN off # Refusal =>
                 /\ off >= image.floor /\ off + p[2] <= file.size
                 /\ touched \cap (HeldFixed \cup HeldTables) = {}
                 /\ WholeSectors => touched \cap Metadata = {}

\* gd_entry's "gt_idx past grain directory" cannot happen: every byte of the
\* virtual disk has its directory entry, and the last entry is needed.
EveryOffsetHasAnEntry ==
    verdict = "opened" =>
        /\ \A at \in 0 .. image.size - 1 : (at \div GrainBytes) \div header.gtes \in DOMAIN gd
        /\ image.size > 0 =>
             ((image.size - 1) \div GrainBytes) \div header.gtes = GtCount(header) - 1

\* An image opened for writing is one whose bookkeeping every write can keep:
\* uncompressed, every redundant copy found, and no two directory entries on
\* the same table.
WritableIsMaintainable ==
    verdict = "opened" /\ writable =>
        /\ ~IsStream(header)
        /\ file.text.cid # "unwritable"
        /\ HasRedundant(header) => rgd # None
        /\ LET named == [k \in {<<"gd", i>> : i \in DOMAIN gd} \cup
                               (IF rgd = None THEN {} ELSE {<<"rgd", i>> : i \in DOMAIN gd}) |->
                             IF k[1] = "gd" THEN gd[k[2]] ELSE rgd[k[2]]]
               usable == {k \in DOMAIN named : TableUsable(named[k])}
           IN \A k, l \in usable : k # l =>
                 Span(named[k], GtBytes(header)) \cap Span(named[l], GtBytes(header)) = {}

\* A read that failed says nothing about the bytes: it is reported as I/O,
\* never as a verdict on the file (issue #69). Only a read-only open may go
\* on, and only without its redundant directory.
FailedReadIsNoVerdict ==
    failed => \/ verdict = "Io"
              \/ ~writable /\ gd # None /\ rgd = None
=============================================================================
