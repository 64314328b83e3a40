------------------------------ MODULE ContentId ------------------------------
(***************************************************************************)
(* The CID= line of the embedded descriptor, rewritten in place: what      *)
(* locate_content_id accepts, and bump_content_id's one device write with  *)
(* the sectors it covers (src/src/reader.rs). A short value is widened to  *)
(* CidDigits by moving the text after it into the region's NUL padding, so *)
(* a crash, or a write that fails part-way, may leave some sectors moved   *)
(* and others not.                                                         *)
(*                                                                         *)
(* Text is a sequence of symbols: a hex digit, a line end, NUL, "CID=" and *)
(* any other word count one byte each.                                     *)
(***************************************************************************)
EXTENDS BlockDevice, Integers, Sequences

CONSTANTS Symbols,       \* what one byte of the text may be
          Regions,       \* descriptor regions, all of one length
          RegionBytes,   \* that length
          SectorBytes,   \* what the device writes whole
          CidDigits,     \* CID_DIGITS
          Hex, Lowest, Highest,  \* the hex digits, "0" and "f" among them
          Budgets        \* <<device calls that may fail, crashes>>

VARIABLES pc,        \* where the session is: closed, open, or in a bump
          text,      \* the device's text with the new value, while in a bump
          bumped,    \* content_id_bumped
          first,     \* history: the region as it was at first
          faults, crashes

vars == <<disk, media, pc, text, bumped, first, faults, crashes>>

LF == "lf"
CR == "cr"
NUL == "nul"

ASSUME ContentIdAssumption ==
    /\ SectorBytes \in Nat \ {0} /\ CidDigits \in Nat \ {0}
    /\ RegionBytes \in Nat /\ RegionBytes % SectorBytes = 0
    /\ \A r \in Regions : r \in [1 .. RegionBytes -> Symbols]
    /\ {Lowest, Highest} \subseteq Hex
    /\ Hex \subseteq Symbols \ {LF, CR, NUL, "CID="}
    /\ Budgets \subseteq Nat \X Nat

\* The device: the region's sectors and the first sector of what follows it.
Sectors == 0 .. RegionBytes \div SectorBytes
DeviceBytes == RegionBytes + SectorBytes

\* The text of a device d, and sector s of a text.
Text(d) == [k \in 1 .. DeviceBytes |->
               d[(k - 1) \div SectorBytes][((k - 1) % SectorBytes) + 1]]
Region(d) == SubSeq(Text(d), 1, RegionBytes)
Sector(t, s) == SubSeq(t, s * SectorBytes + 1, (s + 1) * SectorBytes)

Beyond == [k \in 1 .. SectorBytes |-> "directory"]

-----------------------------------------------------------------------------
(* locate_content_id *)

NoField == [len |-> -1]
Unwritable == [len |-> -2]

\* Mutant of CidLines: found anywhere, so that parentCID= is found too.
CidLinesAnywhere(r) == {i \in DOMAIN r : r[i] = "CID="}

\* Where a line begins with CID=.
CidLines(r) == {i \in DOMAIN r : r[i] = "CID=" /\ (i > 1 => r[i - 1] \in {LF, CR})}

\* Mutant of HasRoom: any short value may be widened.
HasRoomAlways(r, len, contentEnd) == TRUE

\* A value of len digits can be widened inside the region.
HasRoom(r, len, contentEnd) == contentEnd + (CidDigits - len) <= Len(r)

\* What ends the value: a line end, a NUL, the end of the region.
Terminated(r, at) == at > Len(r) \/ r[at] \in {LF, CR, NUL}

\* The length of the run of hex digits from `at` on.
DigitsAt(r, at) ==
    Max({k \in 0 .. Len(r) - at + 1 : \A j \in at .. at + k - 1 : r[j] \in Hex})

LocateContentId(r) ==
    LET start == Min(CidLines(r)) + 1
        len == DigitsAt(r, start)
        contentEnd == Max({i \in DOMAIN r : r[i] # NUL})
    IN IF CidLines(r) = {} THEN NoField
       ELSE IF /\ len \in 1 .. CidDigits /\ Terminated(r, start + len)
               /\ HasRoom(r, len, contentEnd)
            THEN [start |-> start, len |-> len, contentEnd |-> contentEnd]
            ELSE Unwritable

\* next_content_id, whatever the clock: not the present value, not ffffffff, not 0.
Padded(value) == [k \in 1 .. CidDigits - Len(value) |-> Lowest] \o value
Sentinels == {[k \in 1 .. CidDigits |-> h] : h \in {Lowest, Highest}}

\* Mutant of NextContentId: compared as it is spelled.
NextContentIdSpelled(value) == [1 .. CidDigits -> Hex] \ ({value} \cup Sentinels)

NextContentId(value) == [1 .. CidDigits -> Hex] \ ({Padded(value)} \cup Sentinels)

\* Mutant of Rewritten: the value alone, over whatever follows a short one.
RewrittenInPlace(r, f, next) == next

\* The new value and the text after it.
Rewritten(r, f, next) == next \o SubSeq(r, f.start + f.len, f.contentEnd)

\* Mutant of Overwritten: u is put before what is at position `at`.
Inserted(t, at, u) == SubSeq(t, 1, at - 1) \o u \o SubSeq(t, at, Len(t))

\* Text t with u at position `at`.
Overwritten(t, at, u) ==
    [k \in DOMAIN t |-> IF k \in at .. at + Len(u) - 1 THEN u[k - at + 1] ELSE t[k]]

-----------------------------------------------------------------------------

Init ==
    /\ first \in Regions
    /\ disk = [s \in Sectors |-> Sector(first \o Beyond, s)]
    /\ media = [s \in Sectors |-> {disk[s]}]
    /\ pc = "closed" /\ text = <<>> /\ bumped = FALSE
    /\ \E b \in Budgets : faults = b[1] /\ crashes = b[2]

\* open_rw refuses a CID it could not rewrite.
Open ==
    /\ pc = "closed"
    /\ LocateContentId(Region(disk)) # Unwritable
    /\ pc' = "open" /\ bumped' = FALSE
    /\ UNCHANGED <<devVars, text, first, faults, crashes>>

Close ==
    /\ pc = "open"
    /\ pc' = "closed"
    /\ UNCHANGED <<devVars, text, bumped, first, faults, crashes>>

\* bump_content_id up to its device write. Without a field there is nothing to do;
\* one a failed write left unwritable makes the call fail.
Bump ==
    LET r == Region(disk)
        f == LocateContentId(r)
    IN
    /\ pc = "open" /\ ~bumped
    /\ \/ /\ f = NoField
          /\ bumped' = TRUE
          /\ UNCHANGED <<pc, text>>
       \/ /\ f \notin {NoField, Unwritable}
          /\ \E next \in NextContentId(SubSeq(r, f.start, f.start + f.len - 1)) :
                text' = Overwritten(Text(disk), f.start, Rewritten(r, f, next))
          /\ pc' = "write"
          /\ UNCHANGED bumped
    /\ UNCHANGED <<devVars, first, faults, crashes>>

\* The sectors the write covers that it changes.
Changed == {s \in Sectors : disk[s] # Sector(text, s)}

Write ==
    /\ pc = "write"
    /\ DevWriteAll([s \in Changed |-> Sector(text, s)])
    /\ pc' = "flush"
    /\ UNCHANGED <<text, bumped, first, faults, crashes>>

\* Mutant of Flush: the write is not flushed.
FlushSkipped ==
    /\ pc = "flush"
    /\ bumped' = TRUE
    /\ pc' = "open"
    /\ UNCHANGED <<devVars, text, first, faults, crashes>>

Flush ==
    /\ pc = "flush"
    /\ DevFlush
    /\ bumped' = TRUE
    /\ pc' = "open"
    /\ UNCHANGED <<text, first, faults, crashes>>

\* The write fails after the first of its sectors, or none, or all; or the flush
\* fails. The call returns an error and the next one bumps again.
Fails ==
    /\ faults > 0 /\ faults' = faults - 1
    /\ \/ /\ pc = "write"
          /\ \E n \in Sectors \cup {Cardinality(Sectors)} :
                DevWriteAll([s \in {c \in Changed : c < n} |-> Sector(text, s)])
       \/ pc = "flush" /\ DevFlushFails
    /\ pc' = "open"
    /\ UNCHANGED <<text, bumped, first, crashes>>

Crash ==
    /\ crashes > 0 /\ crashes' = crashes - 1
    /\ \E c \in CrashOutcomes : DevCrash(c)
    /\ pc' = "closed" /\ bumped' = FALSE
    /\ UNCHANGED <<text, first, faults>>

Next == Open \/ Close \/ Bump \/ Write \/ Flush \/ Fails \/ Crash

Spec == Init /\ [][Next]_vars

-----------------------------------------------------------------------------
(* Properties *)

\* Where a reader of the text finds a CID= line, and what it sees of a region but the
\* value of the first: the text up to it, and what follows its digits up to the padding.
FieldLines(r) == {i \in DOMAIN r : r[i] = "CID=" /\ (i = 1 \/ r[i - 1] \in {LF, CR})}
Told(r) ==
    LET last == Max({0} \cup {i \in DOMAIN r : r[i] # NUL})
        value == IF FieldLines(r) = {} THEN last + 1 ELSE Min(FieldLines(r)) + 1
        rest == Min({k \in value .. last + 1 : k = last + 1 \/ r[k] \notin Hex})
    IN << SubSeq(r, 1, value - 1), SubSeq(r, rest, last) >>

SameButCid(r, t) == Told(r) = Told(t)

TypeOK ==
    /\ pc \in {"closed", "open", "write", "flush"} /\ bumped \in BOOLEAN
    /\ \A s \in Sectors : disk[s] \in media[s] /\ Len(disk[s]) = SectorBytes
    /\ pc \in {"write", "flush"} => Len(text) = DeviceBytes

\* Issue #67: a write that completes changes the value and nothing else a reader
\* sees, parentCID included, and leaves a value of all its digits.
BumpKeepsTheRest ==
    [][pc = "write" /\ pc' = "flush" =>
          /\ SameButCid(Region(disk), Region(disk'))
          /\ LocateContentId(Region(disk')).len = CidDigits]_vars

\* The identifier a located field holds, as a number of all its digits.
CidOf(r) ==
    LET f == LocateContentId(r) IN Padded(SubSeq(r, f.start, f.start + f.len - 1))

\* Such a write moves the identifier: "a CID that stayed the same is the whole
\* defect", however few digits spelled it, and the sentinels are not identifiers.
BumpMovesTheCid ==
    [][pc = "write" /\ pc' = "flush" =>
          CidOf(Region(disk')) \notin {CidOf(Region(disk))} \cup Sentinels]_vars

\* content_id_bumped is set once all the bump wrote is on the medium, by whatever
\* failures and retries it got there.
BumpedIsDurable == bumped => \A s \in Sectors : media[s] = {disk[s]}

\* Even where the text moves and is torn, and is then rewritten from what was left,
\* nothing up to the value is ever touched: the CID= line itself is never lost.
LineIsKept ==
    LET value == IF FieldLines(first) = {} THEN RegionBytes + 1 ELSE Min(FieldLines(first)) + 1
    IN \A s \in Sectors, o \in 1 .. SectorBytes :
          s * SectorBytes + o < value => \A v \in media[s] : v[o] = first[s * SectorBytes + o]

\* Nothing is ever written past the region descriptorSize declares, where the
\* grain directory may begin.
RegionIsTheLimit == media[RegionBytes \div SectorBytes] = {Beyond}

\* Both: whatever is found, widened, failed, torn by a crash and rewritten from what
\* was left, a rewrite stays between the value of the first CID= line and the end of
\* the region.
RewriteIsConfined == LineIsKept /\ RegionIsTheLimit

\* The rewrite is all or nothing whatever a crash keeps of it: the value has all
\* its digits, so that nothing moves, or all that moves lies in one sector.
Moves(r) ==
    LET f == LocateContentId(r) IN
    /\ f \notin {NoField, Unwritable} /\ f.len < CidDigits
    /\ (f.start - 1) \div SectorBytes # (f.contentEnd + CidDigits - f.len - 1) \div SectorBytes

\* Then whatever a crash or a failed write leaves, at any point of any number of
\* sessions, says what the descriptor said, and opens for writing again.
Keeps(r) == SameButCid(first, r) /\ LocateContentId(r) # Unwritable
DescriptorSurvives ==
    LocateContentId(first) # Unwritable /\ ~Moves(first) =>
        \A c \in [Sectors -> UNION {media[s] : s \in Sectors}] :
            (\A s \in Sectors : c[s] \in media[s]) => Keeps(Region(c))
=============================================================================
