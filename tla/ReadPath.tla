------------------------------- MODULE ReadPath -------------------------------
(***************************************************************************)
(* read_at (src/src/reader.rs): the walk over the grains of a range that   *)
(* joins grains lying back to back on the host into one pending run, and   *)
(* inflated_grain, the stream-optimized grain with its one cached slot.    *)
(* Any number of threads read at once; the cache is all they share. The    *)
(* directory and the tables are one function from grains to entries here   *)
(* (GrainWriter has them in full).                                         *)
(*                                                                         *)
(* A unit of the buffer is what it was filled from: Blank, a host unit, or *)
(* unit k of the record whose marker names the grain starting at `start`.  *)
(***************************************************************************)
EXTENDS Integers, Sequences, FiniteSets, TLC
LOCAL INSTANCE FiniteSetsExt

CONSTANTS Readers,
          GrainUnits,    \* units in a grain: the caller's granularity
          Images,        \* the images that may be open
          MayFail        \* whether the device may fail a read

\* Entries: Hole for an unallocated grain and for one marked zeroed, Bad for a
\* pointer grain_host_offset refuses, else the grain's host unit.
Hole == -1
Bad == -2

ASSUME ReadAssumption ==
    /\ GrainUnits \in Nat \ {0} /\ MayFail \in BOOLEAN
    /\ \A i \in Images :
          /\ i.size \in Nat \ {0} /\ i.stream \in BOOLEAN /\ i.readers \subseteq Readers
          /\ i.limit \in Nat
          /\ i.entry \in [0 .. (i.size - 1) \div GrainUnits -> Nat \cup {Hole, Bad}]
          /\ i.stream =>
                \A g \in DOMAIN i.entry : i.entry[g] \in Nat => i.records[i.entry[g]].inflates \in Int

VARIABLES image,     \* the open image: [size, stream, entry, limit, records, readers]
          pc,        \* each reader's place
          my,        \* its locals: the range, the cursor, the pending run, buf
          result,    \* how its last call ended
          reads,     \* the host ranges its call has read, in order
          inflated   \* the cache: None, or <<<<host unit, start>>, grain>>

vars == <<image, pc, my, result, reads, inflated>>

Stream == image.stream              \* header.is_stream_optimized()
VirtualUnits == image.size          \* virtual_size
Units == 0 .. VirtualUnits - 1

None == <<>>
Blank == <<"zero">>
Unfilled == <<"unfilled">>
Host(u) == <<"host", u>>
Record(start, k) == <<"record", start, k>>

Lesser(x, y) == IF x < y THEN x ELSE y

\* grain_address
Address(at, end) ==
    [in |-> at % GrainUnits, grain |-> at \div GrainUnits,
     len |-> Lesser(GrainUnits - (at % GrainUnits), end - at)]

\* Mutant of HostOffset: only the first unit touched is looked at.
HostOffsetFirst(e, in, len) == IF e = Bad \/ e + in >= image.limit THEN Bad ELSE e + in

\* grain_host_offset of the units touched: only those must lie in the file.
HostOffset(e, in, len) ==
    IF e = Bad \/ e + in + len > image.limit THEN Bad ELSE e + in

Idle == [offset |-> 0, at |-> 0, end |-> 0, run |-> None, buf |-> <<>>]

Init ==
    /\ image \in Images
    /\ pc = [r \in Readers |-> "idle"]
    /\ my = [r \in Readers |-> Idle]
    /\ result = [r \in Readers |-> "none"]
    /\ reads = [r \in Readers |-> <<>>]
    /\ inflated = None

Goto(r, to) == pc' = [pc EXCEPT ![r] = to]
Here(r) == Address(my[r].at, my[r].end)
Entry(r) == image.entry[Here(r).grain]
Start(r) == Here(r).grain * GrainUnits

Return(r, how) == Goto(r, "idle") /\ result' = [result EXCEPT ![r] = how]

\* read_at on a range inside the disk; an empty or out-of-bounds one returns at
\* once and is not a step.
CallRead(r) ==
    /\ pc[r] = "idle" /\ r \in image.readers
    /\ \E first \in Units : \E last \in first .. VirtualUnits - 1 :
          my' = [my EXCEPT ![r] =
                   [offset |-> first, at |-> first, end |-> last + 1, run |-> None,
                    buf |-> [u \in first .. last |-> Unfilled]]]
    /\ result' = [result EXCEPT ![r] = "none"]
    /\ reads' = [reads EXCEPT ![r] = <<>>]
    /\ Goto(r, "walk")
    /\ UNCHANGED <<image, inflated>>

\* The buffer once the units from `from` on hold `units`, a function on 0 .. n - 1.
Fill(buf, from, units) ==
    [u \in DOMAIN buf |-> IF u - from \in DOMAIN units THEN units[u - from] ELSE buf[u]]

\* read_run: the device read of a pending run <<host, from, len>>.
RunBuffer(r) ==
    LET run == my[r].run
    IN Fill(my[r].buf, run[2], [k \in 0 .. run[3] - 1 |-> Host(run[1] + k)])

\* Mutant of WalkHole: the pending run is not read out before the zeros.
WalkHoleInRun(r) ==
    /\ pc[r] = "walk" /\ my[r].at < my[r].end
    /\ Entry(r) = Hole
    /\ my' = [my EXCEPT ![r].at = @ + Here(r).len,
                        ![r].buf = Fill(@, my[r].at, [k \in 0 .. Here(r).len - 1 |-> Blank])]
    /\ UNCHANGED <<image, pc, result, reads, inflated>>

\* A grain with no data: the pending run is read out first, then zeros.
WalkHole(r) ==
    /\ pc[r] = "walk" /\ my[r].at < my[r].end
    /\ Entry(r) = Hole
    /\ my[r].run = None
    /\ my' = [my EXCEPT ![r].at = @ + Here(r).len,
                        ![r].buf = Fill(@, my[r].at, [k \in 0 .. Here(r).len - 1 |-> Blank])]
    /\ UNCHANGED <<image, pc, result, reads, inflated>>

\* A grain whose host units continue the pending run extends it; with nothing
\* pending it begins one.
WalkRun(r) ==
    LET host == HostOffset(Entry(r), Here(r).in, Here(r).len)
        run == my[r].run
    IN
    /\ pc[r] = "walk" /\ my[r].at < my[r].end
    /\ ~Stream /\ Entry(r) # Hole /\ host # Bad
    /\ run # None => run[1] + run[3] = host
    /\ my' = [my EXCEPT ![r].at = @ + Here(r).len,
                        ![r].run = IF run = None THEN <<host, my[r].at, Here(r).len>>
                                   ELSE <<run[1], run[2], run[3] + Here(r).len>>]
    /\ UNCHANGED <<image, pc, result, reads, inflated>>

\* The pointer is validated before the pending run is read.
WalkRefused(r) ==
    /\ pc[r] = "walk" /\ my[r].at < my[r].end
    /\ ~Stream /\ Entry(r) # Hole
    /\ HostOffset(Entry(r), Here(r).in, Here(r).len) = Bad
    /\ Return(r, "corrupt")
    /\ UNCHANGED <<image, my, reads, inflated>>

\* Mutant of RunIsDue: every grain is read by itself.
RunIsDueAlways(r) == pc[r] = "walk" /\ my[r].run # None

\* What comes next does not continue the pending run: another grain, a hole, the
\* end of the range.
RunIsDue(r) ==
    LET run == my[r].run
        host == HostOffset(Entry(r), Here(r).in, Here(r).len)
    IN /\ pc[r] = "walk" /\ run # None
       /\ my[r].at < my[r].end =>
            Entry(r) = Hole \/ (host # Bad /\ run[1] + run[3] # host)

ReadRun(r) ==
    /\ RunIsDue(r)
    /\ my' = [my EXCEPT ![r].run = None, ![r].buf = RunBuffer(r)]
    /\ reads' = [reads EXCEPT ![r] = Append(@, my[r].run)]
    /\ UNCHANGED <<image, pc, result, inflated>>

\* The loop has ended and nothing is pending.
WalkEnds(r) ==
    /\ pc[r] = "walk" /\ my[r].at = my[r].end /\ my[r].run = None
    /\ Return(r, "ok")
    /\ UNCHANGED <<image, my, reads, inflated>>

-----------------------------------------------------------------------------
(* inflated_grain. image.records maps a host unit to the record there: the *)
(* virtual unit its marker names, and how many units its payload inflates   *)
(* to, or BadPayload.                                                       *)

\* A length of zero (a metadata record), a length past deflate_bound, an invalid
\* stream, or one that goes on past the grain.
BadPayload == -1

\* The inflated buffer of a record: its own units, then zeros.
Inflated(record) ==
    [k \in 0 .. GrainUnits - 1 |-> IF k < record.inflates THEN Record(record.names, k) ELSE Blank]

Serve(r, grain) ==
    my' = [my EXCEPT ![r].at = @ + Here(r).len,
                     ![r].buf = Fill(@, my[r].at,
                                     [k \in 0 .. Here(r).len - 1 |-> grain[Here(r).in + k]])]

\* Mutant of Key: the host sector alone.
KeySector(r) == <<Entry(r)>>

Key(r) == <<Entry(r), Start(r)>>

\* The cache is looked at under its lock, which is dropped before any read.
CacheHit(r) ==
    /\ pc[r] = "walk" /\ my[r].at < my[r].end
    /\ Stream /\ Entry(r) # Hole
    /\ inflated # None /\ inflated[1] = Key(r)
    /\ Serve(r, inflated[2])
    /\ UNCHANGED <<image, pc, result, reads, inflated>>

CacheMiss(r) ==
    /\ pc[r] = "walk" /\ my[r].at < my[r].end
    /\ Stream /\ Entry(r) # Hole
    /\ ~(inflated # None /\ inflated[1] = Key(r))
    /\ Goto(r, "record")
    /\ UNCHANGED <<image, my, result, reads, inflated>>

\* The marker and the payload are read and judged.
RecordIsGood(e, start) ==
    /\ e # Bad
    /\ image.records[e].names = start
    /\ image.records[e].inflates >= Lesser(GrainUnits, VirtualUnits - start)

Inflate(r) ==
    /\ pc[r] = "record"
    /\ RecordIsGood(Entry(r), Start(r))
    /\ Goto(r, "keep")
    /\ UNCHANGED <<image, my, result, reads, inflated>>

\* A bad payload, another grain's marker, or less than one grain (the disk's last
\* grain may stop at the end of the disk).
InflateRefused(r) ==
    /\ pc[r] = "record"
    /\ ~RecordIsGood(Entry(r), Start(r))
    /\ Return(r, "corrupt")
    /\ UNCHANGED <<image, my, reads, inflated>>

\* The slot is overwritten, whatever another reader put there meanwhile.
Keep(r) ==
    /\ pc[r] = "keep"
    /\ inflated' = <<Key(r), Inflated(image.records[Entry(r)])>>
    /\ Serve(r, Inflated(image.records[Entry(r)]))
    /\ Goto(r, "walk")
    /\ UNCHANGED <<image, result, reads>>

\* The device fails the read of a table, of a run, or of a record.
ReadFails(r) ==
    /\ MayFail
    /\ \/ pc[r] = "walk" /\ my[r].at < my[r].end
       \/ RunIsDue(r)
       \/ pc[r] = "record" /\ Entry(r) # Bad
    /\ Return(r, "io")
    /\ UNCHANGED <<image, my, reads, inflated>>

ReaderStep(r) ==
    \/ WalkHole(r) \/ WalkRun(r) \/ WalkRefused(r) \/ ReadRun(r) \/ WalkEnds(r)
    \/ CacheHit(r) \/ CacheMiss(r) \/ Inflate(r) \/ InflateRefused(r) \/ Keep(r)
    \/ ReadFails(r)

Next == \E r \in Readers : CallRead(r) \/ ReaderStep(r)

Spec == Init /\ [][Next]_vars

-----------------------------------------------------------------------------
(* Properties *)

TypeOK ==
    /\ pc \in [Readers -> {"idle", "walk", "record", "keep"}]
    /\ result \in [Readers -> {"none", "ok", "corrupt", "io"}]
    /\ \A r \in Readers :
          /\ my[r].at \in my[r].offset .. my[r].end
          /\ my[r].run # None => my[r].run[2] + my[r].run[3] = my[r].at

\* What unit u of the virtual disk is, from the table alone.
Truth(u) ==
    LET e == image.entry[u \div GrainUnits] IN
    CASE e = Hole -> Blank
      [] e # Hole /\ Stream -> Record(u - (u % GrainUnits), u % GrainUnits)
      [] e # Hole /\ ~Stream -> Host(e + (u % GrainUnits))

\* A read that returns Ok has filled its whole buffer, each unit with its own:
\* the joined runs put nothing out of place, and no reader is served another
\* grain's inflated bytes, be they cached by another reader.
OkReadIsTrue ==
    \A r \in Readers : result[r] = "ok" =>
        \A u \in DOMAIN my[r].buf : my[r].buf[u] = Truth(u)

\* The verdict of a read is the sum of its grains' own: Ok comes back only when
\* every unit of the range could be read by itself, "corrupt" only when one could
\* not.
ReadableAlone(u) ==
    LET e == image.entry[u \div GrainUnits] IN
    e = Hole \/ IF Stream THEN RecordIsGood(e, u - (u % GrainUnits))
                          ELSE HostOffset(e, u % GrainUnits, 1) # Bad

VerdictIsPerGrain ==
    \A r \in Readers :
        LET all == \A u \in my[r].offset .. my[r].end - 1 : ReadableAlone(u)
        IN /\ result[r] = "ok" => all
           /\ result[r] = "corrupt" => ~all

\* One device read per run (issue #43): no two reads in a row continue each other
\* both on the host and in the buffer.
RunsAreWhole ==
    \A r \in Readers : \A k \in 1 .. Len(reads[r]) - 1 :
        LET a == reads[r][k]
            b == reads[r][k + 1]
        IN ~(a[1] + a[3] = b[1] /\ a[2] + a[3] = b[2])
=============================================================================
