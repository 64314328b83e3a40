------------------------------- MODULE ImgTool -------------------------------
(***************************************************************************)
(* The commands `img read` and `img write` (src/src/cli/vmdk/img.rs), run  *)
(* by any number of processes over one image and one directory of output   *)
(* files: the copy through FILE.partial, the stream to stdout, and the     *)
(* checks and chunks of a write from stdin. Any call may fail, a process   *)
(* may be killed, the machine may crash.                                   *)
(*                                                                         *)
(* The image is the contents of its virtual disk, a sequence of units:     *)
(* what a write_at does to it is atomic here (GrainWriter and WriteSession *)
(* have its parts). Output files are inodes with one table of names; both  *)
(* live on a BlockDevice, so a crash may lose what was not synced.         *)
(***************************************************************************)
EXTENDS BlockDevice, Integers, Sequences

CONSTANTS Processes,    \* each runs one command after another
          Jobs,         \* the command lines that may be run
          Dests,        \* the output files that may be named
          Inodes,       \* the files that may exist, by number
          Units,        \* what one unit of a disk or a file may hold
          ChunkUnits,   \* CHUNK
          Contents,     \* what the image may hold at first
          Present,      \* the output files there are at first, by inode, or NoFile
          OldFile,      \* what those hold
          Exclusive,    \* whether commands on one file are never run at once
          Budgets       \* <<calls that may fail, kills and crashes, commands>>

VARIABLES image,    \* the contents of the virtual disk
          pc, my,   \* each process's place and locals
          result,   \* how its last command ended
          faults, kills, commands,   \* what may still happen
          outputs   \* history: the <<dest, contents>> commands have completed

budget == <<faults, kills, commands>>
vars == <<disk, media, image, pc, my, result, budget, outputs>>

Zero == 0              \* a unit of zeros
NoFile == 0            \* the inode of a name nobody uses
Stdout == "stdout"
ToTheEnd == -1         \* no --length

ASSUME ImgAssumption ==
    /\ ChunkUnits \in Nat \ {0} /\ Zero \in Units
    /\ Exclusive \in BOOLEAN
    /\ Budgets \subseteq Nat \X Nat \X Nat
    /\ Stdout \notin Dests /\ NoFile \notin Inodes
    /\ Present \in [Dests -> Inodes \cup {NoFile}]
    /\ \A d, e \in Dests : Present[d] = Present[e] /\ Present[d] # NoFile => d = e
    /\ OldFile \in Seq(Units) /\ \A c \in Contents : c \in Seq(Units)

\* A write takes the input it counts as its length, whatever the file holds by then.
ASSUME JobAssumption ==
    \A j \in Jobs :
        /\ j.offset \in Nat
        /\ \/ /\ j.verb = "read"
              /\ j.to \in Dests \cup {Stdout} /\ j.length \in Nat \cup {ToTheEnd}
           \/ /\ j.verb = "write"
              /\ j.to = Stdout /\ j.length \in Nat /\ j.input \in Seq(Units)

\* Locations of the output device: the table of names, and inodes.
Names == <<"names">>
Inode(i) == <<"inode", i>>
Whole(d) == <<d, "whole">>
Partial(d) == <<d, "partial">>

Lesser(x, y) == IF x < y THEN x ELSE y

\* Contents f with `units` at position `at`; a gap reads as zeros.
Overlay(f, at, units) ==
    [k \in 1 .. IF Len(f) > at + Len(units) THEN Len(f) ELSE at + Len(units) |->
        IF k \in at + 1 .. at + Len(units) THEN units[k - at]
        ELSE IF k <= Len(f) THEN f[k] ELSE Zero]

\* What name n stands for, and the contents of the file of that name.
Named(n) == disk[Names][n]

Idle == [job |-> [verb |-> "none", to |-> Stdout], at |-> 0, end |-> 0, file |-> NoFile,
         meant |-> <<>>, out |-> <<>>]

Init ==
    /\ image \in Contents
    /\ disk = [l \in {Names} \cup {Inode(i) : i \in Inodes} |->
                IF l = Names
                THEN [n \in {Whole(d) : d \in Dests} \cup {Partial(d) : d \in Dests} |->
                         IF n[2] = "whole" THEN Present[n[1]] ELSE NoFile]
                ELSE OldFile]
    /\ media = [l \in DOMAIN disk |-> {disk[l]}]
    /\ pc = [p \in Processes |-> "idle"]
    /\ my = [p \in Processes |-> Idle]
    /\ result = [p \in Processes |-> "none"]
    /\ \E b \in Budgets : faults = b[1] /\ kills = b[2] /\ commands = b[3]
    /\ outputs = {<<d, OldFile>> : d \in Dests}

Goto(p, to) == pc' = [pc EXCEPT ![p] = to]

Return(p, how) ==
    /\ Goto(p, "idle")
    /\ result' = [result EXCEPT ![p] = how]

Running == {p \in Processes : pc[p] # "idle"}

\* Two commands that touch one output file, or one of which writes the image.
Conflict(j, k) ==
    \/ j.verb = "write" \/ k.verb = "write"
    \/ j.to # Stdout /\ j.to = k.to

-----------------------------------------------------------------------------
(* Up-front checks *)

\* range: refused whole if any of it is past the end.
RangeLength(job) == IF job.length = ToTheEnd THEN Len(image) - job.offset ELSE job.length
RangeIsRefused(job) == job.offset > Len(image) \/ job.offset + RangeLength(job) > Len(image)

\* Mutant of Takes: the file is read to its end, whatever that is by then.
TakesAll(job) == Len(job.input)

\* How much of its input a write will take: for a regular file no more than the
\* length it had when checked, though the file (job.input) may have changed since;
\* for a pipe, all of it, already in memory.
Takes(job) == Lesser(job.length, Len(job.input))

\* write's checks: the offset, stdin being the image, more input than room.
WriteIsRefused(job) ==
    \/ job.offset > Len(image)
    \/ job.same
    \/ job.length > Len(image) - job.offset

\* A command starts: the image is opened and what can be refused is refused. An
\* image that does not open is refused as well.
Start(p, job) ==
    /\ pc[p] = "idle"
    /\ commands > 0 /\ commands' = commands - 1
    /\ Exclusive => \A q \in Running : ~Conflict(my[q].job, job)
    /\ my' = [my EXCEPT ![p] = [Idle EXCEPT !.job = job]]
    /\ \/ Return(p, "refused")
       \/ Goto(p, "open") /\ result' = [result EXCEPT ![p] = "none"]
    /\ UNCHANGED <<devVars, image, faults, kills, outputs>>

Check(p) ==
    LET job == my[p].job
        refused == IF job.verb = "read" THEN RangeIsRefused(job) ELSE WriteIsRefused(job)
        end == job.offset + (IF job.verb = "read" THEN RangeLength(job) ELSE Takes(job))
    IN
    /\ pc[p] = "open"
    /\ IF refused
       THEN Return(p, "refused") /\ UNCHANGED my
       ELSE /\ my' = [my EXCEPT ![p] = [@ EXCEPT
                        !.at = job.offset, !.end = end,
                        !.meant = IF job.verb = "read" THEN SubSeq(image, job.offset + 1, end)
                                  ELSE Overlay(image, job.offset, SubSeq(job.input, 1, Takes(job)))]]
            /\ Goto(p, CASE job.verb = "write" -> "put"
                         [] job.verb = "read" /\ job.to = Stdout -> "emit"
                         [] job.verb = "read" /\ job.to # Stdout -> "create")
            /\ UNCHANGED result
    /\ UNCHANGED <<devVars, image, budget, outputs>>

\* The next chunk: how long, and (for a read) its units.
ChunkLength(p) == Lesser(ChunkUnits, my[p].end - my[p].at)
ChunkUnitsRead(p) == SubSeq(image, my[p].at + 1, my[p].at + ChunkLength(p))
More(p) == my[p].at < my[p].end

-----------------------------------------------------------------------------
(* img read to stdout *)

\* Mutant of Emit: the whole buffer is written, with what an earlier chunk left in it.
EmitBuffer(p) ==
    /\ pc[p] = "emit" /\ More(p)
    /\ my' = [my EXCEPT ![p].at = @ + ChunkLength(p),
                        ![p].out = @ \o ChunkUnitsRead(p) \o [k \in 1 .. ChunkUnits - ChunkLength(p) |-> Zero]]
    /\ UNCHANGED <<devVars, image, pc, result, budget, outputs>>

Emit(p) ==
    /\ pc[p] = "emit" /\ More(p)
    /\ my' = [my EXCEPT ![p].at = @ + ChunkLength(p), ![p].out = @ \o ChunkUnitsRead(p)]
    /\ UNCHANGED <<devVars, image, pc, result, budget, outputs>>

EmitDone(p) ==
    /\ pc[p] = "emit" /\ ~More(p)
    /\ Return(p, "ok")
    /\ UNCHANGED <<devVars, image, my, budget, outputs>>

\* write_all or flush is refused, with any part of the chunk written.
EmitStops(p, how) ==
    /\ pc[p] = "emit"
    /\ \E k \in 0 .. ChunkLength(p) :
          my' = [my EXCEPT ![p].out = @ \o SubSeq(ChunkUnitsRead(p), 1, k)]
    /\ Return(p, how)
    /\ UNCHANGED <<devVars, image, kills, commands, outputs>>

\* The reader of the pipe has gone: status 0.
PipeCloses(p) == EmitStops(p, "closed") /\ UNCHANGED faults

\* Any other error, of the image's read (no part of the chunk) or of stdout.
EmitFails(p) == faults > 0 /\ faults' = faults - 1 /\ EmitStops(p, "failed")

-----------------------------------------------------------------------------
(* img read -o FILE *)

\* An inode no process has open and no name stands for, now or in what a crash
\* may leave; NoFile without one.
Free(i) ==
    /\ \A t \in media[Names] : \A n \in DOMAIN t : t[n] # i
    /\ \A q \in Running : my[q].file # i
NewInode == IF \E i \in Inodes : Free(i) THEN CHOOSE i \in Inodes : Free(i) ELSE NoFile

\* Mutant of Create: an existing file is opened as it is.
CreateKeeping(p) ==
    /\ pc[p] = "create"
    /\ LET name == Partial(my[p].job.to)
           i == IF Named(name) # NoFile THEN Named(name) ELSE NewInode
       IN /\ i \in Inodes
          /\ DevWriteAll([l \in {Names} |-> [disk[Names] EXCEPT ![name] = i]])
          /\ my' = [my EXCEPT ![p].file = i]
    /\ Goto(p, "copy")
    /\ UNCHANGED <<image, result, budget, outputs>>

\* Mutant of Create: the file is not kept open.
CreateClosed(p) ==
    /\ pc[p] = "create"
    /\ LET name == Partial(my[p].job.to)
           i == IF Named(name) # NoFile THEN Named(name) ELSE NewInode
       IN /\ i \in Inodes
          /\ DevWriteAll([l \in {Names, Inode(i)} |->
                IF l = Names THEN [disk[Names] EXCEPT ![name] = i] ELSE <<>>])
    /\ Goto(p, "copy")
    /\ UNCHANGED <<image, my, result, budget, outputs>>

\* File::create: FILE.partial made, or truncated if it is there.
Create(p) ==
    /\ pc[p] = "create"
    /\ LET name == Partial(my[p].job.to)
           i == IF Named(name) # NoFile THEN Named(name) ELSE NewInode
       IN /\ i \in Inodes
          /\ DevWriteAll([l \in {Names, Inode(i)} |->
                IF l = Names THEN [disk[Names] EXCEPT ![name] = i] ELSE <<>>])
          /\ my' = [my EXCEPT ![p].file = i]
    /\ Goto(p, "copy")
    /\ UNCHANGED <<image, result, budget, outputs>>

\* set_len
Resized(f, n) == [k \in 1 .. n |-> IF k <= Len(f) THEN f[k] ELSE Zero]

\* One turn of the loop: a chunk of zeros is skipped over, any other is written.
Copy(p) ==
    /\ pc[p] = "copy" /\ More(p)
    /\ LET units == ChunkUnitsRead(p)
           file == Inode(my[p].file)
       IN IF \A k \in DOMAIN units : units[k] = Zero
          THEN UNCHANGED devVars
          ELSE DevWrite(file, Overlay(disk[file], my[p].at - my[p].job.offset, units))
    /\ my' = [my EXCEPT ![p].at = @ + ChunkLength(p)]
    /\ UNCHANGED <<image, pc, result, budget, outputs>>

SetLength(p) ==
    /\ pc[p] = "copy" /\ ~More(p)
    /\ LET file == Inode(my[p].file) IN
       DevWrite(file, Resized(disk[file], my[p].end - my[p].job.offset))
    /\ Goto(p, "sync")
    /\ UNCHANGED <<image, my, result, budget, outputs>>

\* Mutant of Sync: the file is closed, not synced.
SyncNot(p) ==
    /\ pc[p] = "sync"
    /\ Goto(p, "rename")
    /\ UNCHANGED <<devVars, image, my, result, budget, outputs>>

\* sync_all of the one file; the directory is not synced.
Sync(p) ==
    /\ pc[p] = "sync"
    /\ media' = [media EXCEPT ![Inode(my[p].file)] = {disk[Inode(my[p].file)]}]
    /\ Goto(p, "rename")
    /\ UNCHANGED <<disk, image, my, result, budget, outputs>>

\* rename(2): one atomic change of the names. It fails without a FILE.partial,
\* another process having taken it.
Rename(p) ==
    LET d == my[p].job.to IN
    /\ pc[p] = "rename"
    /\ IF Named(Partial(d)) # NoFile
       THEN /\ DevWrite(Names, [disk[Names] EXCEPT ![Whole(d)] = Named(Partial(d)),
                                                   ![Partial(d)] = NoFile])
            /\ outputs' = outputs \cup {<<d, my[p].meant>>}
            /\ Return(p, "ok")
       ELSE Return(p, "failed") /\ UNCHANGED <<devVars, outputs>>
    /\ UNCHANGED <<image, my, budget>>

\* After an error in the copy: remove_file, whose own error is ignored.
Remove(p) ==
    /\ pc[p] = "remove"
    /\ DevWrite(Names, [disk[Names] EXCEPT ![Partial(my[p].job.to)] = NoFile])
    /\ Return(p, "failed")
    /\ UNCHANGED <<image, my, budget, outputs>>

-----------------------------------------------------------------------------
(* img write *)

\* Mutant of AfterPut: chunks count from the start of the disk.
AfterPutUnshifted(p) ==
    LET from == my[p].at - my[p].job.offset IN
    Overlay(image, from, SubSeq(my[p].job.input, from + 1, from + ChunkLength(p)))

\* The disk with the next chunk of input in its place.
AfterPut(p) ==
    LET from == my[p].at - my[p].job.offset IN
    Overlay(image, my[p].at, SubSeq(my[p].job.input, from + 1, from + ChunkLength(p)))

\* read from stdin, then write_at, which refuses a range past the end of the disk.
Put(p) ==
    /\ pc[p] = "put" /\ More(p)
    /\ IF my[p].at + ChunkLength(p) <= Len(image)
       THEN /\ image' = AfterPut(p)
            /\ my' = [my EXCEPT ![p].at = @ + ChunkLength(p)]
            /\ UNCHANGED <<pc, result>>
       ELSE Return(p, "outOfBounds") /\ UNCHANGED <<image, my>>
    /\ UNCHANGED <<devVars, budget, outputs>>

PutDone(p) ==
    /\ pc[p] = "put" /\ ~More(p)
    /\ Return(p, "ok")
    /\ UNCHANGED <<devVars, image, my, budget, outputs>>

-----------------------------------------------------------------------------
(* Failures *)

\* Any other call returns an error. A copy that fails may have written its chunk, or
\* found the image unreadable before it wrote any of it. A rename that fails
\* leaves FILE.partial behind.
Fails(p) ==
    /\ faults > 0
    /\ faults' = faults - 1
    /\ \/ /\ pc[p] = "copy" /\ More(p)
          /\ LET file == Inode(my[p].file) IN
             DevWriteFails(file, Overlay(disk[file], my[p].at - my[p].job.offset, ChunkUnitsRead(p)))
          /\ Goto(p, "remove") /\ UNCHANGED result
          /\ UNCHANGED image
       \/ /\ pc[p] \in {"create", "sync"} \/ (pc[p] = "copy" /\ ~More(p))
          /\ UNCHANGED <<devVars, image>>
          /\ Goto(p, "remove") /\ UNCHANGED result
       \/ /\ pc[p] \in {"put", "rename", "remove"}
          /\ UNCHANGED devVars
          /\ image' \in {image} \cup (IF pc[p] = "put" /\ More(p) THEN {AfterPut(p)} ELSE {})
          /\ Return(p, "failed")
    /\ UNCHANGED <<my, kills, commands, outputs>>

\* A process dies where it stands.
Killed(p) ==
    /\ kills > 0 /\ p \in Running
    /\ kills' = kills - 1
    /\ Return(p, "killed")
    /\ UNCHANGED <<devVars, image, my, faults, commands, outputs>>

\* The machine stops. What becomes of the image is WriteSession's subject.
Crash ==
    /\ kills > 0
    /\ kills' = kills - 1
    /\ \E c \in CrashOutcomes : DevCrash(c)
    /\ pc' = [p \in Processes |-> "idle"]
    /\ result' = [p \in Processes |-> "killed"]
    /\ UNCHANGED <<image, my, faults, commands, outputs>>

\* The kernel writes back what is cached, in its own time.
WriteBack == DevFlush /\ UNCHANGED <<image, pc, my, result, budget, outputs>>

Step(p) ==
    \/ Check(p) \/ Emit(p) \/ EmitDone(p) \/ PipeCloses(p) \/ EmitFails(p)
    \/ Create(p) \/ Copy(p) \/ SetLength(p) \/ Sync(p) \/ Rename(p) \/ Remove(p)
    \/ Put(p) \/ PutDone(p)
    \/ Fails(p) \/ Killed(p)

Next ==
    \/ \E p \in Processes : (\E job \in Jobs : Start(p, job)) \/ Step(p)
    \/ WriteBack \/ Crash

Spec == Init /\ [][Next]_vars

-----------------------------------------------------------------------------
(* Properties *)

TypeOK ==
    /\ Locations = {Names} \cup {Inode(i) : i \in Inodes}
    /\ \A l \in Locations : disk[l] \in media[l]
    /\ \A t \in media[Names] : \A n \in DOMAIN t : t[n] \in Inodes \cup {NoFile}
    /\ faults \in Nat /\ kills \in Nat /\ commands \in Nat
    /\ \A p \in Running : my[p].job \in Jobs
    /\ \A p \in Processes : pc[p] \in {"copy", "sync", "rename"} => my[p].file \in Inodes

\* The doc comment of read: FILE "is never left half written". Whatever FILE
\* names, now or after a crash at this point, holds what FILE held before any
\* command, or the whole of what a command that completed was to write there.
FileIsWhole ==
    \A t \in media[Names] : \A d \in Dests :
        t[Whole(d)] # NoFile =>
            \A f \in media[Inode(t[Whole(d)])] : <<d, f>> \in outputs

\* What stdout got is a prefix of the range, and all of it if the command says so.
StdoutIsPrefix ==
    \A p \in Processes : my[p].job.to = Stdout /\ my[p].job.verb = "read" =>
        /\ Len(my[p].out) <= Len(my[p].meant)
        /\ my[p].out = SubSeq(my[p].meant, 1, Len(my[p].out))
        /\ result[p] = "ok" => my[p].out = my[p].meant

\* Everything that can be refused is refused before the first byte is written:
\* once a chunk is being written, no range is past the end of the disk, even if
\* the input file grows after it was checked.
NothingRefusedLate == \A p \in Processes : result[p] # "outOfBounds"

\* A `read -o` that returns Ok has put its whole output at FILE, zeros that were
\* skipped and an earlier, interrupted command's FILE.partial notwithstanding; a write
\* that returns Ok has written its input and nothing else.
OkIsDone ==
    [][\A p \in Processes : result'[p] = "ok" =>
          /\ pc[p] = "rename" => disk'[Inode(disk'[Names][Whole(my[p].job.to)])] = my[p].meant
          /\ pc[p] = "put" => image' = my[p].meant]_vars
=============================================================================
