---------------------------- MODULE WriteSession ----------------------------
(***************************************************************************)
(* What a writable VmdkReader records about itself (src/src/reader.rs):    *)
(* write_at, mark_modified, bump_content_id and flush, run by any number   *)
(* of threads over one image, with device errors and crashes.              *)
(*                                                                         *)
(* The bytes a write moves are one location, "data", holding an abstract   *)
(* value; how they reach a grain is GrainWriter's subject. What is kept in *)
(* full is the envelope: the writes_in_flight reader-writer lock, the two  *)
(* bookkeeping mutexes, the order of their device calls, and every error   *)
(* path.                                                                   *)
(***************************************************************************)
EXTENDS BlockDevice, Naturals

CONSTANTS Writers,     \* threads that call write_at
          Flushers,    \* threads that call flush
          NoOne,       \* the owner of a free lock
          Data,        \* abstract contents of the virtual disk
          Cids,        \* content identifiers
          HasCid,      \* whether the descriptor has a CID= line
          MaxWrites,   \* the most device writes one write_at makes
          Faults,      \* the device calls that may fail
          Crashes      \* whether the process may crash

Threads == Writers \cup Flushers

\* The device calls of the envelope, by the name under which they may fail.
DeviceCalls == {"cidWrite", "cidFlush", "raiseWrite", "raiseFlush",
                "dataWrite", "dataFlush", "sync", "lowerWrite", "lowerFlush"}

ASSUME SessionAssumption ==
    /\ Writers \cap Flushers = {}
    /\ NoOne \notin Writers \cup Flushers
    /\ HasCid \in BOOLEAN
    /\ MaxWrites \in Nat \ {0}
    /\ Faults \subseteq DeviceCalls
    /\ Crashes \in BOOLEAN

VARIABLES pc,          \* where each thread is in its call
          left,        \* device writes a writer has still to make
          result,      \* how each thread's last call ended
          readers,     \* writes_in_flight: threads holding it shared
          exclusive,   \* writes_in_flight: the thread holding it exclusively
          bumped,      \* *content_id_bumped
          bumpLock,    \* the owner of content_id_bumped
          marked,      \* *unclean_marked
          markLock,    \* the owner of unclean_marked
          opened       \* the image as this session opened it

sessionVars == <<readers, exclusive, bumped, bumpLock, marked, markLock, opened>>
vars == <<disk, media, pc, left, result, sessionVars>>

\* disk["unclean"] is the uncleanShutdown byte: 1 raised, 0 lowered.
Image == [unclean : {0, 1}, cid : Cids, data : Data]

WriterPC == {"idle", "enter", "bump", "cidWrite", "cidFlush", "mark",
             "raiseWrite", "raiseFlush", "dataWrite", "dataFlush"}
FlusherPC == {"idle", "enter", "waiting", "sync", "mark", "lowerWrite", "lowerFlush"}

-----------------------------------------------------------------------------

\* A freshly opened image: nothing cached, nothing held, nothing bumped yet.
Init ==
    /\ disk \in Image
    /\ media = [l \in DOMAIN disk |-> {disk[l]}]
    /\ opened = disk
    /\ pc = [t \in Threads |-> "idle"]
    /\ left = [w \in Writers |-> 0]
    /\ result = [t \in Threads |-> "none"]
    /\ readers = {}
    /\ exclusive = NoOne
    /\ bumped = FALSE
    /\ bumpLock = NoOne
    /\ marked = FALSE
    /\ markLock = NoOne

Goto(t, to) == pc' = [pc EXCEPT ![t] = to]

\* The call of t returns r; its guards are dropped.
WriterReturns(w, r) ==
    /\ Goto(w, "idle")
    /\ result' = [result EXCEPT ![w] = r]
    /\ readers' = readers \ {w}
    /\ left' = [left EXCEPT ![w] = 0]

FlusherReturns(f, r) ==
    /\ Goto(f, "idle")
    /\ result' = [result EXCEPT ![f] = r]
    /\ exclusive' = NoOne

-----------------------------------------------------------------------------
(* write_at *)

\* write_at is called with a range that takes n device writes; a zero-length
\* or out-of-bounds call returns before any state is touched and is not a step.
CallWrite(w) ==
    /\ pc[w] = "idle"
    /\ \E n \in 1 .. MaxWrites : left' = [left EXCEPT ![w] = n]
    /\ result' = [result EXCEPT ![w] = "none"]
    /\ Goto(w, "enter")
    /\ UNCHANGED <<devVars, sessionVars>>

\* writes_in_flight.read(): never beside a holder of the exclusive side. Whether a
\* flush that waits holds new writers off is the lock's policy, which std::sync::RwLock
\* leaves open, so both happen here: see Waits.
EnterWrite(w) ==
    /\ pc[w] = "enter"
    /\ exclusive = NoOne
    /\ readers' = readers \cup {w}
    /\ Goto(w, "bump")
    /\ UNCHANGED <<devVars, left, result, exclusive, bumped, bumpLock, marked,
                   markLock, opened>>

\* Mutant of CheckBumped: the guard is dropped before bump_content_id runs.
CheckBumpedUnlocked(w) ==
    /\ pc[w] = "bump"
    /\ bumped' = (bumped \/ ~HasCid)
    /\ Goto(w, IF bumped' THEN "mark" ELSE "cidWrite")
    /\ UNCHANGED <<devVars, left, result, readers, exclusive, bumpLock, marked,
                   markLock, opened>>

\* mark_modified, first block: take content_id_bumped and look at it. A
\* descriptor without a CID= line makes bump_content_id return Ok at once.
CheckBumped(w) ==
    /\ pc[w] = "bump"
    /\ bumpLock = NoOne
    /\ \/ /\ bumped \/ ~HasCid
          /\ bumped' = TRUE
          /\ bumpLock' = bumpLock
          /\ Goto(w, "mark")
       \/ /\ ~bumped /\ HasCid
          /\ bumped' = bumped
          /\ bumpLock' = w
          /\ Goto(w, "cidWrite")
    /\ UNCHANGED <<devVars, left, result, readers, exclusive, marked, markLock, opened>>

\* Mutant of WriteCid: the fresh identifier is not compared with the present one.
WriteCidAny(w) ==
    /\ pc[w] = "cidWrite"
    /\ \E c \in Cids : DevWrite("cid", c)
    /\ Goto(w, "cidFlush")
    /\ UNCHANGED <<left, result, sessionVars>>

\* bump_content_id reads the descriptor back and writes a CID other than the
\* one it read (next_content_id).
WriteCid(w) ==
    /\ pc[w] = "cidWrite"
    /\ \E c \in Cids \ {disk["cid"]} : DevWrite("cid", c)
    /\ Goto(w, "cidFlush")
    /\ UNCHANGED <<left, result, sessionVars>>

FlushCid(w) ==
    /\ pc[w] = "cidFlush"
    /\ DevFlush
    /\ bumped' = TRUE
    /\ bumpLock' = NoOne
    /\ Goto(w, "mark")
    /\ UNCHANGED <<left, result, readers, exclusive, marked, markLock, opened>>

CidFails(w) ==
    /\ \/ /\ pc[w] = "cidWrite" /\ "cidWrite" \in Faults
          /\ \E c \in Cids \ {disk["cid"]} : DevWriteFails("cid", c)
       \/ /\ pc[w] = "cidFlush" /\ "cidFlush" \in Faults
          /\ DevFlushFails
    /\ bumpLock' = NoOne
    /\ WriterReturns(w, "err")
    /\ UNCHANGED <<exclusive, bumped, marked, markLock, opened>>

\* mark_modified, second block: take unclean_marked and look at it.
CheckMarked(w) ==
    /\ pc[w] = "mark"
    /\ markLock = NoOne
    /\ \/ /\ marked
          /\ markLock' = markLock
          /\ Goto(w, "dataWrite")
       \/ /\ ~marked
          /\ markLock' = w
          /\ Goto(w, "raiseWrite")
    /\ UNCHANGED <<devVars, left, result, readers, exclusive, bumped, bumpLock,
                   marked, opened>>

WriteRaise(w) ==
    /\ pc[w] = "raiseWrite"
    /\ DevWrite("unclean", 1)
    /\ Goto(w, "raiseFlush")
    /\ UNCHANGED <<left, result, sessionVars>>

\* Mutant of FlushRaise: no flush between the marker and the data.
FlushRaiseSkipped(w) ==
    /\ pc[w] = "raiseFlush"
    /\ marked' = TRUE
    /\ markLock' = NoOne
    /\ Goto(w, "dataWrite")
    /\ UNCHANGED <<devVars, left, result, readers, exclusive, bumped, bumpLock, opened>>

\* Mutant of FlushRaise: the raise is not remembered.
FlushRaiseForgotten(w) ==
    /\ pc[w] = "raiseFlush"
    /\ DevFlush
    /\ markLock' = NoOne
    /\ Goto(w, "dataWrite")
    /\ UNCHANGED <<left, result, readers, exclusive, bumped, bumpLock, marked, opened>>

FlushRaise(w) ==
    /\ pc[w] = "raiseFlush"
    /\ DevFlush
    /\ marked' = TRUE
    /\ markLock' = NoOne
    /\ Goto(w, "dataWrite")
    /\ UNCHANGED <<left, result, readers, exclusive, bumped, bumpLock, opened>>

RaiseFails(w) ==
    /\ \/ /\ pc[w] = "raiseWrite" /\ "raiseWrite" \in Faults
          /\ DevWriteFails("unclean", 1)
       \/ /\ pc[w] = "raiseFlush" /\ "raiseFlush" \in Faults
          /\ DevFlushFails
    /\ markLock' = NoOne
    /\ WriterReturns(w, "err")
    /\ UNCHANGED <<exclusive, bumped, bumpLock, marked, opened>>

\* Mutant of WriteData: the loop runs on while the cursor is at the end.
WriteDataPastEnd(w) ==
    /\ pc[w] = "dataWrite"
    /\ \E v \in Data : DevWrite("data", v)
    /\ left' = [left EXCEPT ![w] = @ - 1]
    /\ UNCHANGED <<pc, result, readers, exclusive, bumped, bumpLock, marked, markLock, opened>>

\* Mutant of WriteData: a chunk that allocates, and so flushes, leaves the cursor behind.
WriteDataUnmoved(w) ==
    /\ pc[w] = "dataWrite"
    /\ \E v \in Data : DevWrite("data", v)
    /\ \/ /\ left[w] > 1
          /\ \/ Goto(w, "dataWrite") /\ left' = [left EXCEPT ![w] = @ - 1]
             \/ Goto(w, "dataFlush") /\ UNCHANGED left
          /\ UNCHANGED <<result, readers>>
       \/ /\ left[w] = 1
          /\ WriterReturns(w, "ok")
    /\ UNCHANGED <<exclusive, bumped, bumpLock, marked, markLock, opened>>

\* The loop over chunks, as the device writes it makes: between two of them an
\* allocating chunk flushes, and the last one of a call is never flushed here.
WriteData(w) ==
    /\ pc[w] = "dataWrite"
    /\ \E v \in Data : DevWrite("data", v)
    /\ \/ /\ left[w] > 1
          /\ left' = [left EXCEPT ![w] = @ - 1]
          /\ Goto(w, "dataWrite") \/ Goto(w, "dataFlush")
          /\ UNCHANGED <<result, readers>>
       \/ /\ left[w] = 1
          /\ WriterReturns(w, "ok")
    /\ UNCHANGED <<exclusive, bumped, bumpLock, marked, markLock, opened>>

FlushData(w) ==
    /\ pc[w] = "dataFlush"
    /\ DevFlush
    /\ Goto(w, "dataWrite")
    /\ UNCHANGED <<left, result, sessionVars>>

\* A chunk may also be refused before its first device write: a pointer that
\* fails validation, a table that cannot be read.
DataFails(w) ==
    /\ \/ /\ pc[w] = "dataWrite"
          /\ UNCHANGED devVars
       \/ /\ pc[w] = "dataWrite" /\ "dataWrite" \in Faults
          /\ \E v \in Data : DevWriteFails("data", v)
       \/ /\ pc[w] = "dataFlush" /\ "dataFlush" \in Faults
          /\ DevFlushFails
    /\ WriterReturns(w, "err")
    /\ UNCHANGED <<exclusive, bumped, bumpLock, marked, markLock, opened>>

-----------------------------------------------------------------------------
(* flush *)

CallFlush(f) ==
    /\ pc[f] = "idle"
    /\ result' = [result EXCEPT ![f] = "none"]
    /\ Goto(f, "enter")
    /\ UNCHANGED <<devVars, left, sessionVars>>

\* Mutant of QueueFlush: unclean_marked is taken before the writes in flight are done.
QueueFlushMarked(f) ==
    /\ pc[f] = "enter"
    /\ markLock = NoOne
    /\ markLock' = f
    /\ Goto(f, "waiting")
    /\ UNCHANGED <<devVars, left, result, readers, exclusive, bumped, bumpLock, marked, opened>>

\* writes_in_flight.write(): from here on the lock may hold new writers off, then it
\* is taken once it is free.
QueueFlush(f) ==
    /\ pc[f] = "enter"
    /\ Goto(f, "waiting")
    /\ UNCHANGED <<devVars, left, result, sessionVars>>

\* Mutant of EnterFlush: flush does not wait for the writes in flight.
EnterFlushEarly(f) ==
    /\ pc[f] = "waiting"
    /\ exclusive = NoOne
    /\ exclusive' = f
    /\ Goto(f, "sync")
    /\ UNCHANGED <<devVars, left, result, readers, bumped, bumpLock, marked,
                   markLock, opened>>

EnterFlush(f) ==
    /\ pc[f] = "waiting"
    /\ readers = {}
    /\ exclusive = NoOne
    /\ exclusive' = f
    /\ Goto(f, "sync")
    /\ UNCHANGED <<devVars, left, result, readers, bumped, bumpLock, marked,
                   markLock, opened>>

Sync(f) ==
    /\ pc[f] = "sync"
    /\ DevFlush
    /\ Goto(f, "mark")
    /\ UNCHANGED <<left, result, sessionVars>>

SyncFails(f) ==
    /\ pc[f] = "sync" /\ "sync" \in Faults
    /\ DevFlushFails
    /\ FlusherReturns(f, "err")
    /\ UNCHANGED <<left, readers, bumped, bumpLock, marked, markLock, opened>>

CheckLower(f) ==
    /\ pc[f] = "mark"
    /\ markLock = NoOne
    /\ \/ /\ marked
          /\ markLock' = f
          /\ Goto(f, "lowerWrite")
          /\ UNCHANGED <<result, exclusive>>
       \/ /\ ~marked
          /\ markLock' = markLock
          /\ FlusherReturns(f, "ok")
    /\ UNCHANGED <<devVars, left, readers, bumped, bumpLock, marked, opened>>

WriteLower(f) ==
    /\ pc[f] = "lowerWrite"
    /\ DevWrite("unclean", 0)
    /\ Goto(f, "lowerFlush")
    /\ UNCHANGED <<left, result, sessionVars>>

FlushLower(f) ==
    /\ pc[f] = "lowerFlush"
    /\ DevFlush
    /\ marked' = FALSE
    /\ markLock' = NoOne
    /\ FlusherReturns(f, "ok")
    /\ UNCHANGED <<left, readers, bumped, bumpLock, opened>>

\* Either device call of the lowering fails: `?` returns with *marked still TRUE.
LowerFails(f) ==
    /\ \/ /\ pc[f] = "lowerWrite" /\ "lowerWrite" \in Faults
          /\ DevWriteFails("unclean", 0)
       \/ /\ pc[f] = "lowerFlush" /\ "lowerFlush" \in Faults
          /\ DevFlushFails
    /\ markLock' = NoOne
    /\ FlusherReturns(f, "err")
    /\ UNCHANGED <<left, readers, bumped, bumpLock, marked, opened>>

-----------------------------------------------------------------------------

\* The process dies and the image is opened again read-write.
Crash ==
    /\ Crashes
    /\ \E c \in CrashOutcomes : DevCrash(c)
    /\ opened' = disk'
    /\ pc' = [t \in Threads |-> "idle"]
    /\ left' = [w \in Writers |-> 0]
    /\ result' = [t \in Threads |-> "none"]
    /\ readers' = {}
    /\ exclusive' = NoOne
    /\ bumped' = FALSE
    /\ bumpLock' = NoOne
    /\ marked' = FALSE
    /\ markLock' = NoOne

WriterStep(w) ==
    \/ EnterWrite(w) \/ CheckBumped(w) \/ WriteCid(w) \/ FlushCid(w) \/ CidFails(w)
    \/ CheckMarked(w) \/ WriteRaise(w) \/ FlushRaise(w) \/ RaiseFails(w)
    \/ WriteData(w) \/ FlushData(w) \/ DataFails(w)

FlusherStep(f) ==
    \/ QueueFlush(f) \/ EnterFlush(f) \/ Sync(f) \/ SyncFails(f) \/ CheckLower(f)
    \/ WriteLower(f) \/ FlushLower(f) \/ LowerFails(f)

Next ==
    \/ \E w \in Writers : CallWrite(w) \/ WriterStep(w)
    \/ \E f \in Flushers : CallFlush(f) \/ FlusherStep(f)
    \/ Crash

Spec == Init /\ [][Next]_vars

CallStep(t) == (t \in Writers /\ WriterStep(t)) \/ (t \in Flushers /\ FlusherStep(t))

\* Thread t stands before a lock it cannot have now, or that may be kept from it: a
\* writer may or may not be held off by a flush that waits.
Waits(t) ==
    \/ /\ t \in Writers /\ pc[t] = "enter"
       /\ exclusive # NoOne \/ \E f \in Flushers : pc[f] = "waiting"
    \/ pc[t] = "bump" /\ bumpLock # NoOne
    \/ pc[t] = "mark" /\ markLock # NoOne
    \/ pc[t] = "waiting" /\ (readers # {} \/ exclusive # NoOne)

\* A thread inside a call that no lock may keep waiting goes on running. Nothing makes
\* a thread call, and nothing hands a lock to one that has it only now and then.
Fairness == \A t \in Threads : WF_vars(~Waits(t) /\ CallStep(t))

FairSpec == Spec /\ Fairness
-----------------------------------------------------------------------------
(* Properties *)

\* The current value of a location is always one a crash may leave there.
DeviceOK ==
    /\ disk \in Image
    /\ media \in [unclean : SUBSET {0, 1}, cid : SUBSET Cids, data : SUBSET Data]
    /\ \A l \in DOMAIN disk : disk[l] \in media[l]

TypeOK ==
    /\ DeviceOK
    /\ opened \in Image
    /\ pc \in [Threads -> WriterPC \cup FlusherPC]
    /\ \A w \in Writers : pc[w] \in WriterPC
    /\ \A f \in Flushers : pc[f] \in FlusherPC
    /\ left \in [Writers -> 0 .. MaxWrites]
    /\ result \in [Threads -> {"none", "ok", "err"}]
    /\ readers \in SUBSET Writers
    /\ exclusive \in Flushers \cup {NoOne}
    /\ bumped \in BOOLEAN
    /\ bumpLock \in Writers \cup {NoOne}
    /\ marked \in BOOLEAN
    /\ markLock \in Threads \cup {NoOne}

\* Threads moving data: past mark_modified and still inside write_at.
Moving(w) == pc[w] \in {"dataWrite", "dataFlush"}

\* uncleanShutdown stands over the whole window in which a crash would leave
\* the image half-written: while a write moves data, and while any data is
\* not yet durable, no crash can leave the marker down.
MarkerCoversWrites ==
    (\E w \in Writers : Moving(w)) \/ media["data"] # {disk["data"]}
        => media["unclean"] = {1}

\* The content identifier moves before the content: no crash leaves data
\* other than what this session opened under the CID it opened.
ContentIdMovesFirst ==
    HasCid /\ media["data"] # {opened["data"]} => opened["cid"] \notin media["cid"]

\* The device calls that bump_content_id, mark_modified and flush make themselves.
EnvelopePlaces == {"cidWrite", "cidFlush", "raiseWrite", "raiseFlush", "sync", "lowerWrite", "lowerFlush"}

\* Two writers are never one in the envelope's device calls and the other in its loop
\* over chunks, though both hold writes_in_flight shared, and no flush is in its own
\* beside either: from where a loop stands, the device is flushed by loops alone.
EnvelopeIsApart ==
    (\E t \in Threads : pc[t] \in EnvelopePlaces) => \A w \in Writers : ~Moving(w)

\* flush is the durability barrier: when it returns Ok nothing is left in the
\* device's cache, and no write is half done.
FlushIsABarrier ==
    [][\A f \in Flushers :
          result[f] = "none" /\ result'[f] = "ok" =>
            /\ \A l \in DOMAIN disk : media'[l] = {disk'[l]}
            /\ \A w \in Writers : ~Moving(w)]_vars

\* A clean flush lowers the marker: after it the marker stands only if the
\* image was opened with it standing.
FlushLowersMarker ==
    [][\A f \in Flushers :
          result[f] = "none" /\ result'[f] = "ok" =>
            (disk'["unclean"] = 1 => opened["unclean"] = 1)]_vars

\* The CID is bumped once per session, not once per write: after one thread's
\* bump succeeded nothing changes the CID again, not even a crash.
BumpedOnce ==
    [][bumped => disk'["cid"] = disk["cid"]]_vars

\* The three locks are never taken in a circle: flush takes writes_in_flight and then
\* unclean_marked, which writers take inside it, and whenever a thread waits there is
\* one in a call that does not.
NoDeadlock == \A t \in Threads : Waits(t) => \E u \in Threads : pc[u] # "idle" /\ ~Waits(u)

\* The most steps thread t's call has still to make.
StepsLeft(t) ==
    [enter |-> 7, waiting |-> 6, bump |-> 6, cidWrite |-> 5, cidFlush |-> 4, sync |-> 4,
     mark |-> 3, raiseWrite |-> 2, lowerWrite |-> 2, raiseFlush |-> 1, lowerFlush |-> 1,
     dataWrite |-> 0, dataFlush |-> 1, idle |-> 0][pc[t]]
    + IF t \in Writers THEN 2 * left[t] ELSE 0

\* No call goes round in a circle, neither alone nor with others' help: each step of one,
\* failed or not, brings it nearer to its end.
CallsAreFinite ==
    [][\A t \in Threads : CallStep(t) => StepsLeft(t)' < StepsLeft(t)]_vars

\* Whatever fails and whatever the lock's policy, calls under way go on returning. So
\* every call of write_at and flush returns, if only after others stop calling; that a
\* flush returns beside a stream of new writers is the lock's to promise, not the code's.
CallsReturn ==
    \/ []<>(\A t \in Threads : pc[t] = "idle")
    \/ []<><<\E t \in Threads : pc[t] # "idle" /\ pc'[t] = "idle">>_vars
=============================================================================
