------------------------- MODULE WriteSession_proof -------------------------
(***************************************************************************)
(* WriteSession is correct for every set of threads, every set of contents *)
(* and identifiers and every number of device writes per call.             *)
(***************************************************************************)
EXTENDS WriteSession, TLAPS

\* The three locks are held exactly by the threads whose pc says so, and the
\* reader-writer lock excludes.
LockInv ==
    /\ \A w \in Writers : w \in readers <=> pc[w] \notin {"idle", "enter"}
    /\ \A f \in Flushers :
          exclusive = f <=> pc[f] \in {"sync", "mark", "lowerWrite", "lowerFlush"}
    /\ exclusive # NoOne => readers = {}
    /\ \A w \in Writers : markLock = w <=> pc[w] \in {"raiseWrite", "raiseFlush"}
    /\ \A f \in Flushers : markLock = f <=> pc[f] \in {"lowerWrite", "lowerFlush"}
    /\ \A w \in Writers : bumpLock = w <=> pc[w] \in {"cidWrite", "cidFlush"}

\* Memory and device agree about the marker. The exception, a flusher between
\* the two calls that lower it, comes with all data durable and no writer in.
MarkerInv ==
    /\ marked => media["unclean"] = {1} \/ \E f \in Flushers : pc[f] = "lowerFlush"
    /\ \A w \in Writers : Moving(w) => marked
    /\ \A w \in Writers : pc[w] \in {"raiseWrite", "raiseFlush"} => ~marked
    /\ \A w \in Writers : pc[w] = "raiseFlush" => disk["unclean"] = 1
    /\ media["data"] # {disk["data"]} => marked
    /\ \A f \in Flushers :
          pc[f] \in {"mark", "lowerWrite", "lowerFlush"} => media["data"] = {disk["data"]}

\* Until a bump succeeds the data is the data that was opened; once one has,
\* no crash can bring the opened CID back.
ContentIdInv ==
    HasCid =>
        /\ bumped => opened["cid"] \notin media["cid"]
        /\ media["data"] # {opened["data"]} => bumped
        /\ \A w \in Writers : pc[w] \in {"cidWrite", "cidFlush"} => ~bumped
        /\ \A w \in Writers :
              pc[w] \in {"mark", "raiseWrite", "raiseFlush", "dataWrite", "dataFlush"}
                => bumped
        /\ \A w \in Writers : pc[w] = "cidFlush" => disk["cid"] # opened["cid"]
        /\ ~bumped /\ (\A w \in Writers : pc[w] # "cidFlush")
              => media["cid"] = {opened["cid"]}
-----------------------------------------------------------------------------
(* The device *)

Loc == {"unclean", "cid", "data"}

\* What location l may hold.
Content(l) == IF l = "unclean" THEN {0, 1} ELSE IF l = "cid" THEN Cids ELSE Data

LEMMA DeviceDomain ==
    ASSUME DeviceOK
    PROVE  /\ DOMAIN disk = Loc /\ DOMAIN media = Loc
           /\ disk = [l \in Loc |-> disk[l]]
           /\ \A l \in Loc : disk[l] \in Content(l) /\ media[l] \in SUBSET Content(l)
  BY DEF DeviceOK, Image, Loc, Content

LEMMA FromFunctions ==
    ASSUME NEW d, NEW m,
           d = [l \in Loc |-> d[l]], m = [l \in Loc |-> m[l]],
           \A l \in Loc : d[l] \in Content(l) /\ m[l] \in SUBSET Content(l)
    PROVE  /\ d \in Image
           /\ m \in [unclean : SUBSET {0, 1}, cid : SUBSET Cids, data : SUBSET Data]
  BY DEF Image, Loc, Content

LEMMA WriteEffect ==
    ASSUME DeviceOK, NEW l \in Loc, NEW v \in Content(l), DevWrite(l, v)
    PROVE  /\ DeviceOK'
           /\ disk'[l] = v /\ media'[l] = media[l] \cup {v}
           /\ \A k \in Loc \ {l} : disk'[k] = disk[k] /\ media'[k] = media[k]
  <1>1. /\ disk'[l] = v /\ media'[l] = media[l] \cup {v}
        /\ \A k \in Loc \ {l} : disk'[k] = disk[k] /\ media'[k] = media[k]
        /\ disk' = [k \in Loc |-> disk'[k]] /\ media' = [k \in Loc |-> media'[k]]
    BY DeviceDomain DEF DevWrite, DeviceOK
  <1>2. \A k \in Loc : disk'[k] \in Content(k) /\ media'[k] \in SUBSET Content(k)
    BY <1>1, DeviceDomain
  <1>3. \A k \in Loc : disk'[k] \in media'[k]
    BY <1>1, DeviceDomain DEF DeviceOK
  <1>4. QED
    BY <1>1, <1>2, <1>3, FromFunctions DEF DeviceOK

LEMMA FlushEffect ==
    ASSUME DeviceOK, DevFlush
    PROVE  DeviceOK' /\ disk' = disk /\ \A k \in Loc : media'[k] = {disk[k]}
  <1>1. /\ disk' = disk /\ media' = [k \in Loc |-> {disk[k]}]
        /\ \A k \in Loc : media'[k] = {disk[k]}
    BY DeviceDomain DEF DevFlush, Locations
  <1>2. \A k \in Loc : disk'[k] \in Content(k) /\ media'[k] \in SUBSET Content(k)
    BY <1>1, DeviceDomain
  <1>3. QED
    BY <1>1, <1>2, FromFunctions, DeviceDomain DEF DeviceOK

LEMMA CrashEffect ==
    ASSUME DeviceOK, NEW c, DevCrash(c)
    PROVE  /\ DeviceOK'
           /\ \A k \in Loc : disk'[k] = c[k] /\ media'[k] = {c[k]} /\ c[k] \in media[k]
  <1>1. /\ disk' = [k \in Loc |-> c[k]] /\ media' = [k \in Loc |-> {c[k]}]
        /\ \A k \in Loc : c[k] \in media[k]
    BY DeviceDomain DEF DevCrash, Locations
  <1>2. \A k \in Loc : disk'[k] \in Content(k) /\ media'[k] \in SUBSET Content(k)
    BY <1>1, DeviceDomain
  <1>3. QED
    BY <1>1, <1>2, FromFunctions DEF DeviceOK

-----------------------------------------------------------------------------
(* Types *)

LEMMA TypeInit == Init => TypeOK
  <1> SUFFICES ASSUME Init PROVE TypeOK
    OBVIOUS
  <1>1. DeviceOK
    BY DEF Init, DeviceOK, Image
  <1>2. /\ pc \in [Threads -> WriterPC \cup FlusherPC]
        /\ \A w \in Writers : pc[w] \in WriterPC
        /\ \A f \in Flushers : pc[f] \in FlusherPC
        /\ result \in [Threads -> {"none", "ok", "err"}]
    BY DEF Init, Threads, WriterPC, FlusherPC
  <1>3. left \in [Writers -> 0 .. MaxWrites]
    BY SessionAssumption DEF Init
  <1>4. QED
    BY <1>1, <1>2, <1>3 DEF Init, TypeOK

LEMMA WriterTypes ==
    ASSUME TypeOK, NEW w \in Writers, CallWrite(w) \/ WriterStep(w)
    PROVE  TypeOK'
  <1> USE SessionAssumption DEF TypeOK, Threads, WriterPC, FlusherPC, Goto,
          WriterReturns, sessionVars, devVars
  <1>0. /\ w \in Threads /\ w \notin Flushers
        /\ UNCHANGED devVars => DeviceOK'
    BY DEF DeviceOK
  <1>1. CASE CallWrite(w)
    <2>1. left' \in [Writers -> 0 .. MaxWrites]
      BY <1>1 DEF CallWrite
    <2>2. QED
      BY <1>0, <1>1, <2>1 DEF CallWrite
  <1>2. CASE EnterWrite(w)
    BY <1>0, <1>2 DEF EnterWrite
  <1>3. CASE CheckBumped(w)
    <2>1. /\ bumped' \in BOOLEAN
          /\ bumpLock' \in Writers \cup {NoOne}
          /\ pc' = [pc EXCEPT ![w] = "mark"] \/ pc' = [pc EXCEPT ![w] = "cidWrite"]
      BY <1>3 DEF CheckBumped
    <2>2. UNCHANGED <<devVars, left, result, readers, exclusive, marked, markLock, opened>>
      BY <1>3 DEF CheckBumped
    <2>3. QED
      BY <1>0, <2>1, <2>2
  <1>4. CASE WriteCid(w)
    <2>1. DeviceOK'
      BY <1>4, WriteEffect DEF WriteCid, Loc, Content
    <2>2. QED
      BY <1>0, <1>4, <2>1 DEF WriteCid
  <1>5. CASE FlushCid(w)
    <2>1. DeviceOK'
      BY <1>5, FlushEffect DEF FlushCid
    <2>2. QED
      BY <1>0, <1>5, <2>1 DEF FlushCid
  <1>6. CASE CidFails(w)
    <2>1. DeviceOK'
      BY <1>0, <1>6, WriteEffect DEF CidFails, Loc, Content, DevWriteFails, DevFlushFails
    <2>2. QED
      BY <1>0, <1>6, <2>1 DEF CidFails
  <1>7. CASE CheckMarked(w)
    BY <1>0, <1>7 DEF CheckMarked
  <1>8. CASE WriteRaise(w)
    <2>1. DeviceOK'
      BY <1>8, WriteEffect DEF WriteRaise, Loc, Content
    <2>2. QED
      BY <1>0, <1>8, <2>1 DEF WriteRaise
  <1>9. CASE FlushRaise(w)
    <2>1. DeviceOK'
      BY <1>9, FlushEffect DEF FlushRaise
    <2>2. QED
      BY <1>0, <1>9, <2>1 DEF FlushRaise
  <1>10. CASE RaiseFails(w)
    <2>1. DeviceOK'
      BY <1>0, <1>10, WriteEffect DEF RaiseFails, Loc, Content, DevWriteFails, DevFlushFails
    <2>2. QED
      BY <1>0, <1>10, <2>1 DEF RaiseFails
  <1>11. CASE WriteData(w)
    <2>1. DeviceOK'
      BY <1>11, WriteEffect DEF WriteData, Loc, Content
    <2>2. QED
      BY <1>0, <1>11, <2>1 DEF WriteData
  <1>12. CASE FlushData(w)
    <2>1. DeviceOK'
      BY <1>12, FlushEffect DEF FlushData
    <2>2. QED
      BY <1>0, <1>12, <2>1 DEF FlushData
  <1>13. CASE DataFails(w)
    <2>1. DeviceOK'
      BY <1>0, <1>13, WriteEffect DEF DataFails, Loc, Content, DevWriteFails, DevFlushFails
    <2>2. QED
      BY <1>0, <1>13, <2>1 DEF DataFails
  <1>14. QED
    BY <1>1, <1>2, <1>3, <1>4, <1>5, <1>6, <1>7, <1>8, <1>9, <1>10, <1>11,
       <1>12, <1>13 DEF WriterStep

LEMMA FlusherTypes ==
    ASSUME TypeOK, NEW f \in Flushers, CallFlush(f) \/ FlusherStep(f)
    PROVE  TypeOK'
  <1> USE SessionAssumption DEF TypeOK, Threads, WriterPC, FlusherPC, Goto,
          FlusherReturns, sessionVars, devVars
  <1>0. /\ f \in Threads /\ f \notin Writers
        /\ UNCHANGED devVars => DeviceOK'
    BY DEF DeviceOK
  <1>1. CASE CallFlush(f) \/ QueueFlush(f) \/ EnterFlush(f)
    BY <1>0, <1>1 DEF CallFlush, QueueFlush, EnterFlush
  <1>2. CASE Sync(f)
    <2>1. DeviceOK'
      BY <1>2, FlushEffect DEF Sync
    <2>2. QED
      BY <1>0, <1>2, <2>1 DEF Sync
  <1>3. CASE SyncFails(f)
    BY <1>0, <1>3 DEF SyncFails, DevFlushFails
  <1>4. CASE CheckLower(f)
    BY <1>0, <1>4 DEF CheckLower
  <1>5. CASE WriteLower(f)
    <2>1. DeviceOK'
      BY <1>5, WriteEffect DEF WriteLower, Loc, Content
    <2>2. QED
      BY <1>0, <1>5, <2>1 DEF WriteLower
  <1>6. CASE FlushLower(f)
    <2>1. DeviceOK'
      BY <1>6, FlushEffect DEF FlushLower
    <2>2. QED
      BY <1>0, <1>6, <2>1 DEF FlushLower
  <1>7. CASE LowerFails(f)
    <2>1. DeviceOK'
      BY <1>0, <1>7, WriteEffect DEF LowerFails, Loc, Content, DevWriteFails, DevFlushFails
    <2>2. QED
      BY <1>0, <1>7, <2>1 DEF LowerFails
  <1>8. QED
    BY <1>1, <1>2, <1>3, <1>4, <1>5, <1>6, <1>7 DEF FlusherStep

LEMMA CrashTypes == TypeOK /\ Crash => TypeOK'
  <1> SUFFICES ASSUME TypeOK, Crash PROVE TypeOK'
    OBVIOUS
  <1>1. PICK c : DevCrash(c) /\ opened' = disk'
    BY DEF Crash
  <1>2. DeviceOK' /\ opened' = disk'
    BY <1>1, CrashEffect DEF TypeOK
  <1>3. opened' \in Image
    BY <1>2 DEF DeviceOK
  <1>4. /\ pc' \in [Threads -> WriterPC \cup FlusherPC]
        /\ \A w \in Writers : pc'[w] \in WriterPC
        /\ \A f \in Flushers : pc'[f] \in FlusherPC
        /\ result' \in [Threads -> {"none", "ok", "err"}]
    BY DEF Crash, Threads, WriterPC, FlusherPC
  <1>5. left' \in [Writers -> 0 .. MaxWrites]
    BY SessionAssumption DEF Crash
  <1>6. QED
    BY <1>2, <1>3, <1>4, <1>5 DEF Crash, TypeOK

\* Every variable of the write envelope keeps its type, and the current value
\* of every device location is one a crash may leave (write_at, mark_modified,
\* bump_content_id, flush and reopening after a crash).
THEOREM TypeCorrect == Spec => []TypeOK
  <1>1. TypeOK /\ [Next]_vars => TypeOK'
    <2> SUFFICES ASSUME TypeOK, [Next]_vars PROVE TypeOK'
      OBVIOUS
    <2>1. CASE UNCHANGED vars
      BY <2>1 DEF TypeOK, DeviceOK, vars, sessionVars
    <2>2. CASE Next
      BY <2>2, WriterTypes, FlusherTypes, CrashTypes DEF Next
    <2>3. QED
      BY <2>1, <2>2
  <1>2. QED
    BY <1>1, TypeInit, PTL DEF Spec
-----------------------------------------------------------------------------
(* Locks *)

LEMMA LockInit == Init => LockInv
  BY SessionAssumption DEF Init, LockInv, Threads

LEMMA WriterLocks ==
    ASSUME TypeOK, LockInv, NEW w \in Writers, CallWrite(w) \/ WriterStep(w)
    PROVE  LockInv'
  <1> USE SessionAssumption DEF TypeOK, LockInv, Threads, Goto, WriterReturns, sessionVars
  <1>1. CASE CallWrite(w)
    BY <1>1 DEF CallWrite
  <1>2. CASE EnterWrite(w)
    BY <1>2 DEF EnterWrite
  <1>3. CASE CheckBumped(w)
    BY <1>3 DEF CheckBumped
  <1>4. CASE WriteCid(w)
    BY <1>4 DEF WriteCid
  <1>5. CASE FlushCid(w)
    BY <1>5 DEF FlushCid
  <1>6. CASE CidFails(w)
    BY <1>6 DEF CidFails
  <1>7. CASE CheckMarked(w)
    BY <1>7 DEF CheckMarked
  <1>8. CASE WriteRaise(w)
    BY <1>8 DEF WriteRaise
  <1>9. CASE FlushRaise(w)
    BY <1>9 DEF FlushRaise
  <1>10. CASE RaiseFails(w)
    BY <1>10 DEF RaiseFails
  <1>11. CASE WriteData(w)
    BY <1>11 DEF WriteData
  <1>12. CASE FlushData(w)
    BY <1>12 DEF FlushData
  <1>13. CASE DataFails(w)
    BY <1>13 DEF DataFails
  <1>14. QED
    BY <1>1, <1>2, <1>3, <1>4, <1>5, <1>6, <1>7, <1>8, <1>9, <1>10, <1>11, <1>12, <1>13 DEF WriterStep

LEMMA FlusherLocks ==
    ASSUME TypeOK, LockInv, NEW f \in Flushers, CallFlush(f) \/ FlusherStep(f)
    PROVE  LockInv'
  <1> USE SessionAssumption DEF TypeOK, LockInv, Threads, Goto, FlusherReturns, sessionVars
  <1>1. CASE CallFlush(f)
    BY <1>1 DEF CallFlush
  <1>2. CASE QueueFlush(f)
    BY <1>2 DEF QueueFlush
  <1>3. CASE EnterFlush(f)
    BY <1>3 DEF EnterFlush
  <1>4. CASE Sync(f)
    BY <1>4 DEF Sync
  <1>5. CASE SyncFails(f)
    BY <1>5 DEF SyncFails
  <1>6. CASE CheckLower(f)
    BY <1>6 DEF CheckLower
  <1>7. CASE WriteLower(f)
    BY <1>7 DEF WriteLower
  <1>8. CASE FlushLower(f)
    BY <1>8 DEF FlushLower
  <1>9. CASE LowerFails(f)
    BY <1>9 DEF LowerFails
  <1>10. QED
    BY <1>1, <1>2, <1>3, <1>4, <1>5, <1>6, <1>7, <1>8, <1>9 DEF FlusherStep

LEMMA CrashLocks == Crash => LockInv'
  BY SessionAssumption DEF Crash, LockInv, Threads
-----------------------------------------------------------------------------
(* The marker *)

\* The device calls that lower the marker do not fail.
LowerIsReliable == Faults \cap {"lowerWrite", "lowerFlush"} = {}

LEMMA MarkerInit == Init => MarkerInv
  BY SessionAssumption DEF Init, MarkerInv, Moving, Threads, Image

LEMMA WriterMarker ==
    ASSUME TypeOK, LockInv, MarkerInv, NEW w \in Writers, CallWrite(w) \/ WriterStep(w)
    PROVE  MarkerInv'
  <1> USE SessionAssumption DEF TypeOK, LockInv, MarkerInv, Moving, Threads, Goto,
          WriterReturns, sessionVars, devVars
  <1>0. w \in Threads /\ w \notin Flushers
    OBVIOUS
  <1>1. CASE CallWrite(w)
    BY <1>0, <1>1 DEF CallWrite
  <1>2. CASE EnterWrite(w)
    BY <1>0, <1>2 DEF EnterWrite
  <1>3. CASE CheckBumped(w)
    BY <1>0, <1>3 DEF CheckBumped
  <1>4. CASE WriteCid(w)
    <2>1. \A k \in Loc \ {"cid"} : disk'[k] = disk[k] /\ media'[k] = media[k]
      BY <1>0, <1>4, WriteEffect DEF WriteCid, Loc, Content, DevWriteFails, DevFlushFails
    <2>2. QED
      BY <1>0, <1>4, <2>1 DEF WriteCid, Loc
  <1>5. CASE FlushCid(w)
    <2>1. disk' = disk /\ \A k \in Loc : media'[k] = {disk[k]}
      BY <1>5, FlushEffect DEF FlushCid
    <2>2. QED
      BY <1>0, <1>5, <2>1 DEF FlushCid, Loc, DeviceOK, Image
  <1>6. CASE CidFails(w)
    <2>1. \A k \in Loc \ {"cid"} : disk'[k] = disk[k] /\ media'[k] = media[k]
      BY <1>0, <1>6, WriteEffect DEF CidFails, Loc, Content, DevWriteFails, DevFlushFails
    <2>2. QED
      BY <1>0, <1>6, <2>1 DEF CidFails, Loc
  <1>7. CASE CheckMarked(w)
    BY <1>0, <1>7 DEF CheckMarked
  <1>8. CASE WriteRaise(w)
    <2>1. /\ disk'["unclean"] = 1
          /\ \A k \in Loc \ {"unclean"} : disk'[k] = disk[k] /\ media'[k] = media[k]
      BY <1>8, WriteEffect DEF WriteRaise, Loc, Content
    <2>2. QED
      BY <1>0, <1>8, <2>1 DEF WriteRaise, Loc
  <1>9. CASE FlushRaise(w)
    <2>1. disk' = disk /\ \A k \in Loc : media'[k] = {disk[k]}
      BY <1>9, FlushEffect DEF FlushRaise
    <2>2. QED
      BY <1>0, <1>9, <2>1 DEF FlushRaise, Loc, DeviceOK, Image
  <1>10. CASE RaiseFails(w)
    <2>1. \A k \in Loc \ {"unclean"} : disk'[k] = disk[k] /\ media'[k] = media[k]
      BY <1>0, <1>10, WriteEffect DEF RaiseFails, Loc, Content, DevWriteFails, DevFlushFails
    <2>2. QED
      BY <1>0, <1>10, <2>1 DEF RaiseFails, Loc
  <1>11. CASE WriteData(w)
    <2>1. \A k \in Loc \ {"data"} : disk'[k] = disk[k] /\ media'[k] = media[k]
      BY <1>0, <1>11, WriteEffect DEF WriteData, Loc, Content, DevWriteFails, DevFlushFails
    <2>2. QED
      BY <1>0, <1>11, <2>1 DEF WriteData, Loc
  <1>12. CASE FlushData(w)
    <2>1. disk' = disk /\ \A k \in Loc : media'[k] = {disk[k]}
      BY <1>12, FlushEffect DEF FlushData
    <2>2. QED
      BY <1>0, <1>12, <2>1 DEF FlushData, Loc, DeviceOK, Image
  <1>13. CASE DataFails(w)
    <2>1. \A k \in Loc \ {"data"} : disk'[k] = disk[k] /\ media'[k] = media[k]
      BY <1>0, <1>13, WriteEffect DEF DataFails, Loc, Content, DevWriteFails, DevFlushFails
    <2>2. QED
      BY <1>0, <1>13, <2>1 DEF DataFails, Loc
  <1>14. QED
    BY <1>1, <1>2, <1>3, <1>4, <1>5, <1>6, <1>7, <1>8, <1>9, <1>10, <1>11, <1>12, <1>13 DEF WriterStep

LEMMA FlusherMarker ==
    ASSUME TypeOK, LockInv, MarkerInv, LowerIsReliable,
           NEW f \in Flushers, CallFlush(f) \/ FlusherStep(f)
    PROVE  MarkerInv'
  <1> USE SessionAssumption DEF TypeOK, LockInv, MarkerInv, Moving, Threads, Goto,
          FlusherReturns, sessionVars, devVars
  <1>0. f \in Threads /\ f \notin Writers
    OBVIOUS
  <1>1. CASE CallFlush(f)
    BY <1>0, <1>1 DEF CallFlush
  <1>2. CASE QueueFlush(f)
    BY <1>0, <1>2 DEF QueueFlush
  <1>3. CASE EnterFlush(f)
    BY <1>0, <1>3 DEF EnterFlush
  <1>4. CASE Sync(f)
    <2>1. disk' = disk /\ \A k \in Loc : media'[k] = {disk[k]}
      BY <1>4, FlushEffect DEF Sync
    <2>2. QED
      BY <1>0, <1>4, <2>1 DEF Sync, Loc, DeviceOK, Image
  <1>5. CASE SyncFails(f)
    BY <1>0, <1>5 DEF SyncFails, DevFlushFails
  <1>6. CASE CheckLower(f)
    BY <1>0, <1>6 DEF CheckLower
  <1>7. CASE WriteLower(f)
    <2>1. \A k \in Loc \ {"unclean"} : disk'[k] = disk[k] /\ media'[k] = media[k]
      BY <1>0, <1>7, WriteEffect DEF WriteLower, Loc, Content, DevWriteFails, DevFlushFails
    <2>2. QED
      BY <1>0, <1>7, <2>1 DEF WriteLower, Loc
  <1>8. CASE FlushLower(f)
    <2>1. disk' = disk /\ \A k \in Loc : media'[k] = {disk[k]}
      BY <1>8, FlushEffect DEF FlushLower
    <2>2. QED
      BY <1>0, <1>8, <2>1 DEF FlushLower, Loc, DeviceOK, Image
  <1>9. CASE LowerFails(f)
    BY <1>9 DEF LowerFails, LowerIsReliable
  <1>10. QED
    BY <1>1, <1>2, <1>3, <1>4, <1>5, <1>6, <1>7, <1>8, <1>9 DEF FlusherStep

LEMMA CrashMarker == TypeOK /\ Crash => MarkerInv'
  <1> SUFFICES ASSUME TypeOK, Crash PROVE MarkerInv'
    OBVIOUS
  <1>1. PICK c : DevCrash(c)
    BY DEF Crash
  <1>2. disk'["data"] = c["data"] /\ media'["data"] = {c["data"]}
    BY <1>1, CrashEffect DEF TypeOK, Loc
  <1>3. QED
    BY <1>2, SessionAssumption DEF Crash, MarkerInv, Moving, Threads

\* Whatever write is moving data and whatever data is not durable yet, no
\* crash leaves uncleanShutdown lowered: mark_modified raises it before the
\* data moves and flush lowers it only behind writes_in_flight, provided the
\* two device calls of the lowering do not fail.
THEOREM MarkerIsSafe == LowerIsReliable => (Spec => []MarkerCoversWrites)
  <1> SUFFICES ASSUME LowerIsReliable PROVE Spec => []MarkerCoversWrites
    OBVIOUS
  <1> DEFINE Inv == LockInv /\ MarkerInv
  <1>1. Init => Inv
    BY LockInit, MarkerInit
  <1>2. TypeOK /\ Inv /\ [Next]_vars => Inv'
    <2> SUFFICES ASSUME TypeOK, Inv, [Next]_vars PROVE Inv'
      OBVIOUS
    <2>1. CASE UNCHANGED vars
      BY <2>1 DEF LockInv, MarkerInv, Moving, vars, sessionVars
    <2>2. CASE \E w \in Writers : CallWrite(w) \/ WriterStep(w)
      BY <2>2, WriterLocks, WriterMarker
    <2>3. CASE \E f \in Flushers : CallFlush(f) \/ FlusherStep(f)
      BY <2>3, FlusherLocks, FlusherMarker
    <2>4. CASE Crash
      BY <2>4, CrashLocks, CrashMarker
    <2>5. QED
      BY <2>1, <2>2, <2>3, <2>4 DEF Next
  <1>3. TypeOK /\ Inv => MarkerCoversWrites
    BY SessionAssumption DEF TypeOK, LockInv, MarkerInv, MarkerCoversWrites, Moving
  <1>4. QED
    BY <1>1, <1>2, <1>3, TypeCorrect, PTL DEF Spec
-----------------------------------------------------------------------------
(* The content identifier *)

\* The device calls of bump_content_id do not fail.
CidIsReliable == Faults \cap {"cidWrite", "cidFlush"} = {}

LEMMA ContentIdInit == Init => ContentIdInv
  BY SessionAssumption DEF Init, ContentIdInv, Threads, Image

LEMMA WriterContentId ==
    ASSUME TypeOK, LockInv, ContentIdInv, CidIsReliable, HasCid,
           NEW w \in Writers, CallWrite(w) \/ WriterStep(w)
    PROVE  ContentIdInv'
  <1> USE SessionAssumption DEF TypeOK, LockInv, ContentIdInv, Threads, Goto,
          WriterReturns, sessionVars, devVars
  <1>0. w \in Threads /\ w \notin Flushers
    OBVIOUS
  <1>1. CASE CallWrite(w)
    BY <1>0, <1>1 DEF CallWrite
  <1>2. CASE EnterWrite(w)
    BY <1>0, <1>2 DEF EnterWrite
  <1>3. CASE CheckBumped(w)
    BY <1>0, <1>3 DEF CheckBumped
  <1>4. CASE WriteCid(w)
    <2>1. PICK c \in Cids \ {disk["cid"]} : DevWrite("cid", c)
      BY <1>4 DEF WriteCid
    <2>2. /\ disk'["cid"] = c /\ media'["data"] = media["data"]
      BY <2>1, WriteEffect DEF Loc, Content
    <2>3. media["cid"] = {opened["cid"]} /\ disk["cid"] \in media["cid"]
      BY <1>4, DeviceDomain DEF WriteCid, DeviceOK, Loc
    <2>4. QED
      BY <1>0, <1>4, <2>2, <2>3 DEF WriteCid
  <1>5. CASE FlushCid(w)
    <2>1. disk' = disk /\ \A k \in Loc : media'[k] = {disk[k]}
      BY <1>5, FlushEffect DEF FlushCid
    <2>2. \A k \in Loc : disk[k] \in media[k]
      BY DeviceDomain DEF DeviceOK
    <2>3. QED
      BY <1>0, <1>5, <2>1, <2>2 DEF FlushCid, Loc
  <1>6. CASE CidFails(w)
    BY <1>6 DEF CidFails, CidIsReliable
  <1>7. CASE CheckMarked(w)
    BY <1>0, <1>7 DEF CheckMarked
  <1>8. CASE WriteRaise(w)
    <2>1. \A k \in Loc \ {"unclean"} : disk'[k] = disk[k] /\ media'[k] = media[k]
      BY <1>0, <1>8, WriteEffect DEF WriteRaise, Loc, Content, DevWriteFails, DevFlushFails
    <2>2. QED
      BY <1>0, <1>8, <2>1 DEF WriteRaise, Loc
  <1>9. CASE FlushRaise(w)
    <2>1. disk' = disk /\ \A k \in Loc : media'[k] = {disk[k]}
      BY <1>9, FlushEffect DEF FlushRaise
    <2>2. \A k \in Loc : disk[k] \in media[k]
      BY DeviceDomain DEF DeviceOK
    <2>3. QED
      BY <1>0, <1>9, <2>1, <2>2 DEF FlushRaise, Loc
  <1>10. CASE RaiseFails(w)
    <2>1. \A k \in Loc \ {"unclean"} : disk'[k] = disk[k] /\ media'[k] = media[k]
      BY <1>0, <1>10, WriteEffect DEF RaiseFails, Loc, Content, DevWriteFails, DevFlushFails
    <2>2. QED
      BY <1>0, <1>10, <2>1 DEF RaiseFails, Loc
  <1>11. CASE WriteData(w)
    <2>1. \A k \in Loc \ {"data"} : disk'[k] = disk[k] /\ media'[k] = media[k]
      BY <1>0, <1>11, WriteEffect DEF WriteData, Loc, Content, DevWriteFails, DevFlushFails
    <2>2. QED
      BY <1>0, <1>11, <2>1 DEF WriteData, Loc
  <1>12. CASE FlushData(w)
    <2>1. disk' = disk /\ \A k \in Loc : media'[k] = {disk[k]}
      BY <1>12, FlushEffect DEF FlushData
    <2>2. \A k \in Loc : disk[k] \in media[k]
      BY DeviceDomain DEF DeviceOK
    <2>3. QED
      BY <1>0, <1>12, <2>1, <2>2 DEF FlushData, Loc
  <1>13. CASE DataFails(w)
    <2>1. \A k \in Loc \ {"data"} : disk'[k] = disk[k] /\ media'[k] = media[k]
      BY <1>0, <1>13, WriteEffect DEF DataFails, Loc, Content, DevWriteFails, DevFlushFails
    <2>2. QED
      BY <1>0, <1>13, <2>1 DEF DataFails, Loc
  <1>14. QED
    BY <1>1, <1>2, <1>3, <1>4, <1>5, <1>6, <1>7, <1>8, <1>9, <1>10, <1>11, <1>12, <1>13 DEF WriterStep

LEMMA FlusherContentId ==
    ASSUME TypeOK, LockInv, ContentIdInv, HasCid,
           NEW f \in Flushers, CallFlush(f) \/ FlusherStep(f)
    PROVE  ContentIdInv'
  <1> USE SessionAssumption DEF TypeOK, LockInv, ContentIdInv, Threads, Goto,
          FlusherReturns, sessionVars, devVars
  <1>0. f \in Threads /\ f \notin Writers
    OBVIOUS
  <1>1. CASE CallFlush(f)
    BY <1>0, <1>1 DEF CallFlush
  <1>2. CASE QueueFlush(f)
    BY <1>0, <1>2 DEF QueueFlush
  <1>3. CASE EnterFlush(f)
    BY <1>0, <1>3 DEF EnterFlush
  <1>4. CASE Sync(f)
    <2>1. disk' = disk /\ \A k \in Loc : media'[k] = {disk[k]}
      BY <1>4, FlushEffect DEF Sync
    <2>2. \A k \in Loc : disk[k] \in media[k]
      BY DeviceDomain DEF DeviceOK
    <2>3. QED
      BY <1>0, <1>4, <2>1, <2>2 DEF Sync, Loc
  <1>5. CASE SyncFails(f)
    BY <1>0, <1>5 DEF SyncFails, DevFlushFails
  <1>6. CASE CheckLower(f)
    BY <1>0, <1>6 DEF CheckLower
  <1>7. CASE WriteLower(f)
    <2>1. \A k \in Loc \ {"unclean"} : disk'[k] = disk[k] /\ media'[k] = media[k]
      BY <1>0, <1>7, WriteEffect DEF WriteLower, Loc, Content, DevWriteFails, DevFlushFails
    <2>2. QED
      BY <1>0, <1>7, <2>1 DEF WriteLower, Loc
  <1>8. CASE FlushLower(f)
    <2>1. disk' = disk /\ \A k \in Loc : media'[k] = {disk[k]}
      BY <1>8, FlushEffect DEF FlushLower
    <2>2. \A k \in Loc : disk[k] \in media[k]
      BY DeviceDomain DEF DeviceOK
    <2>3. QED
      BY <1>0, <1>8, <2>1, <2>2 DEF FlushLower, Loc
  <1>9. CASE LowerFails(f)
    <2>1. \A k \in Loc \ {"unclean"} : disk'[k] = disk[k] /\ media'[k] = media[k]
      BY <1>0, <1>9, WriteEffect DEF LowerFails, Loc, Content, DevWriteFails, DevFlushFails
    <2>2. QED
      BY <1>0, <1>9, <2>1 DEF LowerFails, Loc
  <1>10. QED
    BY <1>1, <1>2, <1>3, <1>4, <1>5, <1>6, <1>7, <1>8, <1>9 DEF FlusherStep

LEMMA CrashContentId == TypeOK /\ Crash => ContentIdInv'
  <1> SUFFICES ASSUME TypeOK, Crash PROVE ContentIdInv'
    OBVIOUS
  <1>1. PICK c : DevCrash(c) /\ opened' = disk'
    BY DEF Crash
  <1>2. \A k \in {"data", "cid"} : media'[k] = {opened'[k]}
    BY <1>1, CrashEffect DEF TypeOK, Loc
  <1>3. QED
    BY <1>1, <1>2, SessionAssumption DEF Crash, ContentIdInv, Threads

\* No crash leaves content other than what the session opened under the CID it
\* opened: bump_content_id makes a different CID durable before any data moves,
\* provided its own two device calls do not fail (a second bump, after a failed
\* one, may pick the first CID again).
THEOREM ContentIdIsSafe == CidIsReliable => (Spec => []ContentIdMovesFirst)
  <1> SUFFICES ASSUME CidIsReliable PROVE Spec => []ContentIdMovesFirst
    OBVIOUS
  <1> DEFINE Inv == LockInv /\ ContentIdInv
  <1>1. Init => Inv
    BY LockInit, ContentIdInit
  <1>2. TypeOK /\ Inv /\ [Next]_vars => Inv'
    <2> SUFFICES ASSUME TypeOK, Inv, [Next]_vars PROVE Inv'
      OBVIOUS
    <2>1. CASE UNCHANGED vars
      BY <2>1 DEF LockInv, ContentIdInv, vars, sessionVars
    <2>2. CASE \E w \in Writers : CallWrite(w) \/ WriterStep(w)
      <3>1. HasCid => ContentIdInv'
        BY <2>2, WriterContentId
      <3>2. QED
        BY <2>2, <3>1, WriterLocks DEF ContentIdInv
    <2>3. CASE \E f \in Flushers : CallFlush(f) \/ FlusherStep(f)
      <3>1. HasCid => ContentIdInv'
        BY <2>3, FlusherContentId
      <3>2. QED
        BY <2>3, <3>1, FlusherLocks DEF ContentIdInv
    <2>4. CASE Crash
      BY <2>4, CrashLocks, CrashContentId
    <2>5. QED
      BY <2>1, <2>2, <2>3, <2>4 DEF Next
  <1>3. Inv => ContentIdMovesFirst
    BY DEF ContentIdInv, ContentIdMovesFirst
  <1>4. QED
    BY <1>1, <1>2, <1>3, TypeCorrect, PTL DEF Spec
-----------------------------------------------------------------------------
(* The barrier *)

\* Between flush's device flush and its look at the marker nothing is written.
BarrierInv ==
    \A f \in Flushers : pc[f] = "mark" => \A l \in Loc : media[l] = {disk[l]}

\* A thread that holds writes_in_flight exclusively keeps every other thread
\* off the device.
LEMMA ExclusiveIsAlone ==
    ASSUME TypeOK, LockInv, NEW f \in Flushers, pc[f] = "mark",
           \/ \E w \in Writers : CallWrite(w) \/ WriterStep(w)
           \/ \E g \in Flushers : CallFlush(g) \/ FlusherStep(g)
    PROVE  UNCHANGED devVars
  <1>1. exclusive = f /\ f # NoOne /\ readers = {}
    BY SessionAssumption DEF LockInv
  <1>2. CASE \E w \in Writers : CallWrite(w) \/ WriterStep(w)
    <2>1. PICK w \in Writers : CallWrite(w) \/ WriterStep(w)
      BY <1>2
    <2>2. pc[w] \in {"idle", "enter"}
      BY <1>1 DEF LockInv
    <2>3. QED
      BY <1>1, <2>1, <2>2 DEF WriterStep, CallWrite, EnterWrite, CheckBumped, WriteCid,
         FlushCid, CidFails, CheckMarked, WriteRaise, FlushRaise, RaiseFails, WriteData,
         FlushData, DataFails
  <1>3. CASE \E g \in Flushers : CallFlush(g) \/ FlusherStep(g)
    <2>1. PICK g \in Flushers : CallFlush(g) \/ FlusherStep(g)
      BY <1>3
    <2>2. pc[g] \notin {"sync", "lowerWrite", "lowerFlush"}
      BY <1>1 DEF LockInv
    <2>3. QED
      BY <2>1, <2>2 DEF FlusherStep, CallFlush, QueueFlush, EnterFlush, Sync, SyncFails,
         CheckLower, WriteLower, FlushLower, LowerFails, devVars
  <1>4. QED
    BY <1>2, <1>3

\* A step moves its own thread only.
LEMMA WriterFrame ==
    ASSUME TypeOK, NEW w \in Writers, CallWrite(w) \/ WriterStep(w), NEW f \in Flushers
    PROVE  pc'[f] = pc[f] /\ result'[f] = result[f]
  <1> USE SessionAssumption DEF TypeOK, Threads, Goto, WriterReturns, sessionVars
  <1>0. w # f
    OBVIOUS
  <1>1. CASE CallWrite(w) \/ EnterWrite(w) \/ CheckBumped(w)
    BY <1>0, <1>1 DEF CallWrite, EnterWrite, CheckBumped
  <1>2. CASE WriteCid(w) \/ FlushCid(w) \/ CidFails(w)
    BY <1>0, <1>2 DEF WriteCid, FlushCid, CidFails
  <1>3. CASE CheckMarked(w) \/ WriteRaise(w) \/ FlushRaise(w) \/ RaiseFails(w)
    BY <1>0, <1>3 DEF CheckMarked, WriteRaise, FlushRaise, RaiseFails
  <1>4. CASE WriteData(w) \/ FlushData(w) \/ DataFails(w)
    BY <1>0, <1>4 DEF WriteData, FlushData, DataFails
  <1>5. QED
    BY <1>1, <1>2, <1>3, <1>4 DEF WriterStep

LEMMA FlusherFrame ==
    ASSUME TypeOK, NEW g \in Flushers, CallFlush(g) \/ FlusherStep(g),
           NEW f \in Flushers, f # g
    PROVE  pc'[f] = pc[f] /\ result'[f] = result[f]
  <1> USE DEF TypeOK, Threads, Goto, FlusherReturns, sessionVars
  <1>1. CASE CallFlush(g) \/ QueueFlush(g) \/ EnterFlush(g)
    BY <1>1 DEF CallFlush, QueueFlush, EnterFlush
  <1>2. CASE Sync(g) \/ SyncFails(g) \/ CheckLower(g)
    BY <1>2 DEF Sync, SyncFails, CheckLower
  <1>3. CASE WriteLower(g) \/ FlushLower(g) \/ LowerFails(g)
    BY <1>3 DEF WriteLower, FlushLower, LowerFails
  <1>4. QED
    BY <1>1, <1>2, <1>3 DEF FlusherStep

\* What f's own steps make of its place and result: it reaches "mark" by the
\* device flush only, and returns Ok from two places only.
LEMMA FlusherMoves ==
    ASSUME TypeOK, NEW f \in Flushers, CallFlush(f) \/ FlusherStep(f)
    PROVE  /\ pc'[f] = "mark" => Sync(f)
           /\ result'[f] = "ok" /\ result[f] = "none" => CheckLower(f) \/ FlushLower(f)
  <1> USE DEF TypeOK, Threads, Goto, FlusherReturns, sessionVars
  <1>0. f \in Threads
    OBVIOUS
  <1>1. CASE CallFlush(f) \/ QueueFlush(f) \/ EnterFlush(f)
    BY <1>0, <1>1 DEF CallFlush, QueueFlush, EnterFlush
  <1>2. CASE Sync(f) \/ SyncFails(f)
    BY <1>0, <1>2 DEF Sync, SyncFails
  <1>3. CASE CheckLower(f)
    BY <1>0, <1>3 DEF CheckLower
  <1>4. CASE WriteLower(f) \/ FlushLower(f) \/ LowerFails(f)
    BY <1>0, <1>4 DEF WriteLower, FlushLower, LowerFails
  <1>5. QED
    BY <1>1, <1>2, <1>3, <1>4 DEF FlusherStep

LEMMA BarrierStep ==
    ASSUME TypeOK, LockInv, BarrierInv, [Next]_vars
    PROVE  BarrierInv'
  <1> SUFFICES ASSUME NEW f \in Flushers, pc'[f] = "mark"
               PROVE  \A l \in Loc : media'[l] = {disk'[l]}
    BY DEF BarrierInv
  <1>1. CASE UNCHANGED vars
    BY <1>1 DEF BarrierInv, vars
  <1>2. CASE Crash
    BY <1>2 DEF Crash, Threads
  <1>3. CASE \E w \in Writers : CallWrite(w) \/ WriterStep(w)
    <2>1. pc[f] = "mark"
      BY <1>3, WriterFrame
    <2>2. UNCHANGED devVars
      BY <1>3, <2>1, ExclusiveIsAlone
    <2>3. QED
      BY <2>1, <2>2 DEF BarrierInv, devVars
  <1>4. CASE \E g \in Flushers : CallFlush(g) \/ FlusherStep(g)
    <2>1. CASE CallFlush(f) \/ FlusherStep(f)
      <3>1. Sync(f)
        BY <2>1, FlusherMoves
      <3>2. QED
        BY <3>1, FlushEffect DEF Sync, TypeOK
    <2>2. CASE ~(CallFlush(f) \/ FlusherStep(f))
      <3>1. pc[f] = "mark"
        BY <1>4, <2>2, FlusherFrame
      <3>2. UNCHANGED devVars
        BY <1>4, <3>1, ExclusiveIsAlone
      <3>3. QED
        BY <3>1, <3>2 DEF BarrierInv, devVars
    <2>3. QED
      BY <2>1, <2>2
  <1>5. QED
    BY <1>1, <1>2, <1>3, <1>4 DEF Next

\* A flush returns Ok in two kinds of step.
LEMMA OkReturn ==
    ASSUME TypeOK, [Next]_vars, NEW f \in Flushers, result[f] = "none", result'[f] = "ok"
    PROVE  CheckLower(f) \/ FlushLower(f)
  <1>1. ~UNCHANGED vars
    BY DEF vars
  <1>2. ~Crash
    BY DEF Crash, Threads
  <1>3. ~(\E w \in Writers : CallWrite(w) \/ WriterStep(w))
    BY WriterFrame
  <1>4. \E g \in Flushers : CallFlush(g) \/ FlusherStep(g)
    BY <1>1, <1>2, <1>3 DEF Next
  <1>5. CallFlush(f) \/ FlusherStep(f)
    BY <1>4, FlusherFrame
  <1>6. QED
    BY <1>5, FlusherMoves

\* What it leaves of the device, and of the writers.
LEMMA OkFlush ==
    ASSUME TypeOK, LockInv, BarrierInv, [Next]_vars,
           NEW f \in Flushers, result[f] = "none", result'[f] = "ok"
    PROVE  /\ \A l \in DOMAIN disk : media'[l] = {disk'[l]}
           /\ \A w \in Writers : ~Moving(w)
  <1>1. CheckLower(f) \/ FlushLower(f)
    BY OkReturn
  <1>2. readers = {}
    BY <1>1, SessionAssumption DEF LockInv, CheckLower, FlushLower
  <1>3. \A w \in Writers : ~Moving(w)
    BY <1>2 DEF LockInv, Moving
  <1>4. CASE CheckLower(f)
    BY <1>3, <1>4, DeviceDomain DEF CheckLower, BarrierInv, devVars, TypeOK
  <1>5. CASE FlushLower(f)
    BY <1>3, <1>5, FlushEffect, DeviceDomain DEF FlushLower, TypeOK
  <1>6. QED
    BY <1>1, <1>4, <1>5

\* When flush returns Ok nothing is left in the device's cache and no write_at is
\* half done, whatever fails before or elsewhere and however many threads write
\* and flush.
THEOREM FlushIsBarrier == Spec => FlushIsABarrier
  <1> DEFINE Inv == LockInv /\ BarrierInv
  <1>1. Init => Inv
    BY LockInit DEF Init, BarrierInv, Threads
  <1>2. TypeOK /\ Inv /\ [Next]_vars => Inv'
    <2> SUFFICES ASSUME TypeOK, Inv, [Next]_vars PROVE Inv'
      OBVIOUS
    <2>1. CASE UNCHANGED vars
      BY <2>1, BarrierStep DEF LockInv, vars, sessionVars
    <2>2. CASE Next
      BY <2>2, BarrierStep, WriterLocks, FlusherLocks, CrashLocks DEF Next
    <2>3. QED
      BY <2>1, <2>2
  <1>3. TypeOK /\ Inv /\ [Next]_vars =>
          [\A f \in Flushers :
              result[f] = "none" /\ result'[f] = "ok" =>
                /\ \A l \in DOMAIN disk : media'[l] = {disk'[l]}
                /\ \A w \in Writers : ~Moving(w)]_vars
    BY OkFlush
  <1>4. QED
    BY <1>1, <1>2, <1>3, TypeCorrect, PTL DEF Spec, FlushIsABarrier
-----------------------------------------------------------------------------
(* One bump *)

\* Once bumped, the CID on the device is durable and nobody is about to write it.
BumpInv ==
    /\ \A w \in Writers : pc[w] \in {"cidWrite", "cidFlush"} => HasCid /\ ~bumped
    /\ bumped \/ ~HasCid => media["cid"] = {disk["cid"]}

\* Everything but bump_content_id leaves the CID as it is, or makes it durable.
CidKept ==
    /\ disk'["cid"] = disk["cid"]
    /\ media'["cid"] = media["cid"] \/ media'["cid"] = {disk["cid"]}

LEMMA OthersKeepCid ==
    ASSUME TypeOK,
           \/ UNCHANGED devVars
           \/ DevFlush
           \/ \E l \in Loc \ {"cid"} : \E v \in Content(l) : DevWrite(l, v)
    PROVE  CidKept
  <1>1. CASE UNCHANGED devVars
    BY <1>1 DEF devVars, CidKept
  <1>2. CASE DevFlush
    BY <1>2, FlushEffect DEF TypeOK, Loc, CidKept
  <1>3. CASE \E l \in Loc \ {"cid"} : \E v \in Content(l) : DevWrite(l, v)
    BY <1>3, WriteEffect DEF TypeOK, Loc, CidKept
  <1>4. QED
    BY <1>1, <1>2, <1>3

LEMMA WriterBump ==
    ASSUME TypeOK, LockInv, BumpInv, NEW w \in Writers, CallWrite(w) \/ WriterStep(w)
    PROVE  BumpInv' /\ (bumped => disk'["cid"] = disk["cid"])
  <1> USE SessionAssumption DEF TypeOK, LockInv, BumpInv, Threads, Goto, WriterReturns,
          sessionVars
  <1>0. w \in Threads
    OBVIOUS
  <1>1. CASE CallWrite(w) \/ EnterWrite(w) \/ CheckBumped(w) \/ CheckMarked(w)
    <2>1. CidKept
      BY <1>1, OthersKeepCid DEF CallWrite, EnterWrite, CheckBumped, CheckMarked
    <2>2. QED
      BY <1>0, <1>1, <2>1 DEF CallWrite, EnterWrite, CheckBumped, CheckMarked, CidKept
  <1>2. CASE WriteCid(w)
    BY <1>0, <1>2 DEF WriteCid
  <1>3. CASE FlushCid(w)
    <2>1. disk' = disk /\ media'["cid"] = {disk["cid"]}
      BY <1>3, FlushEffect DEF FlushCid, Loc
    <2>2. QED
      BY <1>0, <1>3, <2>1 DEF FlushCid
  <1>4. CASE CidFails(w)
    BY <1>0, <1>4 DEF CidFails
  <1>5. CASE WriteRaise(w) \/ FlushRaise(w) \/ RaiseFails(w)
    <2>1. CidKept
      BY <1>5, OthersKeepCid DEF WriteRaise, FlushRaise, RaiseFails, DevWriteFails,
         DevFlushFails, Loc, Content
    <2>2. QED
      BY <1>0, <1>5, <2>1 DEF WriteRaise, FlushRaise, RaiseFails, CidKept
  <1>6. CASE WriteData(w) \/ FlushData(w) \/ DataFails(w)
    <2>1. CidKept
      BY <1>6, OthersKeepCid DEF WriteData, FlushData, DataFails, DevWriteFails,
         DevFlushFails, Loc, Content
    <2>2. QED
      BY <1>0, <1>6, <2>1 DEF WriteData, FlushData, DataFails, CidKept
  <1>7. QED
    BY <1>1, <1>2, <1>3, <1>4, <1>5, <1>6 DEF WriterStep

LEMMA FlusherBump ==
    ASSUME TypeOK, BumpInv, NEW f \in Flushers, CallFlush(f) \/ FlusherStep(f)
    PROVE  BumpInv' /\ (bumped => disk'["cid"] = disk["cid"])
  <1> USE SessionAssumption DEF TypeOK, BumpInv, Threads, Goto, FlusherReturns, sessionVars
  <1>0. f \in Threads /\ f \notin Writers
    OBVIOUS
  <1>1. CASE CallFlush(f) \/ QueueFlush(f) \/ EnterFlush(f) \/ CheckLower(f)
    <2>1. CidKept
      BY <1>1, OthersKeepCid DEF CallFlush, QueueFlush, EnterFlush, CheckLower
    <2>2. QED
      BY <1>0, <1>1, <2>1 DEF CallFlush, QueueFlush, EnterFlush, CheckLower, CidKept
  <1>2. CASE Sync(f) \/ SyncFails(f)
    <2>1. CidKept
      BY <1>2, OthersKeepCid DEF Sync, SyncFails, DevFlushFails
    <2>2. QED
      BY <1>0, <1>2, <2>1 DEF Sync, SyncFails, CidKept
  <1>3. CASE WriteLower(f) \/ FlushLower(f) \/ LowerFails(f)
    <2>1. CidKept
      BY <1>3, OthersKeepCid DEF WriteLower, FlushLower, LowerFails, DevWriteFails,
         DevFlushFails, Loc, Content
    <2>2. QED
      BY <1>0, <1>3, <2>1 DEF WriteLower, FlushLower, LowerFails, CidKept
  <1>4. QED
    BY <1>1, <1>2, <1>3 DEF FlusherStep

LEMMA CrashBump ==
    ASSUME TypeOK, BumpInv, Crash
    PROVE  BumpInv' /\ (bumped => disk'["cid"] = disk["cid"])
  <1>1. PICK c : DevCrash(c)
    BY DEF Crash
  <1>2. /\ disk'["cid"] = c["cid"] /\ media'["cid"] = {c["cid"]}
        /\ c["cid"] \in media["cid"]
    BY <1>1, CrashEffect DEF TypeOK, Loc
  <1>3. QED
    BY <1>2, SessionAssumption DEF Crash, BumpInv, Threads

\* The CID is bumped once per session, not once per write: after one thread's
\* bump_content_id returned Ok nothing changes the CID again, whatever else fails
\* and not even by a crash.
THEOREM BumpIsOnce == Spec => BumpedOnce
  <1> DEFINE Inv == LockInv /\ BumpInv
  <1>1. Init => Inv
    BY LockInit, SessionAssumption DEF Init, BumpInv, Threads, Image
  <1>2. TypeOK /\ Inv /\ [Next]_vars => Inv' /\ [bumped => disk'["cid"] = disk["cid"]]_vars
    <2> SUFFICES ASSUME TypeOK, Inv, [Next]_vars
                 PROVE  Inv' /\ (bumped => disk'["cid"] = disk["cid"])
      OBVIOUS
    <2>1. CASE UNCHANGED vars
      BY <2>1 DEF LockInv, BumpInv, vars, sessionVars
    <2>2. CASE Next
      BY <2>2, WriterLocks, FlusherLocks, CrashLocks, WriterBump, FlusherBump, CrashBump DEF Next
    <2>3. QED
      BY <2>1, <2>2
  <1>3. QED
    BY <1>1, <1>2, TypeCorrect, PTL DEF Spec, BumpedOnce
-----------------------------------------------------------------------------
(* The marker comes down *)

\* The device calls that raise the marker do not fail.
RaiseIsReliable == Faults \cap {"raiseWrite", "raiseFlush"} = {}

\* While memory calls the marker lowered, and nobody is raising it, it stands on
\* the device only if the session found it standing.
LoweredInv ==
    /\ \A f \in Flushers : pc[f] \in {"lowerWrite", "lowerFlush"} => marked
    /\ \A f \in Flushers : pc[f] = "lowerFlush" => disk["unclean"] = 0
    /\ ~marked /\ (\A w \in Writers : pc[w] # "raiseFlush") =>
          (disk["unclean"] = 1 => opened["unclean"] = 1)

\* Everything but the raise and the lowering leaves the marker alone.
LEMMA OthersKeepMarker ==
    ASSUME TypeOK,
           \/ UNCHANGED devVars
           \/ DevFlush
           \/ \E l \in Loc \ {"unclean"} : \E v \in Content(l) : DevWrite(l, v)
    PROVE  disk'["unclean"] = disk["unclean"]
  <1>1. CASE UNCHANGED devVars
    BY <1>1 DEF devVars
  <1>2. CASE DevFlush
    BY <1>2, FlushEffect DEF TypeOK
  <1>3. CASE \E l \in Loc \ {"unclean"} : \E v \in Content(l) : DevWrite(l, v)
    BY <1>3, WriteEffect DEF TypeOK, Loc
  <1>4. QED
    BY <1>1, <1>2, <1>3

LEMMA WriterLowered ==
    ASSUME TypeOK, LockInv, LoweredInv, RaiseIsReliable,
           NEW w \in Writers, CallWrite(w) \/ WriterStep(w)
    PROVE  LoweredInv'
  <1> USE SessionAssumption DEF TypeOK, LockInv, LoweredInv, Threads, Goto, WriterReturns,
          sessionVars
  <1>0. w \in Threads /\ w \notin Flushers
    OBVIOUS
  <1>1. CASE CallWrite(w) \/ EnterWrite(w) \/ CheckBumped(w) \/ CheckMarked(w)
    <2>1. disk'["unclean"] = disk["unclean"]
      BY <1>1, OthersKeepMarker DEF CallWrite, EnterWrite, CheckBumped, CheckMarked
    <2>2. QED
      BY <1>0, <1>1, <2>1 DEF CallWrite, EnterWrite, CheckBumped, CheckMarked
  <1>2. CASE WriteCid(w) \/ FlushCid(w) \/ CidFails(w)
    <2>1. disk'["unclean"] = disk["unclean"]
      BY <1>2, OthersKeepMarker DEF WriteCid, FlushCid, CidFails, DevWriteFails,
         DevFlushFails, Loc, Content
    <2>2. QED
      BY <1>0, <1>2, <2>1 DEF WriteCid, FlushCid, CidFails
  <1>3. CASE WriteRaise(w)
    <2>1. \A f \in Flushers : pc[f] \notin {"lowerWrite", "lowerFlush"}
      BY <1>3 DEF WriteRaise
    <2>2. QED
      BY <1>0, <1>3, <2>1 DEF WriteRaise
  <1>4. CASE FlushRaise(w)
    <2>1. disk'["unclean"] = disk["unclean"]
      BY <1>4, OthersKeepMarker DEF FlushRaise
    <2>2. QED
      BY <1>0, <1>4, <2>1 DEF FlushRaise
  <1>5. CASE RaiseFails(w)
    BY <1>5 DEF RaiseFails, RaiseIsReliable
  <1>6. CASE WriteData(w) \/ FlushData(w) \/ DataFails(w)
    <2>1. disk'["unclean"] = disk["unclean"]
      BY <1>6, OthersKeepMarker DEF WriteData, FlushData, DataFails, DevWriteFails,
         DevFlushFails, Loc, Content
    <2>2. QED
      BY <1>0, <1>6, <2>1 DEF WriteData, FlushData, DataFails
  <1>7. QED
    BY <1>1, <1>2, <1>3, <1>4, <1>5, <1>6 DEF WriterStep

LEMMA FlusherLowered ==
    ASSUME TypeOK, LockInv, LoweredInv, NEW f \in Flushers, CallFlush(f) \/ FlusherStep(f)
    PROVE  LoweredInv'
  <1> USE SessionAssumption DEF TypeOK, LockInv, LoweredInv, Threads, Goto,
          FlusherReturns, sessionVars
  <1>0. f \in Threads /\ f \notin Writers
    OBVIOUS
  <1>1. CASE CallFlush(f) \/ QueueFlush(f) \/ EnterFlush(f) \/ CheckLower(f)
    <2>1. disk'["unclean"] = disk["unclean"]
      BY <1>1, OthersKeepMarker DEF CallFlush, QueueFlush, EnterFlush, CheckLower
    <2>2. QED
      BY <1>0, <1>1, <2>1 DEF CallFlush, QueueFlush, EnterFlush, CheckLower
  <1>2. CASE Sync(f) \/ SyncFails(f)
    <2>1. disk'["unclean"] = disk["unclean"]
      BY <1>2, OthersKeepMarker DEF Sync, SyncFails, DevFlushFails
    <2>2. QED
      BY <1>0, <1>2, <2>1 DEF Sync, SyncFails
  <1>3. CASE WriteLower(f)
    <2>1. disk'["unclean"] = 0
      BY <1>3, WriteEffect DEF WriteLower, Loc, Content
    <2>2. QED
      BY <1>0, <1>3, <2>1 DEF WriteLower
  <1>4. CASE FlushLower(f)
    <2>1. disk'["unclean"] = 0
      BY <1>4, OthersKeepMarker DEF FlushLower
    <2>2. \A g \in Flushers : pc[g] = "lowerFlush" => g = f
      BY <1>4 DEF FlushLower
    <2>3. QED
      BY <1>0, <1>4, <2>1, <2>2 DEF FlushLower
  <1>5. CASE LowerFails(f)
    <2>1. marked /\ \A g \in Flushers : pc[g] \in {"lowerWrite", "lowerFlush"} => g = f
      BY <1>5 DEF LowerFails
    <2>2. QED
      BY <1>0, <1>5, <2>1 DEF LowerFails
  <1>6. QED
    BY <1>1, <1>2, <1>3, <1>4, <1>5 DEF FlusherStep

LEMMA CrashLowered == Crash => LoweredInv'
  BY SessionAssumption DEF Crash, LoweredInv, Threads

\* A flush that returned Ok left the marker down, unless the session opened the
\* image with it up, provided the two device calls of the raise do not fail.
THEOREM FlushLowers == RaiseIsReliable => (Spec => FlushLowersMarker)
  <1> SUFFICES ASSUME RaiseIsReliable PROVE Spec => FlushLowersMarker
    OBVIOUS
  <1> DEFINE Inv == LockInv /\ BarrierInv /\ LoweredInv
  <1>1. Init => Inv
    BY LockInit, SessionAssumption DEF Init, BarrierInv, LoweredInv, Threads
  <1>2. TypeOK /\ Inv /\ [Next]_vars => Inv'
    <2> SUFFICES ASSUME TypeOK, Inv, [Next]_vars PROVE Inv'
      OBVIOUS
    <2>1. CASE UNCHANGED vars
      BY <2>1, BarrierStep DEF LockInv, LoweredInv, vars, sessionVars
    <2>2. CASE Next
      BY <2>2, BarrierStep, WriterLocks, FlusherLocks, CrashLocks, WriterLowered,
         FlusherLowered, CrashLowered DEF Next
    <2>3. QED
      BY <2>1, <2>2
  <1>3. TypeOK /\ Inv /\ [Next]_vars =>
          [\A f \in Flushers :
              result[f] = "none" /\ result'[f] = "ok" =>
                (disk'["unclean"] = 1 => opened["unclean"] = 1)]_vars
    <2> SUFFICES ASSUME TypeOK, Inv, [Next]_vars, NEW f \in Flushers,
                        result[f] = "none", result'[f] = "ok"
                 PROVE  disk'["unclean"] = 1 => opened["unclean"] = 1
      OBVIOUS
    <2>1. CheckLower(f) \/ FlushLower(f)
      BY OkReturn
    <2>2. CASE CheckLower(f)
      <3>1. disk' = disk /\ ~marked /\ exclusive = f
        BY <2>2 DEF CheckLower, LockInv, devVars, FlusherReturns
      <3>2. \A w \in Writers : pc[w] # "raiseFlush"
        BY <3>1, SessionAssumption DEF LockInv
      <3>3. QED
        BY <3>1, <3>2 DEF LoweredInv
    <2>3. CASE FlushLower(f)
      BY <2>3, OthersKeepMarker DEF FlushLower, LoweredInv
    <2>4. QED
      BY <2>1, <2>2, <2>3
  <1>4. QED
    BY <1>1, <1>2, <1>3, TypeCorrect, PTL DEF Spec, FlushLowersMarker
-----------------------------------------------------------------------------
(* The envelope and the loop *)

\* Who bumps or raises has seen that nobody had; who is past that has it remembered.
ApartInv ==
    /\ \A w \in Writers : pc[w] \in {"cidWrite", "cidFlush"} => ~bumped
    /\ \A w \in Writers :
          pc[w] \in {"mark", "raiseWrite", "raiseFlush", "dataWrite", "dataFlush"} => bumped
    /\ \A w \in Writers : pc[w] \in {"raiseWrite", "raiseFlush"} => ~marked
    /\ \A w \in Writers : Moving(w) => marked

LEMMA WriterApart ==
    ASSUME TypeOK, LockInv, ApartInv, NEW w \in Writers, CallWrite(w) \/ WriterStep(w)
    PROVE  ApartInv'
  <1> USE SessionAssumption DEF TypeOK, LockInv, ApartInv, Moving, Threads, Goto, WriterReturns,
          sessionVars
  <1>0. w \in Threads
    OBVIOUS
  <1>1. CASE CallWrite(w) \/ EnterWrite(w)
    BY <1>0, <1>1 DEF CallWrite, EnterWrite
  <1>2. CASE CheckBumped(w)
    BY <1>0, <1>2 DEF CheckBumped
  <1>3. CASE WriteCid(w)
    BY <1>0, <1>3 DEF WriteCid
  <1>4. CASE FlushCid(w)
    BY <1>0, <1>4 DEF FlushCid
  <1>5. CASE CidFails(w)
    BY <1>0, <1>5 DEF CidFails
  <1>6. CASE CheckMarked(w)
    BY <1>0, <1>6 DEF CheckMarked
  <1>7. CASE WriteRaise(w)
    BY <1>0, <1>7 DEF WriteRaise
  <1>8. CASE FlushRaise(w)
    BY <1>0, <1>8 DEF FlushRaise
  <1>9. CASE RaiseFails(w)
    BY <1>0, <1>9 DEF RaiseFails
  <1>10. CASE WriteData(w)
    BY <1>0, <1>10 DEF WriteData
  <1>11. CASE FlushData(w)
    BY <1>0, <1>11 DEF FlushData
  <1>12. CASE DataFails(w)
    BY <1>0, <1>12 DEF DataFails
  <1>13. QED
    BY <1>1, <1>2, <1>3, <1>4, <1>5, <1>6, <1>7, <1>8, <1>9, <1>10, <1>11, <1>12 DEF WriterStep

LEMMA FlusherApart ==
    ASSUME TypeOK, LockInv, ApartInv, NEW f \in Flushers, CallFlush(f) \/ FlusherStep(f)
    PROVE  ApartInv'
  <1> USE SessionAssumption DEF TypeOK, LockInv, ApartInv, Moving, Threads, Goto, FlusherReturns,
          sessionVars
  <1>0. f \in Threads /\ f \notin Writers
    OBVIOUS
  <1>1. CASE CallFlush(f) \/ QueueFlush(f) \/ EnterFlush(f)
    BY <1>0, <1>1 DEF CallFlush, QueueFlush, EnterFlush
  <1>2. CASE Sync(f) \/ SyncFails(f)
    BY <1>0, <1>2 DEF Sync, SyncFails
  <1>3. CASE CheckLower(f)
    BY <1>0, <1>3 DEF CheckLower
  <1>4. CASE WriteLower(f) \/ LowerFails(f)
    BY <1>0, <1>4 DEF WriteLower, LowerFails
  <1>5. CASE FlushLower(f)
    <2>1. readers = {}
      BY <1>5 DEF FlushLower
    <2>2. \A w \in Writers : pc[w] \in {"idle", "enter"}
      BY <2>1
    <2>3. QED
      BY <1>0, <1>5, <2>2 DEF FlushLower
  <1>6. QED
    BY <1>1, <1>2, <1>3, <1>4, <1>5 DEF FlusherStep

\* No device call of the envelope falls into another thread's loop over chunks,
\* whatever fails and wherever a crash falls: what reader.rs holds writes_in_flight
\* for, and mark_modified its two mutexes.
THEOREM EnvelopeIsKeptApart == Spec => []EnvelopeIsApart
  <1> DEFINE Inv == LockInv /\ ApartInv
  <1>1. Init => Inv
    BY LockInit, SessionAssumption DEF Init, ApartInv, Moving, Threads
  <1>2. TypeOK /\ Inv /\ [Next]_vars => Inv'
    <2> SUFFICES ASSUME TypeOK, Inv, [Next]_vars PROVE Inv'
      OBVIOUS
    <2>1. CASE UNCHANGED vars
      BY <2>1 DEF LockInv, ApartInv, Moving, vars, sessionVars
    <2>2. CASE Crash
      BY <2>2, CrashLocks, SessionAssumption DEF Crash, ApartInv, Moving, Threads
    <2>3. CASE Next
      BY <2>2, <2>3, WriterLocks, FlusherLocks, WriterApart, FlusherApart DEF Next
    <2>4. QED
      BY <2>1, <2>3
  <1>3. TypeOK /\ Inv => EnvelopeIsApart
    <2> SUFFICES ASSUME TypeOK, Inv, NEW t \in Threads, pc[t] \in EnvelopePlaces,
                        NEW w \in Writers, Moving(w)
                 PROVE  FALSE
      BY DEF EnvelopeIsApart
    <2>1. CASE t \in Flushers
      <3>1. pc[t] \in {"sync", "lowerWrite", "lowerFlush"}
        BY <2>1 DEF TypeOK, FlusherPC, EnvelopePlaces
      <3>2. exclusive = t /\ t # NoOne /\ w \in readers
        BY <2>1, <3>1, SessionAssumption DEF LockInv, Moving
      <3>3. QED
        BY <3>2 DEF LockInv
    <2>2. CASE t \in Writers
      <3>1. pc[t] \in {"cidWrite", "cidFlush", "raiseWrite", "raiseFlush"}
        BY <2>2 DEF TypeOK, WriterPC, EnvelopePlaces
      <3>2. QED
        BY <2>2, <3>1 DEF ApartInv, Moving
    <2>3. QED
      BY <2>1, <2>2 DEF Threads
  <1>4. QED
    BY <1>1, <1>2, <1>3, TypeCorrect, PTL DEF Spec
-----------------------------------------------------------------------------
(* Nobody waits for ever *)

\* The owner of a lock is on its way to dropping it, and waits for none itself; but the
\* exclusive owner of writes_in_flight may, for unclean_marked.
LEMMA OwnersRun ==
    ASSUME TypeOK, LockInv, \/ bumpLock # NoOne \/ markLock # NoOne \/ exclusive # NoOne \/ readers # {}
    PROVE  \E u \in Threads : pc[u] # "idle" /\ ~Waits(u)
  <1>1. CASE bumpLock # NoOne
    <2>1. bumpLock \in Writers /\ pc[bumpLock] \in {"cidWrite", "cidFlush"}
      BY <1>1 DEF TypeOK, LockInv
    <2>2. QED
      BY <2>1 DEF Waits, Threads
  <1>2. CASE markLock # NoOne
    <2>1. markLock \in Threads /\ pc[markLock] \in {"raiseWrite", "raiseFlush", "lowerWrite", "lowerFlush"}
      BY <1>2 DEF TypeOK, LockInv, Threads
    <2>2. QED
      BY <2>1 DEF Waits
  <1>3. CASE exclusive # NoOne /\ markLock = NoOne
    <2>1. exclusive \in Flushers /\ pc[exclusive] \in {"sync", "mark", "lowerWrite", "lowerFlush"}
      BY <1>3 DEF TypeOK, LockInv
    <2>2. exclusive \notin Writers
      BY <2>1, SessionAssumption
    <2>3. QED
      BY <1>3, <2>1, <2>2 DEF Waits, Threads
  <1>4. CASE readers # {} /\ bumpLock = NoOne /\ markLock = NoOne
    <2>1. PICK w \in readers : TRUE
      BY <1>4
    <2>2. w \in Writers /\ pc[w] \notin {"idle", "enter", "waiting"}
      BY <2>1 DEF TypeOK, LockInv, WriterPC
    <2>3. QED
      BY <1>4, <2>2 DEF Waits, Threads
  <1>5. QED
    BY <1>1, <1>2, <1>3, <1>4

\* However many threads write and flush, whatever fails: flush's two locks and the
\* writers' two mutexes are never waited for in a circle.
THEOREM NobodyDeadlocks == Spec => []NoDeadlock
  <1>1. LockInv /\ [Next]_vars /\ TypeOK => LockInv'
    <2> SUFFICES ASSUME LockInv, TypeOK, [Next]_vars PROVE LockInv'
      OBVIOUS
    <2>1. CASE UNCHANGED vars
      BY <2>1 DEF LockInv, vars, sessionVars
    <2>2. CASE Next
      BY <2>2, WriterLocks, FlusherLocks, CrashLocks DEF Next
    <2>3. QED
      BY <2>1, <2>2
  <1>2. TypeOK /\ LockInv => NoDeadlock
    <2> SUFFICES ASSUME TypeOK, LockInv, NEW t \in Threads, Waits(t)
                 PROVE  \E u \in Threads : pc[u] # "idle" /\ ~Waits(u)
      BY DEF NoDeadlock
    <2>1. CASE \E f \in Flushers : pc[f] = "waiting" /\ ~Waits(f)
      BY <2>1 DEF Threads
    <2>2. CASE \E f \in Flushers : pc[f] = "waiting" /\ Waits(f)
      <3>1. PICK f \in Flushers : pc[f] = "waiting" /\ Waits(f)
        BY <2>2
      <3>2. readers # {} \/ exclusive # NoOne
        BY <3>1, SessionAssumption DEF Waits
      <3>3. QED
        BY <3>2, OwnersRun
    <2>3. CASE \A f \in Flushers : pc[f] # "waiting"
      <3>1. \/ bumpLock # NoOne \/ markLock # NoOne \/ exclusive # NoOne \/ readers # {}
        BY <2>3 DEF Waits
      <3>2. QED
        BY <3>1, OwnersRun
    <2>4. QED
      BY <2>1, <2>2, <2>3
  <1>3. QED
    BY <1>1, <1>2, LockInit, TypeCorrect, PTL DEF Spec

\* A writer in a call has a device write still to make.
LeftInv == \A w \in Writers : pc[w] # "idle" => left[w] >= 1

LEMMA WriterLeft ==
    ASSUME TypeOK, LeftInv, NEW w \in Writers, CallWrite(w) \/ WriterStep(w)
    PROVE  LeftInv' /\ (WriterStep(w) => StepsLeft(w)' < StepsLeft(w))
  <1> USE SessionAssumption DEF TypeOK, LeftInv, StepsLeft, Threads, Goto, WriterReturns, sessionVars
  <1>0. w \in Threads /\ left[w] \in Nat
    OBVIOUS
  <1>1. CASE CallWrite(w)
    <2>1. pc[w] = "idle" /\ LeftInv'
      BY <1>0, <1>1 DEF CallWrite
    <2>2. ~WriterStep(w)
      BY <2>1 DEF WriterStep, EnterWrite, CheckBumped, WriteCid, FlushCid, CidFails, CheckMarked,
                  WriteRaise, FlushRaise, RaiseFails, WriteData, FlushData, DataFails
    <2>3. QED
      BY <2>1, <2>2
  <1>2. CASE EnterWrite(w)
    BY <1>0, <1>2 DEF EnterWrite
  <1>3. CASE CheckBumped(w)
    BY <1>0, <1>3 DEF CheckBumped
  <1>4. CASE WriteCid(w) \/ FlushCid(w)
    BY <1>0, <1>4 DEF WriteCid, FlushCid
  <1>5. CASE CidFails(w)
    BY <1>0, <1>5 DEF CidFails
  <1>6. CASE CheckMarked(w)
    BY <1>0, <1>6 DEF CheckMarked
  <1>7. CASE WriteRaise(w) \/ FlushRaise(w)
    BY <1>0, <1>7 DEF WriteRaise, FlushRaise
  <1>8. CASE RaiseFails(w)
    BY <1>0, <1>8 DEF RaiseFails
  <1>9. CASE WriteData(w)
    BY <1>0, <1>9 DEF WriteData
  <1>10. CASE FlushData(w)
    BY <1>0, <1>10 DEF FlushData
  <1>11. CASE DataFails(w)
    BY <1>0, <1>11 DEF DataFails
  <1>12. QED
    BY <1>1, <1>2, <1>3, <1>4, <1>5, <1>6, <1>7, <1>8, <1>9, <1>10, <1>11 DEF WriterStep

LEMMA FlusherLeft ==
    ASSUME TypeOK, LeftInv, NEW f \in Flushers, CallFlush(f) \/ FlusherStep(f)
    PROVE  LeftInv' /\ (FlusherStep(f) => StepsLeft(f)' < StepsLeft(f))
  <1> USE SessionAssumption DEF TypeOK, LeftInv, StepsLeft, Threads, Goto, FlusherReturns, sessionVars
  <1>0. f \in Threads /\ f \notin Writers
    OBVIOUS
  <1>1. CASE CallFlush(f)
    <2>1. pc[f] = "idle" /\ LeftInv'
      BY <1>0, <1>1 DEF CallFlush
    <2>2. ~FlusherStep(f)
      BY <2>1 DEF FlusherStep, QueueFlush, EnterFlush, Sync, SyncFails, CheckLower, WriteLower,
                  FlushLower, LowerFails
    <2>3. QED
      BY <2>1, <2>2
  <1>2. CASE QueueFlush(f) \/ EnterFlush(f)
    BY <1>0, <1>2 DEF QueueFlush, EnterFlush
  <1>3. CASE Sync(f) \/ SyncFails(f) \/ CheckLower(f)
    BY <1>0, <1>3 DEF Sync, SyncFails, CheckLower
  <1>4. CASE WriteLower(f) \/ FlushLower(f) \/ LowerFails(f)
    BY <1>0, <1>4 DEF WriteLower, FlushLower, LowerFails
  <1>5. QED
    BY <1>1, <1>2, <1>3, <1>4 DEF FlusherStep

\* However many threads write and flush, whatever fails and whatever policy the lock has:
\* a call takes a bounded number of steps, fewer with each one made. With NobodyDeadlocks
\* it is all that CallsReturn needs of the code; the rest is fairness.
THEOREM EveryCallIsFinite == Spec => CallsAreFinite
  <1> DEFINE Nearer == \A t \in Threads : CallStep(t) => StepsLeft(t)' < StepsLeft(t)
  <1>1. Init => LeftInv
    BY SessionAssumption DEF Init, LeftInv, Threads
  <1>2. TypeOK /\ LeftInv => Nearer
    <2> SUFFICES ASSUME TypeOK, LeftInv, NEW t \in Threads, CallStep(t)
                 PROVE  StepsLeft(t)' < StepsLeft(t)
      OBVIOUS
    <2>1. CASE t \in Writers /\ WriterStep(t)
      BY <2>1, WriterLeft
    <2>2. CASE t \in Flushers /\ FlusherStep(t)
      BY <2>2, FlusherLeft
    <2>3. QED
      BY <2>1, <2>2 DEF CallStep
  <1>3. TypeOK /\ LeftInv /\ [Next]_vars => LeftInv' /\ [Nearer]_vars
    <2> SUFFICES ASSUME TypeOK, LeftInv, [Next]_vars PROVE LeftInv'
      BY <1>2
    <2>1. CASE UNCHANGED vars
      BY <2>1 DEF LeftInv, vars, sessionVars
    <2>2. CASE \E w \in Writers : CallWrite(w) \/ WriterStep(w)
      BY <2>2, WriterLeft
    <2>3. CASE \E f \in Flushers : CallFlush(f) \/ FlusherStep(f)
      BY <2>3, FlusherLeft
    <2>4. CASE Crash
      BY <2>4 DEF Crash, LeftInv, Threads
    <2>5. QED
      BY <2>1, <2>2, <2>3, <2>4 DEF Next
  <1>4. QED
    BY <1>1, <1>3, TypeCorrect, PTL DEF Spec, CallsAreFinite
=============================================================================
