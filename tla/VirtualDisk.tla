----------------------------- MODULE VirtualDisk -----------------------------
(***************************************************************************)
(* What a writable image promises its caller, whatever happens underneath: *)
(* each block of the virtual disk reads as zero until written, a write     *)
(* that returned Ok is what later reads see, a flush that returned Ok      *)
(* makes that survive a crash, and a block no write touched never changes. *)
(*                                                                         *)
(*   value[b]    what reading block b returns now                          *)
(*   may[b]      what it is allowed to return now                          *)
(*   survive[b]  what it is allowed to be after a crash                    *)
(*                                                                         *)
(* Every writer writes a value of its own, itself.                         *)
(***************************************************************************)
CONSTANTS Blocks, Writers

VARIABLES value, may, survive, call

\* A writer with no call in flight holds none of the blocks.
NoCall == [b \in {} |-> {}]

\* The calls in flight on block b.
InFlight(b) == {w \in Writers : b \in DOMAIN call[w]}

Init ==
    /\ may = [b \in Blocks |-> {value[b]}]
    /\ survive = may
    /\ call = [w \in Writers |-> NoCall]

\* The Promise actions say what each event does to the promises alone. A call
\* remembers, per block, the values that were settled there when it began and
\* that no later call writes again: its success overwrites them.
PromiseCall(w, B) ==
    /\ call[w] = NoCall
    /\ call' = [x \in Writers |->
                   IF x = w THEN [b \in B |-> may[b] \ InFlight(b)]
                   ELSE [b \in DOMAIN call[x] |->
                           IF b \in B THEN call[x][b] \ {w} ELSE call[x][b]]]
    /\ may' = [b \in Blocks |-> IF b \in B THEN may[b] \cup {w} ELSE may[b]]
    /\ survive' = [b \in Blocks |-> IF b \in B THEN survive[b] \cup {w} ELSE survive[b]]

PromiseOk(w) ==
    /\ call[w] # NoCall
    /\ may' = [b \in Blocks |->
                  IF b \in DOMAIN call[w] THEN (may[b] \ call[w][b]) \cup {w} ELSE may[b]]
    /\ call' = [call EXCEPT ![w] = NoCall]
    /\ UNCHANGED survive

\* After an error the call may have taken effect on any of its blocks.
PromiseErr(w) ==
    /\ call[w] # NoCall
    /\ call' = [call EXCEPT ![w] = NoCall]
    /\ UNCHANGED <<may, survive>>

PromiseFlush ==
    /\ \A w \in Writers : call[w] = NoCall
    /\ may' = [b \in Blocks |-> {value[b]}]
    /\ survive' = may'
    /\ UNCHANGED call

PromiseCrash ==
    /\ may' = [b \in Blocks |-> {value'[b]}]
    /\ survive' = may'
    /\ call' = [w \in Writers |-> NoCall]

Allowed == \A b \in Blocks : value[b] \in may[b]

Next ==
    \/ /\ \/ UNCHANGED <<may, survive, call>>
          \/ \E w \in Writers : (\E B \in SUBSET Blocks : PromiseCall(w, B))
                                \/ PromiseOk(w) \/ PromiseErr(w)
          \/ PromiseFlush
       /\ Allowed'
    \/ /\ PromiseCrash
       /\ \A b \in Blocks : value'[b] \in survive[b]

vars == <<value, may, survive, call>>

Spec == Init /\ [][Next]_vars
=============================================================================
