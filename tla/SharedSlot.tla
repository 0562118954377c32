----------------------------- MODULE SharedSlot -----------------------------
(***************************************************************************)
(* Replication when the slot is not pgcdc's alone: somebody else streams   *)
(* from it and acknowledges, or drops it.  README.md "Operating            *)
(* assumptions" lists both, and says which violations pgcdc notices; this  *)
(* module says when the slot guard of src/postgres/guard.rs does.          *)
(***************************************************************************)
EXTENDS Replication

VARIABLES
    taken,   \* transactions somebody else acknowledged while this process ran,
             \* durable, and had neither stored nor accepted them
    late     \* those of them taken after the preflight had read the slot

sharedVars == <<vars, taken, late>>

\* What is remembered of a transaction: not beyond the end of the process,
\* and not once the server has gone back to a position before it.
Remember(set) == IF pc' \in Down THEN {} ELSE {t \in set : t <= confirmed'}

SharedInit == Init /\ taken = {} /\ late = {}

OwnNext ==
    /\ Next
    /\ taken' = Remember(taken) /\ late' = Remember(late)

\* Another consumer connects while the slot is free, acknowledges and leaves.
ForeignAcknowledges ==
    /\ walStatus = "reserved" /\ holder = "none"
    /\ Fault("foreign")
    /\ \E k \in (confirmed + 1)..tip : confirmed' = k
    /\ LET new == {t \in txs : confirmed < t /\ t <= confirmed' /\ t \notin disk \cup buf}
       IN  IF pc \in Down \/ ~IsReconnect(trk.durable)
             THEN UNCHANGED <<taken, late>>
             ELSE /\ taken' = taken \cup new
                  /\ late' = IF pc = "start" THEN late \cup new ELSE late
    /\ UNCHANGED <<walVars, persisted, walStatus, holder, flight, streamVars,
                   procVars, sinkVars>>

\* An operator drops the slot.
SlotDropped ==
    /\ walStatus # "missing" /\ holder = "none"
    /\ Fault("foreign")
    /\ walStatus' = "missing"
    /\ UNCHANGED <<walVars, confirmed, persisted, holder, flight, streamVars,
                   procVars, sinkVars, taken, late>>

\* start() calls ensure_replication_slot: a slot that is gone is created anew
\* at the end of the WAL, and the stream starts there.
StartCreatesSlot ==
    /\ pc = "start" /\ walStatus = "missing"
    /\ walStatus' = "reserved" /\ confirmed' = tip /\ persisted' = tip
    /\ pc' = "turn" /\ holder' = "ours"
    /\ pos' = tip /\ mid' = 0 /\ recv' = 0 /\ fbk' = 0
    /\ taken' = Remember(taken) /\ late' = Remember(late)
    /\ UNCHANGED <<walVars, flight, trk, open, target, shutdown, sinkVars, faults>>

SharedNext == OwnNext \/ ForeignAcknowledges \/ SlotDropped \/ StartCreatesSlot

SharedSpec == SharedInit /\ [][SharedNext]_sharedVars

-----------------------------------------------------------------------------
\* Transactions somebody else acknowledged under a process that has something
\* durable stop it before it streams on past them, as long as it happened
\* before the preflight read the slot (guard.rs:88).
TheftIsCaught == pc \in InSession => taken \subseteq late

\* README.md:275: "Within a running process, a violation of the first
\* assumption is caught, and is fatal", whenever it happened.
EveryTheftIsCaught == pc \in InSession => taken = {}

\* README.md:81: "pgcdc will not create the slot for you, and refuses to start
\* if it is missing": no step of the process makes a slot appear.
NeverCreatesSlot == [][walStatus = "missing" => walStatus' = "missing"]_sharedVars
=============================================================================
