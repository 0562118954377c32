---------------------------- MODULE Replication -----------------------------
(***************************************************************************)
(* The replication engine of pgcdc (src/postgres/replication.rs): the      *)
(* outer reconnect loop `run`, one session `stream_once`, the group        *)
(* barrier, the acknowledgement tail and the keepalive advance; with the   *)
(* slot guard (src/postgres/guard.rs), the position tracker (LsnTracker),  *)
(* the sink seen through its trait, and, as the environment they run in,   *)
(* the PostgreSQL slot, its walsender and the transport crate.             *)
(*                                                                         *)
(* Abstractions.                                                           *)
(*  - A transaction of the publication is its end_lsn.  The frames between *)
(*    BEGIN and COMMIT change nothing but the assembler's buffer, so       *)
(*    reading BEGIN stands for them too; their content is in Assembler.    *)
(*  - The sink is the set of transactions it accepted and has not carried  *)
(*    through the barrier (`buf`) and the set on the medium (`disk`).      *)
(*    FileSink opens that box.                                             *)
(*  - Time is left out: the barrier timer and the backoff pause may expire *)
(*    at any moment.  The duration-based budget of a busy slot is in       *)
(*    ReconnectLoop; here it may give up at any busy answer.               *)
(*  - Logging and the metrics are left out; `received` feeds only them.    *)
(***************************************************************************)
EXTENDS LsnTracker, FiniteSets

CONSTANTS
    MaxLsn,       \* bound: the last position the WAL reaches
    MaxFaults,    \* bound: how many faults a behaviour contains
    Faults,       \* the kinds of fault this instance may inject
    ForwardOnly   \* the server never moves confirmed_flush_lsn backwards

FaultKinds == {"net", "kill", "signal", "server", "lost", "fatal", "foreign"}

ASSUME BoundsAssumption == MaxLsn \in Nat \ {0} /\ MaxFaults \in Nat
ASSUME FaultsAssumption == Faults \subseteq FaultKinds /\ ForwardOnly \in BOOLEAN

VARIABLES
    \* the server: WAL of the publication and the replication slot
    tip,        \* the last position written to the WAL
    txs,        \* end positions of the committed transactions of the publication
    confirmed,  \* confirmed_flush_lsn in the server's memory
    persisted,  \* the same, as it would be after a crash of the server
    walStatus,  \* pg_replication_slots.wal_status, or "missing" with no slot
    holder,     \* whose walsender holds the slot: "none", "ours", "stale"
    flight,     \* newest flush position on its way to that walsender, 0 if none
    \* the transport crate's stream object, new for every session
    pos,        \* every transaction that ends at or below it has been read
    mid,        \* the transaction the walsender is in the middle of, or 0
    recv,       \* current_lsn(), that is last_received_lsn; 0 before any message
    fbk,        \* shared_lsn_feedback, the position the crate may report as flushed
    \* the process
    pc,         \* where `run` is
    trk,        \* SessionState.tracker
    open,       \* the transaction the assembler is gathering, 0 if empty
    target,     \* the argument of acknowledge_durable while it runs, else 0
    shutdown,   \* the flag the signal listener raises
    \* the sink
    pending,    \* end_lsn of the last transaction accepted since the barrier, or 0
    buf,        \* transactions accepted and not yet on the medium
    disk,       \* transactions on the medium
    \* bookkeeping of the model
    faults      \* faults injected so far

walVars == <<tip, txs>>
slotVars == <<confirmed, persisted, walStatus, holder, flight>>
streamVars == <<pos, mid, recv, fbk>>
procVars == <<pc, trk, open, target, shutdown>>
sinkVars == <<pending, buf, disk>>
vars == <<walVars, slotVars, streamVars, procVars, sinkVars, faults>>

Lsn == 0..MaxLsn

Down == {"stopped", "failed", "killed"}
Acking == {"ackTimer", "ackStop", "ackIdle"}
InSession == {"turn", "read", "barrier", "stopBarrier", "advance"} \cup Acking
Locations == Down \cup InSession \cup {"top", "preflight", "start", "backoff", "stopping"}

\* One fault of the given kind, charged to the bound.
Fault(kind) ==
    /\ kind \in Faults
    /\ faults < MaxFaults
    /\ faults' = faults + 1

Init ==
    /\ tip = 1 /\ txs = {}
    /\ confirmed = 1 /\ persisted = 1
    /\ walStatus = "reserved" /\ holder = "none" /\ flight = 0
    /\ pos = 0 /\ mid = 0 /\ recv = 0 /\ fbk = 0
    /\ pc = "stopped" /\ trk = NewTracker /\ open = 0 /\ target = 0
    /\ shutdown = FALSE
    /\ pending = 0 /\ buf = {} /\ disk = {}
    /\ faults = 0

\* Control moves on and nothing else changes.
Goto(location) ==
    /\ pc' = location
    /\ UNCHANGED <<walVars, slotVars, streamVars, trk, open, target, shutdown,
                   sinkVars, faults>>

-----------------------------------------------------------------------------
(* The server.                                                             *)

\* A transaction of the publication commits.
CommitTx ==
    /\ tip < MaxLsn
    /\ tip' = tip + 1
    /\ txs' = txs \cup {tip'}
    /\ UNCHANGED <<slotVars, streamVars, procVars, sinkVars, faults>>

\* WAL with nothing of the publication in it.
OtherTraffic ==
    /\ tip < MaxLsn
    /\ tip' = tip + 1
    /\ UNCHANGED <<txs, slotVars, streamVars, procVars, sinkVars, faults>>

\* The walsender processes a standby status update that reached it, perhaps
\* after the client that sent it is gone.
DeliverFeedback ==
    /\ holder # "none" /\ flight # 0
    /\ confirmed' = IF ForwardOnly THEN Raise(confirmed, flight) ELSE flight
    /\ flight' = 0
    /\ UNCHANGED <<walVars, persisted, walStatus, holder, streamVars, procVars,
                   sinkVars, faults>>

\* The walsender of a session that is over exits; what it had not read is lost.
ReleaseStale ==
    /\ holder = "stale"
    /\ holder' = "none" /\ flight' = 0
    /\ UNCHANGED <<walVars, confirmed, persisted, walStatus, streamVars,
                   procVars, sinkVars, faults>>

\* A checkpoint writes the slot to the server's disk.
Checkpoint ==
    /\ persisted # confirmed
    /\ persisted' = confirmed
    /\ UNCHANGED <<walVars, confirmed, walStatus, holder, flight, streamVars,
                   procVars, sinkVars, faults>>

\* The server crashes and recovers: the slot is back at its last checkpoint.
ServerCrash ==
    /\ Fault("server")
    /\ confirmed' = persisted
    /\ holder' = "none" /\ flight' = 0
    /\ UNCHANGED <<walVars, persisted, walStatus, streamVars, procVars, sinkVars>>

\* max_slot_wal_keep_size is exceeded: the slot is invalidated for good and
\* the walsender that held it is terminated.
LoseWal ==
    /\ walStatus = "reserved"
    /\ Fault("lost")
    /\ walStatus' = "lost"
    /\ holder' = "none" /\ flight' = 0
    /\ UNCHANGED <<walVars, confirmed, persisted, streamVars, procVars, sinkVars>>

-----------------------------------------------------------------------------
(* The end of a session and the end of the process.                        *)

\* The socket closes; the server may notice later.
Abandon(h) == IF h = "ours" THEN "stale" ELSE h

\* stream_once returns and handle_session_outcome answers Reconnect.  The
\* stream object is dropped; the assembler is reset only after the pause.
LeaveSession ==
    /\ pc' = "backoff"
    /\ holder' = Abandon(holder)
    /\ pos' = 0 /\ mid' = 0 /\ recv' = 0 /\ fbk' = 0
    /\ target' = 0

\* The process is gone, memory with it.  Of the accepted transactions any part
\* may have reached the medium all the same: the writer flushes on drop, and
\* the kernel writes back what it was handed.
Die(code) ==
    /\ pc' = code
    /\ \E survivors \in SUBSET buf : disk' = disk \cup survivors
    /\ buf' = {} /\ pending' = 0
    /\ trk' = NewTracker /\ open' = 0 /\ target' = 0 /\ shutdown' = FALSE
    /\ pos' = 0 /\ mid' = 0 /\ recv' = 0 /\ fbk' = 0
    /\ holder' = Abandon(holder)
    /\ UNCHANGED <<walVars, confirmed, persisted, walStatus, flight>>

\* The operator or a supervisor starts pgcdc.
Launch ==
    /\ pc \in Down
    /\ Goto("top")

Kill ==
    /\ pc \notin Down
    /\ Fault("kill")
    /\ Die("killed")

\* SIGTERM or SIGINT: the listener task raises the flag, nothing else.
Signal ==
    /\ pc \notin Down /\ ~shutdown
    /\ Fault("signal")
    /\ shutdown' = TRUE
    /\ UNCHANGED <<walVars, slotVars, streamVars, pc, trk, open, target, sinkVars>>

-----------------------------------------------------------------------------
(* The outer loop `run`.                                                   *)

TopStop ==
    /\ pc = "top" /\ shutdown
    /\ Die("stopped")
    /\ UNCHANGED faults

TopGo ==
    /\ pc = "top" /\ ~shutdown
    /\ Goto("preflight")

\* The flag seen before a chunk of the sliced pause: exit without a barrier.
BackoffStop ==
    /\ pc = "backoff" /\ shutdown
    /\ Die("stopped")
    /\ UNCHANGED faults

\* The pause is over (a flag raised during its last chunk is not seen here):
\* reset_for_reconnect drops the assembler's half-read transaction and keeps
\* the tracker.
BackoffElapsed ==
    /\ pc = "backoff"
    /\ pc' = "top"
    /\ open' = 0
    /\ UNCHANGED <<walVars, slotVars, streamVars, trk, target, shutdown,
                   sinkVars, faults>>

\* ShutdownRequested reaches `run`, which returns Ok.
Stop ==
    /\ pc = "stopping"
    /\ Die("stopped")
    /\ UNCHANGED faults

-----------------------------------------------------------------------------
(* stream_once up to its loop: preflight_slot, check_reconnect, start.     *)

IsReconnect(durable) == durable > 0

\* Variant: an exact match refused, too.
SlotAheadOrEqual == IsReconnect(trk.durable) /\ confirmed >= trk.durable

\* Variant: the comparison the other way round.
SlotAheadReversed == IsReconnect(trk.durable) /\ trk.durable > confirmed

\* check_reconnect finds somebody acknowledged what we have not stored.
SlotAhead == IsReconnect(trk.durable) /\ confirmed > trk.durable

\* preflight_slot: the query finds no row.
SlotMissing == walStatus = "missing"

\* Only "lost" is final: "reserved" stands for every other status, too.
SlotHealthIsTerminal == walStatus = "lost"

PreflightOk ==
    /\ pc = "preflight"
    /\ ~SlotMissing /\ ~SlotHealthIsTerminal /\ ~SlotAhead
    /\ Goto("start")

\* SlotMissing, SlotUnusable or SlotAhead, all fatal.
PreflightRefused ==
    /\ pc = "preflight"
    /\ SlotMissing \/ SlotHealthIsTerminal \/ SlotAhead
    /\ Die("failed")
    /\ UNCHANGED faults

\* The preflight connection or query, opening the stream, or a transient
\* failure of start(): PgcdcError::Connection.
ConnectFails ==
    /\ pc \in {"preflight", "start"}
    /\ Fault("net")
    /\ LeaveSession
    /\ UNCHANGED <<walVars, confirmed, persisted, walStatus, flight, trk, open,
                   shutdown, sinkVars>>

\* start(None): the server streams from the slot's confirmed_flush_lsn.
StartOk ==
    /\ pc = "start"
    /\ walStatus = "reserved" /\ holder = "none"
    /\ pc' = "turn"
    /\ holder' = "ours"
    /\ pos' = confirmed /\ mid' = 0 /\ recv' = 0 /\ fbk' = 0
    /\ UNCHANGED <<walVars, confirmed, persisted, walStatus, flight, trk, open,
                   target, shutdown, sinkVars, faults>>

\* SQLSTATE 55006, our previous walsender still holds the slot: recoverable.
StartBusy ==
    /\ pc = "start" /\ holder = "stale"
    /\ LeaveSession
    /\ UNCHANGED <<walVars, confirmed, persisted, walStatus, flight, trk, open,
                   shutdown, sinkVars, faults>>

\* The same answer with the patience spent: SlotBusyTimedOut, fatal.
StartBusyTimedOut ==
    /\ pc = "start" /\ holder = "stale"
    /\ Fault("fatal")
    /\ Die("failed")

\* The slot was invalidated after the preflight: SlotUnusable, fatal.
StartRefused ==
    /\ pc = "start" /\ walStatus = "lost"
    /\ Die("failed")
    /\ UNCHANGED faults

-----------------------------------------------------------------------------
(* One turn of the session loop.                                           *)

\* Variant: a stop without the final barrier.
TurnStoppingAtOnce ==
    /\ pc = "turn"
    /\ Goto(IF shutdown THEN "stopping" ELSE "read")

\* Variant: the flag is looked at by the outer loop only.
TurnWithoutCheck ==
    /\ pc = "turn"
    /\ Goto("read")

Turn ==
    /\ pc = "turn"
    /\ Goto(IF shutdown THEN "stopBarrier" ELSE "read")

\* t is the next transaction this walsender streams.
NextToStream(t) ==
    /\ t \in txs /\ t > pos
    /\ \A u \in txs : u > pos => t <= u

\* BEGIN and the changes.  They carry positions inside the transaction, which
\* may lie before the transactions that committed in the meantime.
ReadBegin ==
    /\ pc = "read" /\ holder = "ours" /\ mid = 0
    /\ \E t \in txs : \E walEnd \in 1..(t - 1) :
        /\ NextToStream(t)
        /\ mid' = t /\ open' = t
        /\ trk' = NoteReceived(trk, walEnd)
        /\ recv' \in {walEnd, Raise(recv, walEnd)}
        /\ pos' = Raise(pos, walEnd)
    /\ pc' = "barrier"
    /\ UNCHANGED <<walVars, slotVars, fbk, target, shutdown, sinkVars, faults>>

\* Variant: the position is kept before the write, and the write is lost.
ReadCommitUnwritten ==
    /\ pc = "read" /\ holder = "ours" /\ mid # 0
    /\ recv' = mid /\ pos' = mid /\ mid' = 0
    /\ pending' = open
    /\ trk' = NoteProcessed(NoteReceived(trk, mid), open)
    /\ open' = 0
    /\ pc' = "barrier"
    /\ UNCHANGED <<walVars, slotVars, fbk, target, shutdown, buf, disk, faults>>

\* Variant: the sink forgets to keep the position it will report.
ReadCommitNotPending ==
    /\ pc = "read" /\ holder = "ours" /\ mid # 0
    /\ recv' = mid /\ pos' = mid /\ mid' = 0
    /\ buf' = buf \cup {open}
    /\ trk' = NoteProcessed(NoteReceived(trk, mid), open)
    /\ open' = 0
    /\ pc' = "barrier"
    /\ UNCHANGED <<walVars, slotVars, fbk, target, shutdown, pending, disk, faults>>

\* COMMIT: the assembler yields the transaction, the sink accepts it.
ReadCommit ==
    /\ pc = "read" /\ holder = "ours" /\ mid # 0
    /\ recv' = mid /\ pos' = mid /\ mid' = 0
    /\ buf' = buf \cup {open} /\ pending' = open
    /\ trk' = NoteProcessed(NoteReceived(trk, mid), open)
    /\ open' = 0
    /\ pc' = "barrier"
    /\ UNCHANGED <<walVars, slotVars, fbk, target, shutdown, disk, faults>>

\* decode, Assembler::handle or write_transaction fails: fatal.  What the sink
\* was handed of this transaction is not counted anywhere.
FrameFails ==
    /\ pc = "read" /\ holder = "ours"
    /\ \E t \in txs : t > pos
    /\ Fault("fatal")
    /\ Die("failed")

\* The crate's send_feedback: silent before the first message of a session,
\* and never beyond the last position received.
FeedbackSent(flushed) ==
    IF recv' = 0 \/ flushed = 0 \/ holder # "ours"
      THEN flight
      ELSE IF flushed > recv' THEN recv' ELSE flushed

\* A keepalive, consumed inside next_raw_event.  Its position k says that
\* every transaction up to k has been streamed; when it asks for a reply the
\* crate sends the shared feedback by itself.
Keepalive(k) ==
    /\ pc = "read" /\ holder = "ours"
    /\ k >= pos /\ k <= tip
    /\ \A t \in txs : t <= k => t <= pos
    /\ recv' = k /\ pos' = k
    /\ flight' \in {flight, FeedbackSent(fbk)}
    /\ UNCHANGED <<walVars, confirmed, persisted, walStatus, holder, mid, fbk,
                   procVars, sinkVars, faults>>

\* SHUTDOWN_POLL_INTERVAL passed with nothing to read.
Tick ==
    /\ pc = "read"
    /\ Goto("barrier")

\* A connection without its walsender fails by itself, any other by a fault.
ConnectionBreaks == Fault("net") \/ (holder # "ours" /\ UNCHANGED faults)

\* next_raw_event answers an error: Disconnected, with no barrier.
ReadFails ==
    /\ pc = "read"
    /\ ConnectionBreaks
    /\ LeaveSession
    /\ UNCHANGED <<walVars, confirmed, persisted, walStatus, flight, trk, open,
                   shutdown, sinkVars>>

\* Variant: the buffer is emptied and nothing is synced.
FlushWithoutSync ==
    /\ pc \in {"barrier", "stopBarrier"} /\ pending # 0
    /\ buf' = {}
    /\ target' = pending /\ pending' = 0
    /\ pc' = IF pc = "barrier" THEN "ackTimer" ELSE "ackStop"
    /\ UNCHANGED <<walVars, slotVars, streamVars, trk, open, shutdown, disk, faults>>

\* Sink::flush with something pending: everything accepted is on the medium,
\* and the position to mark durable is handed to acknowledge_durable.
Flush ==
    /\ pc \in {"barrier", "stopBarrier"} /\ pending # 0
    /\ disk' = disk \cup buf /\ buf' = {}
    /\ target' = pending /\ pending' = 0
    /\ pc' = IF pc = "barrier" THEN "ackTimer" ELSE "ackStop"
    /\ UNCHANGED <<walVars, slotVars, streamVars, trk, open, shutdown, faults>>

\* ack_interval has not elapsed, or flush answers None.
BarrierSkipped ==
    /\ pc = "barrier"
    /\ Goto("advance")

\* The stop barrier runs whatever the timer says; nothing was pending.
StopBarrierEmpty ==
    /\ pc = "stopBarrier" /\ pending = 0
    /\ Goto("stopping")

\* flush or fsync fails: PgcdcError::Sink, fatal.
FlushFails ==
    /\ pc \in {"barrier", "stopBarrier"} /\ pending # 0
    /\ Fault("fatal")
    /\ Die("failed")

\* note_durable then try_ack.
Settle(tracker, durable) == TryAck(NoteDurable(tracker, durable), durable)

AfterAck(location) ==
    CASE location = "ackTimer" -> "advance"
      [] location = "ackStop" -> "stopping"
      [] location = "ackIdle" -> "turn"

\* Variant: nothing is sent when the acknowledged position did not move.
AcknowledgeWhenMoved ==
    /\ pc \in Acking
    /\ trk' = Settle(trk, target)
    /\ fbk' = IF trk'.acked = trk.acked THEN fbk ELSE trk'.acked
    /\ UNCHANGED <<pos, mid, recv>>
    /\ flight' = IF trk'.acked = trk.acked THEN flight ELSE FeedbackSent(fbk')
    /\ target' = 0
    /\ pc' = AfterAck(pc)
    /\ UNCHANGED <<walVars, confirmed, persisted, walStatus, holder, open,
                   shutdown, sinkVars, faults>>

\* acknowledge_durable, all three call sites.
Acknowledge ==
    /\ pc \in Acking
    /\ trk' = Settle(trk, target)
    /\ fbk' = trk'.acked
    /\ UNCHANGED <<pos, mid, recv>>
    /\ flight' = FeedbackSent(fbk')
    /\ target' = 0
    /\ pc' = AfterAck(pc)
    /\ UNCHANGED <<walVars, confirmed, persisted, walStatus, holder, open,
                   shutdown, sinkVars, faults>>

\* The same with send_feedback failing: the tracker has moved, the server has
\* heard nothing, and the session is over, even on the way to a stop.
AcknowledgeFails ==
    /\ pc \in Acking
    /\ ConnectionBreaks
    /\ trk' = Settle(trk, target)
    /\ LeaveSession
    /\ UNCHANGED <<walVars, confirmed, persisted, walStatus, flight, open,
                   shutdown, sinkVars>>

\* Variant: between transactions is enough.
MayAdvanceBetweenTransactions(assemblerEmpty, processed, durable) == assemblerEmpty

\* Variant: a strict comparison.
MayAdvanceStrictly(assemblerEmpty, processed, durable) ==
    assemblerEmpty /\ processed < durable

MayAdvanceFromKeepalive(assemblerEmpty, processed, durable) ==
    assemblerEmpty /\ processed <= durable

\* The keepalive advance, on every turn.
Advance ==
    /\ pc = "advance"
    /\ IF MayAdvanceFromKeepalive(open = 0, trk.processed, trk.durable)
          /\ recv > trk.acked
         THEN pc' = "ackIdle" /\ target' = recv
         ELSE pc' = "turn" /\ target' = target
    /\ UNCHANGED <<walVars, slotVars, streamVars, trk, open, shutdown, sinkVars,
                   faults>>

-----------------------------------------------------------------------------

ServerStep ==
    \/ CommitTx \/ OtherTraffic \/ DeliverFeedback \/ ReleaseStale
    \/ Checkpoint \/ ServerCrash \/ LoseWal

\* What the process does by itself, whatever the network brings.
OwnStep ==
    \/ TopStop \/ TopGo \/ BackoffStop \/ BackoffElapsed \/ Stop
    \/ PreflightOk \/ PreflightRefused \/ StartOk \/ StartBusy \/ StartRefused
    \/ Turn \/ Tick \/ Flush \/ BarrierSkipped \/ StopBarrierEmpty
    \/ Acknowledge \/ Advance

ReadFrame == ReadBegin \/ ReadCommit

FailureStep ==
    \/ Kill \/ Signal \/ ConnectFails \/ StartBusyTimedOut \/ FrameFails
    \/ ReadFails \/ FlushFails \/ AcknowledgeFails

Next ==
    \/ ServerStep
    \/ Launch
    \/ OwnStep
    \/ ReadFrame
    \/ \E k \in Lsn : Keepalive(k)
    \/ FailureStep

Spec == Init /\ [][Next]_vars

-----------------------------------------------------------------------------
(* Fairness.  The process and its supervisor keep running; the walsender    *)
(* reads its socket and exits once its client is gone; a dead connection    *)
(* ends in a read error.  Strong fairness where the loop leaves and re-     *)
(* enters the location: data that is there is read before 200 ms pass       *)
(* for ever, the server sends its position in keepalives again and again,   *)
(* and the barrier timer expires on some turn because turns take time.      *)

KeepaliveAtTip == Keepalive(tip)

Fairness ==
    /\ WF_vars(Launch)
    /\ WF_vars(OwnStep)
    /\ WF_vars(DeliverFeedback)
    /\ WF_vars(ReleaseStale)
    /\ SF_vars(ReadFrame)
    /\ SF_vars(KeepaliveAtTip)
    /\ SF_vars(Flush)
    /\ SF_vars(holder # "ours" /\ ReadFails)

FairSpec == Spec /\ Fairness

-----------------------------------------------------------------------------
(* Properties.                                                             *)

\* Every variable stays in its domain.
TypeOK ==
    /\ tip \in Lsn /\ txs \in SUBSET Lsn
    /\ confirmed \in Lsn /\ persisted \in Lsn /\ flight \in Lsn
    /\ walStatus \in {"reserved", "lost", "missing"}
    /\ holder \in {"none", "ours", "stale"}
    /\ pos \in Lsn /\ mid \in Lsn /\ recv \in Lsn /\ fbk \in Lsn
    /\ pc \in Locations
    /\ trk \in Tracker(Lsn)
    /\ open \in Lsn /\ target \in Lsn
    /\ shutdown \in BOOLEAN
    /\ pending \in Lsn /\ buf \in SUBSET Lsn /\ disk \in SUBSET Lsn
    /\ faults \in 0..MaxFaults

\* Everything the publication committed up to a position is on the medium.
StoredUpTo(position) == \A t \in txs : t <= position => t \in disk

\* DECISIONS.md invariant 1 seen from the server: whatever the slot has let
\* go of, in memory or after a crash of the server, is on the medium; a crash
\* of either side at any moment loses nothing.
NoLoss == StoredUpTo(confirmed) /\ StoredUpTo(persisted)

\* The same for the positions that are about to become the slot's: what is on
\* the wire, what the transport crate may report by itself in answer to a
\* keepalive, and what the tracker calls durable and acknowledged.
NoFalseClaim ==
    /\ StoredUpTo(flight)
    /\ StoredUpTo(fbk)
    /\ StoredUpTo(trk.durable)
    /\ trk.acked <= trk.durable

\* guard.rs refuses to go on when the slot is ahead of the durable position.
\* With nobody else using the slot it never is, across drops, kills, lost and
\* late feedback and server crashes: a healthy slot is never refused.
NoFalseAlarm ==
    [][pc = "preflight" /\ walStatus = "reserved" => pc' # "failed"]_vars

\* A stop from inside a session leaves nothing accepted behind: the barrier has
\* carried it all (replication.rs:999, README "Exit codes").
OrderlyStopDrains == pc = "stopping" => buf = {} /\ pending = 0

\* Everything the process has accepted will be there after the next barrier:
\* reading on from this position skips no transaction.
NoGap == pc \in InSession => \A t \in txs : t <= pos => t \in disk \cup buf

\* Delivery: a committed transaction reaches the medium.
EventuallyStored == \A t \in Lsn : t \in txs ~> t \in disk

\* The slot is released past every committed transaction for good: redelivery
\* after drops, kills and server crashes comes to an end.
EventuallyReleased == <>[](\A t \in txs : t <= confirmed)

\* Unrelated traffic does not pin the WAL: the slot follows the WAL to its end,
\* on an idle publication too, or trails only inside what this run of the
\* process has already acknowledged.
SlotKeepsUp == <>[](confirmed = tip \/ tip <= trk.acked)

\* README "Guarantees": "An idle publication still advances the slot", to the
\* end of the WAL once the WAL stops growing.
SlotCatchesUp == <>[](confirmed = tip)

\* A signal ends the process, from wherever `run` is.
SignalStops == shutdown ~> pc \in Down

Promise == INSTANCE Delivery
             WITH committed <- txs, stored <- disk, released <- confirmed

\* Replication implements the at-least-once promise of Delivery.
ImplementsDelivery == Promise!Spec
=============================================================================
