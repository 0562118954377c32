--------------------------- MODULE ReplicationInv ---------------------------
(***************************************************************************)
(* The inductive invariant of Replication, part by part.  TLC checks it on *)
(* small instances (MCReplicationSafety, MCReplicationLive); the proofs *)
(* in ReplicationProofs use it for every instance.                         *)
(***************************************************************************)
EXTENDS Replication

\* Published transactions end after the slot's starting point and inside the WAL.
WalShape == tip >= 1 /\ \A t \in txs : 1 < t /\ t <= tip

\* No position anywhere runs ahead of the WAL, so no future commit is covered.
NothingAhead ==
    /\ confirmed <= tip /\ persisted <= tip /\ flight <= tip
    /\ pos <= tip /\ recv <= pos /\ fbk <= tip
    /\ trk.durable <= tip /\ trk.acked <= trk.durable
    /\ target <= tip

\* The sink holds committed transactions only, and what it has not carried to
\* the medium is at or below `processed`.
SinkHolds ==
    /\ disk \subseteq txs
    /\ \A t \in buf : t \in txs /\ t <= trk.processed
    /\ buf # {} => pending # 0

\* Accepting the last pending transaction came after accepting all before it.
PendingCoversItsPast ==
    pending # 0 => /\ pending \in txs
                   /\ \A t \in txs : t <= pending => t \in disk \cup buf

\* The stream object exists only inside a session, and the assembler follows it.
StreamShape ==
    /\ pc \in InSession => open = mid
    /\ pc \in Down \cup {"top", "preflight", "start"} => open = 0
    /\ pc \in {"backoff"} \cup Down => target = 0
    /\ mid # 0 => /\ mid \in txs /\ mid > pos
                  /\ \A t \in txs : t < mid => t <= pos

\* What acknowledge_durable is about to call durable is on the medium.
TargetIsStored == pc \in Acking => target # 0 /\ StoredUpTo(target)

\* From the stop barrier on nothing is left in the sink.
StopIsDrained == pc \in {"ackStop", "stopping"} => buf = {} /\ pending = 0

IInv ==
    /\ TypeOK
    /\ WalShape /\ NothingAhead
    /\ NoLoss /\ NoFalseClaim /\ NoGap
    /\ SinkHolds /\ PendingCoversItsPast
    /\ StreamShape /\ TargetIsStored /\ StopIsDrained

\* Why the slot is never ahead of a process that has made something durable.
\* Until it has, nothing it sent can move the slot, and whatever it will first
\* call durable lies at or beyond the position the slot started the stream from.
SlotBehind ==
    /\ persisted <= confirmed
    /\ holder = "none" => flight = 0
    /\ fbk <= trk.durable
    /\ trk.durable > 0 => confirmed <= trk.durable /\ flight <= trk.durable
    /\ trk.durable = 0 =>
        /\ pending # 0 => confirmed <= pending /\ flight = 0
        /\ pc \in InSession => confirmed <= pos /\ flight = 0
        /\ pc \in Acking => confirmed <= target
    /\ pc \in InSession /\ mid = 0 /\ recv # 0 => recv = pos

AlarmInv == ForwardOnly => SlotBehind
=============================================================================
