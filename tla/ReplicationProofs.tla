-------------------------- MODULE ReplicationProofs --------------------------
(***************************************************************************)
(* Machine-checked proofs about Replication, for every MaxLsn, MaxFaults,  *)
(* set of fault kinds and behaviour of the server towards a feedback that  *)
(* would move the slot backwards.                                          *)
(***************************************************************************)
EXTENDS ReplicationInv, TLAPS

-----------------------------------------------------------------------------
(* The tracker: what each operator returns (lsn.rs).                       *)

\* A tracker over any range of positions stays over it.
LEMMA TrackerType ==
  ASSUME NEW S \in SUBSET Nat, NEW t \in Tracker(S), NEW l \in S
  PROVE  /\ NoteReceived(t, l) \in Tracker(S)
         /\ NoteDurable(t, l) \in Tracker(S)
         /\ NoteProcessed(t, l) \in Tracker(S)
         /\ TryAck(t, l) \in Tracker(S)
BY DEF Tracker, NoteReceived, NoteDurable, NoteProcessed, TryAck, AckAllowed, Raise

\* Acknowledging right after marking durable is never refused, and moves both
\* positions to at least the argument without letting them cross.
LEMMA SettleEffect ==
  ASSUME NEW t \in Tracker(Lsn), NEW l \in Lsn, t.acked <= t.durable
  PROVE  /\ Settle(t, l) \in Tracker(Lsn)
         /\ Settle(t, l).durable = Raise(t.durable, l)
         /\ Settle(t, l).acked = Raise(t.acked, l)
         /\ Settle(t, l).processed = t.processed
         /\ Settle(t, l).acked <= Settle(t, l).durable
<1> DEFINE d == NoteDurable(t, l)
<1>1. /\ d \in Tracker(Lsn)
      /\ d.durable = Raise(t.durable, l)
      /\ d.acked = t.acked /\ d.processed = t.processed
  BY DEF Tracker, NoteDurable, Raise
<1>2. AckAllowed(d, l)
  BY <1>1, BoundsAssumption DEF AckAllowed, Raise, Tracker, Lsn
<1>3. Settle(t, l) = [d EXCEPT !.acked = Raise(d.acked, l)]
  BY <1>2 DEF Settle, TryAck
<1> HIDE DEF d
<1>4. /\ Settle(t, l) \in Tracker(Lsn)
      /\ Settle(t, l).durable = d.durable
      /\ Settle(t, l).acked = Raise(d.acked, l)
      /\ Settle(t, l).processed = d.processed
  BY <1>1, <1>3 DEF Tracker, Raise
<1>5. QED
  BY <1>1, <1>4, BoundsAssumption DEF Tracker, Raise, Lsn

\* LsnTracker::new gives a tracker over the positions of the model.
LEMMA NewTrackerType == NewTracker \in Tracker(Lsn)
BY BoundsAssumption DEF NewTracker, Tracker, Lsn

-----------------------------------------------------------------------------
\* A fresh slot, an empty medium and no process satisfy the invariant.
LEMMA InitIInv == Init => IInv
<1> SUFFICES ASSUME Init PROVE IInv
  OBVIOUS
<1> USE DEF Init
<1>0. trk \in Tracker(Lsn) /\ 0 \in Lsn /\ 1 \in Lsn /\ 0 \in 0..MaxFaults
  BY NewTrackerType, BoundsAssumption DEF Lsn
<1>1. TypeOK
  BY <1>0 DEF TypeOK, Locations, Down
<1>2. trk.durable = 0 /\ trk.acked = 0 /\ trk.processed = 0
  BY DEF NewTracker
<1>3. WalShape /\ NoLoss /\ NoGap /\ SinkHolds
  BY DEF WalShape, NoLoss, NoGap, StoredUpTo, SinkHolds
<1>4. NothingAhead /\ NoFalseClaim
  BY <1>2 DEF NothingAhead, NoFalseClaim, StoredUpTo
<1>5. PendingCoversItsPast /\ StreamShape /\ TargetIsStored /\ StopIsDrained
  BY DEF PendingCoversItsPast, StreamShape, TargetIsStored, StopIsDrained,
         Acking, InSession
<1>6. QED
  BY <1>1, <1>3, <1>4, <1>5 DEF IInv

\* Nothing the server does by itself breaks it: a commit ends beyond every
\* position in use, a crash falls back to a position that is as safe.
LEMMA ServerIInv == IInv /\ ServerStep => IInv'
<1> SUFFICES ASSUME IInv, ServerStep PROVE IInv'
  OBVIOUS
<1> USE BoundsAssumption
    DEF IInv, TypeOK, WalShape, NothingAhead, NoLoss, NoFalseClaim, NoGap,
        StoredUpTo, SinkHolds, PendingCoversItsPast, StreamShape,
        TargetIsStored, StopIsDrained, Lsn, Locations, Down, InSession, Acking,
        walVars, slotVars, streamVars, procVars, sinkVars, Fault, Tracker, Raise
<1>1. CASE CommitTx
  <2> USE <1>1 DEF CommitTx
  <2>1. TypeOK' /\ WalShape' /\ NothingAhead'
    OBVIOUS
  <2>2. NoLoss' /\ NoFalseClaim' /\ NoGap'
    OBVIOUS
  <2>3. SinkHolds' /\ PendingCoversItsPast' /\ TargetIsStored' /\ StopIsDrained'
    OBVIOUS
  <2>4. StreamShape'
    OBVIOUS
  <2>5. QED
    BY <2>1, <2>2, <2>3, <2>4
<1>2. CASE OtherTraffic
  BY <1>2 DEF OtherTraffic
<1>3. CASE DeliverFeedback
  BY <1>3 DEF DeliverFeedback
<1>4. CASE ReleaseStale
  BY <1>4 DEF ReleaseStale
<1>5. CASE Checkpoint
  BY <1>5 DEF Checkpoint
<1>6. CASE ServerCrash
  BY <1>6 DEF ServerCrash
<1>7. CASE LoseWal
  BY <1>7 DEF LoseWal
<1> QED
  BY <1>1, <1>2, <1>3, <1>4, <1>5, <1>6, <1>7 DEF ServerStep

\* The process may end anywhere: nothing it leaves behind claims too much.
LEMMA DieIInv ==
  ASSUME IInv, NEW code \in Down, Die(code), faults' \in 0..MaxFaults
  PROVE  IInv'
<1> USE BoundsAssumption
    DEF IInv, TypeOK, WalShape, NothingAhead, NoLoss, NoFalseClaim, NoGap,
        StoredUpTo, SinkHolds, PendingCoversItsPast, StreamShape,
        TargetIsStored, StopIsDrained, Lsn, Locations, Down, InSession, Acking,
        walVars, slotVars, streamVars, procVars, sinkVars, Die, Abandon
<1>1. trk' \in Tracker(Lsn) /\ trk'.durable = 0 /\ trk'.acked = 0 /\ trk'.processed = 0
  BY NewTrackerType DEF NewTracker
<1>2. disk \subseteq disk' /\ disk' \subseteq txs /\ disk' \in SUBSET Lsn
  OBVIOUS
<1>3. TypeOK'
  <2>1. /\ 0 \in Lsn
        /\ shutdown' = FALSE
        /\ faults' \in 0..MaxFaults
    OBVIOUS
  <2>4. holder' \in {"none", "ours", "stale"}
    OBVIOUS
  <2>2. /\ tip' \in Lsn /\ txs' \in SUBSET Lsn
        /\ confirmed' \in Lsn /\ persisted' \in Lsn /\ flight' \in Lsn
        /\ walStatus' \in {"reserved", "lost", "missing"}
        /\ pos' \in Lsn /\ mid' \in Lsn /\ recv' \in Lsn /\ fbk' \in Lsn
        /\ open' \in Lsn /\ target' \in Lsn
        /\ pending' \in Lsn /\ buf' \in SUBSET Lsn /\ pc' \in Locations
    OBVIOUS
  <2> HIDE DEF Die, IInv, Lsn, Locations, Down, InSession, Acking
  <2>3. QED
    BY <1>1, <1>2, <2>1, <2>2, <2>4
<1>4. WalShape' /\ NothingAhead' /\ NoLoss' /\ NoFalseClaim' /\ NoGap'
  BY <1>1, <1>2
<1>5. SinkHolds' /\ PendingCoversItsPast' /\ StreamShape' /\ TargetIsStored' /\ StopIsDrained'
  BY <1>1, <1>2
<1>6. QED
  BY <1>3, <1>4, <1>5

\* The steps of the outer loop and of connecting.
LEMMA ConnectIInv ==
  IInv /\ (Launch \/ TopGo \/ BackoffElapsed \/ PreflightOk \/ StartOk \/ StartBusy)
    => IInv'
<1> SUFFICES ASSUME IInv,
                    Launch \/ TopGo \/ BackoffElapsed \/ PreflightOk \/ StartOk \/ StartBusy
             PROVE  IInv'
  OBVIOUS
<1> USE BoundsAssumption
    DEF IInv, TypeOK, WalShape, NothingAhead, NoLoss, NoFalseClaim, NoGap,
        StoredUpTo, SinkHolds, PendingCoversItsPast, StreamShape,
        TargetIsStored, StopIsDrained, Lsn, Locations, Down, InSession, Acking,
        walVars, slotVars, streamVars, procVars, sinkVars, Goto
<1>1. CASE Launch
  BY <1>1 DEF Launch
<1>2. CASE TopGo
  BY <1>2 DEF TopGo
<1>3. CASE BackoffElapsed
  BY <1>3 DEF BackoffElapsed
<1>4. CASE PreflightOk
  BY <1>4 DEF PreflightOk
<1>5. CASE StartOk
  BY <1>5 DEF StartOk
<1>6. CASE StartBusy
  BY <1>6 DEF StartBusy, LeaveSession, Abandon
<1> QED
  BY <1>1, <1>2, <1>3, <1>4, <1>5, <1>6

\* The steps of the session loop that neither read a frame nor acknowledge.
LEMMA TurnIInv ==
  IInv /\ (Turn \/ Tick \/ Flush \/ BarrierSkipped \/ StopBarrierEmpty \/ Advance)
    => IInv'
<1> SUFFICES ASSUME IInv,
                    Turn \/ Tick \/ Flush \/ BarrierSkipped \/ StopBarrierEmpty \/ Advance
             PROVE  IInv'
  OBVIOUS
<1> USE BoundsAssumption
    DEF IInv, TypeOK, WalShape, NothingAhead, NoLoss, NoFalseClaim, NoGap,
        StoredUpTo, SinkHolds, PendingCoversItsPast, StreamShape,
        TargetIsStored, StopIsDrained, Lsn, Locations, Down, InSession, Acking,
        walVars, slotVars, streamVars, procVars, sinkVars, Goto
<1>1. CASE Turn
  BY <1>1 DEF Turn
<1>2. CASE Tick
  BY <1>2 DEF Tick
<1>3. CASE Flush
  BY <1>3 DEF Flush
<1>4. CASE BarrierSkipped
  BY <1>4 DEF BarrierSkipped
<1>5. CASE StopBarrierEmpty
  BY <1>5 DEF StopBarrierEmpty
<1>6. CASE Advance
  BY <1>6 DEF Advance, MayAdvanceFromKeepalive, Tracker
<1> QED
  BY <1>1, <1>2, <1>3, <1>4, <1>5, <1>6

\* Reading a frame: the transaction taken in is the next one of the stream.
LEMMA ReadIInv == IInv /\ ReadFrame => IInv'
<1> SUFFICES ASSUME IInv, ReadFrame PROVE IInv'
  OBVIOUS
<1> USE BoundsAssumption
    DEF IInv, TypeOK, WalShape, NothingAhead, NoLoss, NoFalseClaim, NoGap,
        StoredUpTo, SinkHolds, PendingCoversItsPast, StreamShape,
        TargetIsStored, StopIsDrained, Lsn, Locations, Down, InSession, Acking,
        walVars, slotVars, streamVars, procVars, sinkVars, Goto
<1>1. CASE ReadBegin
  <2>0. PICK t \in txs : \E walEnd \in 1..(t - 1) :
          /\ NextToStream(t)
          /\ mid' = t /\ open' = t
          /\ trk' = NoteReceived(trk, walEnd)
          /\ recv' \in {walEnd, Raise(recv, walEnd)}
          /\ pos' = Raise(pos, walEnd)
    BY <1>1 DEF ReadBegin
  <2>1. PICK walEnd \in 1..(t - 1) :
          /\ NextToStream(t)
          /\ mid' = t /\ open' = t
          /\ trk' = NoteReceived(trk, walEnd)
          /\ recv' \in {walEnd, Raise(recv, walEnd)}
          /\ pos' = Raise(pos, walEnd)
    BY <2>0
  <2>2. walEnd \in Lsn /\ walEnd < t /\ t \in Lsn
    OBVIOUS
  <2>3. /\ trk' \in Tracker(Lsn) /\ trk'.durable = trk.durable
        /\ trk'.acked = trk.acked /\ trk'.processed = trk.processed
    BY <2>1, <2>2 DEF NoteReceived, Raise, Tracker
  <2>4. /\ pos' \in Lsn /\ recv' \in Lsn /\ recv' <= pos' /\ pos <= pos' /\ pos' < t
        /\ \A u \in txs : u <= pos' => u <= pos
        /\ \A u \in txs : u < t => u <= pos'
    BY <2>1, <2>2 DEF NextToStream, Raise
  <2>5. TypeOK'
    BY <1>1, <2>1, <2>2, <2>3, <2>4 DEF ReadBegin
  <2>6. WalShape' /\ NothingAhead' /\ NoLoss' /\ NoFalseClaim' /\ NoGap'
    BY <1>1, <2>1, <2>2, <2>3, <2>4 DEF ReadBegin
  <2>7. SinkHolds' /\ PendingCoversItsPast' /\ StreamShape' /\ TargetIsStored' /\ StopIsDrained'
    BY <1>1, <2>1, <2>2, <2>3, <2>4 DEF ReadBegin
  <2>8. QED
    BY <2>5, <2>6, <2>7
<1>2. CASE ReadCommit
  <2>1. /\ trk' \in Tracker(Lsn) /\ trk'.durable = trk.durable
        /\ trk'.acked = trk.acked
        /\ open <= trk'.processed /\ trk.processed <= trk'.processed
    <3> DEFINE d == NoteReceived(trk, mid)
    <3>1. /\ d \in Tracker(Lsn) /\ d.durable = trk.durable
          /\ d.acked = trk.acked /\ d.processed = trk.processed
      BY DEF NoteReceived, Raise, Tracker
    <3>2. trk' = NoteProcessed(d, open)
      BY <1>2 DEF ReadCommit
    <3> HIDE DEF d
    <3>3. QED
      BY <3>1, <3>2 DEF NoteProcessed, Raise, Tracker
  <2>2. open = mid /\ mid \in txs /\ mid # 0 /\ trk.processed \in Nat /\ trk'.processed \in Nat
    BY <1>2, <2>1 DEF ReadCommit, Tracker
  <2>3. TypeOK' /\ WalShape'
    BY <1>2, <2>1, <2>2 DEF ReadCommit
  <2>4. NothingAhead' /\ NoLoss' /\ NoFalseClaim'
    BY <1>2, <2>1, <2>2 DEF ReadCommit
  <2>5. NoGap' /\ SinkHolds' /\ PendingCoversItsPast'
    BY <1>2, <2>1, <2>2 DEF ReadCommit
  <2>6. StreamShape' /\ TargetIsStored' /\ StopIsDrained'
    BY <1>2, <2>1, <2>2 DEF ReadCommit
  <2>7. QED
    BY <2>3, <2>4, <2>5, <2>6
<1> QED
  BY <1>1, <1>2 DEF ReadFrame

\* A keepalive moves the read position only over WAL with nothing to read, and
\* the reply the transport crate sends claims only what fbk already did.
LEMMA KeepaliveIInv ==
  ASSUME IInv, NEW k \in Lsn, Keepalive(k)
  PROVE  IInv'
<1> USE BoundsAssumption
    DEF IInv, TypeOK, WalShape, NothingAhead, NoLoss, NoFalseClaim, NoGap,
        StoredUpTo, SinkHolds, PendingCoversItsPast, StreamShape,
        TargetIsStored, StopIsDrained, Lsn, Locations, Down, InSession, Acking,
        walVars, slotVars, streamVars, procVars, sinkVars, Keepalive, FeedbackSent
<1> QED
  OBVIOUS

\* acknowledge_durable claims `target`, which is stored.
LEMMA AcknowledgeIInv == IInv /\ Acknowledge => IInv'
<1> SUFFICES ASSUME IInv, Acknowledge PROVE IInv'
  OBVIOUS
<1>1. /\ trk \in Tracker(Lsn) /\ target \in Lsn /\ trk.acked <= trk.durable
      /\ trk.durable \in Lsn /\ trk.acked \in Lsn
  BY DEF IInv, TypeOK, NothingAhead, Tracker
<1>2. /\ trk' \in Tracker(Lsn) /\ trk'.processed = trk.processed
      /\ trk'.durable = Raise(trk.durable, target)
      /\ trk'.acked = Raise(trk.acked, target)
      /\ trk'.acked <= trk'.durable
  BY <1>1, SettleEffect DEF Acknowledge
<1>3. /\ UNCHANGED <<tip, txs, confirmed, persisted, walStatus, holder, pos, mid,
                     recv, open, shutdown, pending, buf, disk, faults>>
      /\ fbk' = trk'.acked /\ target' = 0 /\ pc \in Acking
  BY DEF Acknowledge, walVars, sinkVars
<1>4. \/ pc = "ackTimer" /\ pc' = "advance"
      \/ pc = "ackStop" /\ pc' = "stopping"
      \/ pc = "ackIdle" /\ pc' = "turn"
  BY DEF Acknowledge, AfterAck, Acking
<1>5. trk'.durable \in Lsn /\ trk'.acked \in Lsn /\ trk'.durable <= tip
  BY <1>1, <1>2 DEF Raise, IInv, NothingAhead
<1>6. StoredUpTo(trk'.durable) /\ StoredUpTo(flight)
  BY <1>2, <1>3 DEF Raise, IInv, NoFalseClaim, TargetIsStored
<1>7. flight' \in Lsn /\ (flight' = flight \/ flight' <= fbk')
  <2>1. recv \in Lsn /\ flight \in Lsn /\ fbk' \in Lsn
    BY <1>3, <1>5 DEF IInv, TypeOK
  <2>2. QED
    BY <1>3, <2>1, BoundsAssumption DEF Acknowledge, FeedbackSent, Lsn
<1>8. TypeOK'
  <2>1. 0 \in Lsn /\ pc' \in Locations
    BY <1>4, BoundsAssumption DEF Lsn, Locations, InSession
  <2>2. QED
    BY <1>2, <1>3, <1>5, <1>7, <2>1 DEF IInv, TypeOK
<1>9. NothingAhead'
  <2>1. flight' <= tip
    BY <1>2, <1>3, <1>5, <1>7, BoundsAssumption DEF IInv, NothingAhead, TypeOK, Lsn
  <2>2. fbk' <= tip
    BY <1>2, <1>3, <1>5, BoundsAssumption DEF IInv, TypeOK, Lsn
  <2>3. QED
    BY <1>2, <1>3, <1>5, <2>1, <2>2, BoundsAssumption DEF IInv, NothingAhead, TypeOK, Lsn
<1>10. NoFalseClaim'
  <2>1. \A p \in Lsn : p <= trk'.durable => StoredUpTo(p)
    BY <1>5, <1>6, BoundsAssumption DEF StoredUpTo, IInv, TypeOK, Lsn
  <2>2. StoredUpTo(fbk')
    BY <1>2, <1>3, <1>5, <2>1
  <2>3. StoredUpTo(flight')
    BY <1>2, <1>3, <1>5, <1>6, <1>7, <2>1, BoundsAssumption DEF Lsn
  <2>4. QED
    BY <1>2, <1>3, <1>6, <2>2, <2>3 DEF NoFalseClaim, StoredUpTo
<1>11. WalShape' /\ NoLoss' /\ SinkHolds' /\ PendingCoversItsPast'
  BY <1>2, <1>3 DEF IInv, WalShape, NoLoss, StoredUpTo, SinkHolds, PendingCoversItsPast
<1>12. NoGap' /\ StreamShape'
  BY <1>3, <1>4 DEF IInv, NoGap, StreamShape, InSession, Acking, Down
<1>13. TargetIsStored' /\ StopIsDrained'
  BY <1>3, <1>4 DEF IInv, TargetIsStored, StopIsDrained, Acking
<1>14. QED
  BY <1>8, <1>9, <1>10, <1>11, <1>12, <1>13 DEF IInv

\* The steps that end the process: each is Die with a location of Down.
LEMMA EndIInv ==
  IInv /\ (TopStop \/ BackoffStop \/ Stop \/ PreflightRefused \/ StartRefused
           \/ Kill \/ StartBusyTimedOut \/ FrameFails \/ FlushFails)
    => IInv'
<1> SUFFICES ASSUME IInv,
                    TopStop \/ BackoffStop \/ Stop \/ PreflightRefused \/ StartRefused
                    \/ Kill \/ StartBusyTimedOut \/ FrameFails \/ FlushFails
             PROVE  IInv'
  OBVIOUS
<1>1. Die("stopped") \/ Die("failed") \/ Die("killed")
  BY DEF TopStop, BackoffStop, Stop, PreflightRefused, StartRefused, Kill,
         StartBusyTimedOut, FrameFails, FlushFails
<1>2. faults' \in 0..MaxFaults
  BY BoundsAssumption
  DEF TopStop, BackoffStop, Stop, PreflightRefused, StartRefused, Kill,
      StartBusyTimedOut, FrameFails, FlushFails, Fault, IInv, TypeOK
<1>3. QED
  BY <1>1, <1>2, DieIInv DEF Down

\* The steps that end a session and go on to the pause, and the signal.
LEMMA LeaveIInv ==
  IInv /\ (Signal \/ ConnectFails \/ ReadFails \/ AcknowledgeFails) => IInv'
<1> SUFFICES ASSUME IInv, Signal \/ ConnectFails \/ ReadFails \/ AcknowledgeFails
             PROVE  IInv'
  OBVIOUS
<1> USE BoundsAssumption
    DEF IInv, TypeOK, WalShape, NothingAhead, NoLoss, NoFalseClaim, NoGap,
        StoredUpTo, SinkHolds, PendingCoversItsPast, StreamShape,
        TargetIsStored, StopIsDrained, Lsn, Locations, Down, InSession, Acking,
        walVars, slotVars, streamVars, procVars, sinkVars, Fault, Goto
<1>1. CASE Signal
  BY <1>1 DEF Signal
<1>2. CASE ConnectFails
  BY <1>2 DEF ConnectFails, LeaveSession, Abandon
<1>3. CASE ReadFails
  BY <1>3 DEF ReadFails, ConnectionBreaks, LeaveSession, Abandon
<1>4. CASE AcknowledgeFails
  <2> USE <1>4 DEF AcknowledgeFails, LeaveSession, Abandon
  <2>1. /\ trk' \in Tracker(Lsn) /\ trk'.processed = trk.processed
        /\ trk'.durable = Raise(trk.durable, target)
        /\ trk'.acked <= trk'.durable
    <3> HIDE DEF IInv, TypeOK, NothingAhead, Lsn
    <3>1. trk \in Tracker(Lsn) /\ target \in Lsn /\ trk.acked <= trk.durable
      BY DEF IInv, TypeOK, NothingAhead
    <3>2. QED
      BY <3>1, SettleEffect
  <2>2. faults' \in 0..MaxFaults /\ 0 \in Lsn
    BY DEF ConnectionBreaks
  <2>3. trk'.durable \in Lsn /\ trk'.durable <= tip /\ StoredUpTo(trk'.durable)
    BY <2>1 DEF Tracker, Raise
  <2>4. TypeOK'
    BY <2>1, <2>2
  <2>5. WalShape' /\ NothingAhead' /\ NoLoss' /\ NoFalseClaim' /\ NoGap'
    BY <2>1, <2>3
  <2>6. SinkHolds' /\ PendingCoversItsPast' /\ StreamShape' /\ TargetIsStored' /\ StopIsDrained'
    BY <2>1
  <2>7. QED
    BY <2>4, <2>5, <2>6
<1> QED
  BY <1>1, <1>2, <1>3, <1>4

\* IInv is inductive: no step of anybody breaks it.
LEMMA NextIInv == IInv /\ [Next]_vars => IInv'
<1> SUFFICES ASSUME IInv, [Next]_vars PROVE IInv'
  OBVIOUS
<1>1. CASE ServerStep
  BY <1>1, ServerIInv
<1>2. CASE Launch
  BY <1>2, ConnectIInv
<1>3. CASE OwnStep
  BY <1>3, ConnectIInv, TurnIInv, EndIInv, AcknowledgeIInv DEF OwnStep
<1>4. CASE ReadFrame
  BY <1>4, ReadIInv
<1>5. CASE \E k \in Lsn : Keepalive(k)
  BY <1>5, KeepaliveIInv
<1>6. CASE FailureStep
  BY <1>6, EndIInv, LeaveIInv DEF FailureStep
<1>7. CASE UNCHANGED vars
  BY <1>7
  DEF vars, walVars, slotVars, streamVars, procVars, sinkVars, IInv, TypeOK,
      WalShape, NothingAhead, NoLoss, NoFalseClaim, NoGap, StoredUpTo,
      SinkHolds, PendingCoversItsPast, StreamShape, TargetIsStored, StopIsDrained
<1> QED
  BY <1>1, <1>2, <1>3, <1>4, <1>5, <1>6, <1>7 DEF Next

-----------------------------------------------------------------------------
(* Safety.                                                                 *)

\* The inductive invariant holds in every reachable state.
THEOREM Inductive == Spec => []IInv
<1>1. QED
  BY InitIInv, NextIInv, PTL DEF Spec

\* Every variable keeps its domain, at any number of faults.
THEOREM TypeCorrect == Spec => []TypeOK
<1>1. IInv => TypeOK
  BY DEF IInv
<1>2. QED
  BY <1>1, Inductive, PTL

\* Nothing the slot has let go of, now or after a crash of the server, is
\* missing from the medium: invariant 1 of the project (flush before
\* acknowledge), across drops, kills, restarts, lost and late feedback.
THEOREM Lossless == Spec => []NoLoss
<1>1. IInv => NoLoss
  BY DEF IInv
<1>2. QED
  BY <1>1, Inductive, PTL

\* Nor is anything that is on its way to becoming the slot's position, which
\* covers the feedback the transport crate sends by itself.
THEOREM ClaimsAreTrue == Spec => []NoFalseClaim
<1>1. IInv => NoFalseClaim
  BY DEF IInv
<1>2. QED
  BY <1>1, Inductive, PTL

\* Reading on skips no transaction: what was read is stored or accepted.
THEOREM Gapless == Spec => []NoGap
<1>1. IInv => NoGap
  BY DEF IInv
<1>2. QED
  BY <1>1, Inductive, PTL

\* An orderly stop from inside a session leaves nothing in the sink.
THEOREM StopDrains == Spec => []OrderlyStopDrains
<1>1. IInv => OrderlyStopDrains
  BY DEF IInv, StopIsDrained, OrderlyStopDrains
<1>2. QED
  BY <1>1, Inductive, PTL

-----------------------------------------------------------------------------
(* The slot guard.                                                         *)

\* Ending the process forgets `durable`, and with it what the guard compares.
LEMMA DieAlarm ==
  ASSUME IInv, AlarmInv, NEW code \in Down, Die(code)
  PROVE  AlarmInv'
BY BoundsAssumption
DEF IInv, TypeOK, AlarmInv, SlotBehind, Die, Abandon, NewTracker, Down,
    InSession, Acking, walVars, Lsn

\* AlarmInv is inductive relative to IInv.
LEMMA NextAlarm == IInv /\ AlarmInv /\ [Next]_vars => AlarmInv'
<1> SUFFICES ASSUME IInv, AlarmInv, [Next]_vars PROVE AlarmInv'
  OBVIOUS
<1>1. CASE Die("stopped") \/ Die("failed") \/ Die("killed")
  BY <1>1, DieAlarm DEF Down
<1> USE BoundsAssumption
    DEF IInv, TypeOK, NothingAhead, StreamShape, TargetIsStored, AlarmInv,
        SlotBehind, Lsn, Down, InSession, Acking, Raise,
        walVars, slotVars, streamVars, procVars, sinkVars, Goto
<1>2. CASE ServerStep
  BY <1>2 DEF ServerStep, CommitTx, OtherTraffic, DeliverFeedback, ReleaseStale,
              Checkpoint, ServerCrash, LoseWal, Tracker
<1>3. CASE Launch \/ TopGo \/ BackoffElapsed \/ PreflightOk \/ StartOk
           \/ Turn \/ Tick \/ BarrierSkipped \/ StopBarrierEmpty \/ Signal
  BY <1>3 DEF Launch, TopGo, BackoffElapsed, PreflightOk, StartOk, Turn, Tick,
              BarrierSkipped, StopBarrierEmpty, Signal, Tracker
<1>4. CASE StartBusy \/ ConnectFails \/ ReadFails
  BY <1>4 DEF StartBusy, ConnectFails, ReadFails, LeaveSession, Abandon, Tracker
<1>5. CASE Flush \/ Advance
  BY <1>5 DEF Flush, Advance, MayAdvanceFromKeepalive, Tracker
<1>6. CASE ReadBegin
  <2>1. PICK t \in txs : \E walEnd \in 1..(t - 1) :
          mid' = t /\ trk' = NoteReceived(trk, walEnd) /\ pos' = Raise(pos, walEnd)
    BY <1>6 DEF ReadBegin
  <2>2. PICK walEnd \in 1..(t - 1) :
          mid' = t /\ trk' = NoteReceived(trk, walEnd) /\ pos' = Raise(pos, walEnd)
    BY <2>1
  <2>3. trk'.durable = trk.durable /\ pos' >= pos /\ t # 0
    BY <2>2 DEF NoteReceived, Tracker
  <2>4. QED
    BY <1>6, <2>2, <2>3 DEF ReadBegin
<1>7. CASE ReadCommit
  <2>1. trk'.durable = trk.durable
    BY <1>7 DEF ReadCommit, NoteReceived, NoteProcessed, Tracker
  <2>2. QED
    BY <1>7, <2>1 DEF ReadCommit
<1>8. CASE \E k \in Lsn : Keepalive(k)
  BY <1>8 DEF Keepalive, FeedbackSent, Tracker
<1>9. CASE Acknowledge \/ AcknowledgeFails
  <2> SUFFICES ASSUME ForwardOnly PROVE AlarmInv'
    OBVIOUS
  <2>1. /\ trk'.durable = Raise(trk.durable, target)
        /\ trk'.acked = Raise(trk.acked, target)
        /\ trk'.acked <= trk'.durable
    <3> HIDE DEF IInv, TypeOK, NothingAhead, AlarmInv, SlotBehind, Raise, Lsn
    <3>1. trk \in Tracker(Lsn) /\ target \in Lsn /\ trk.acked <= trk.durable
      BY DEF IInv, TypeOK, NothingAhead
    <3>2. trk' = Settle(trk, target)
      BY <1>9 DEF Acknowledge, AcknowledgeFails
    <3>3. QED
      BY <3>1, <3>2, SettleEffect
  <2>2. trk'.durable > 0 /\ trk'.durable >= trk.durable /\ trk'.durable >= target
    BY <1>9, <2>1 DEF Tracker, Acknowledge, AcknowledgeFails
  <2>3. trk'.durable \in Nat /\ trk'.acked \in Nat /\ trk.durable \in Nat
    BY <2>1 DEF Tracker
  <2>4. CASE Acknowledge
    <3>1. fbk' = trk'.acked /\ recv' = recv /\ confirmed' = confirmed
      BY <2>4 DEF Acknowledge
    <3>2. flight' = flight \/ (holder # "none" /\ flight' <= fbk')
      BY <2>3, <2>4, <3>1 DEF Acknowledge, FeedbackSent
    <3>3. confirmed <= trk'.durable /\ flight <= trk'.durable /\ fbk' <= trk'.durable
      BY <2>1, <2>2, <2>3, <2>4, <3>1 DEF Acknowledge
    <3>4. flight' <= trk'.durable
      <4>1. fbk' \in Nat /\ flight \in Nat /\ recv \in Nat
        BY <2>3, <3>1
      <4>2. flight' \in Nat
        BY <2>4, <3>1, <4>1 DEF Acknowledge, FeedbackSent
      <4>3. QED
        BY <2>3, <3>2, <3>3, <4>1, <4>2
    <3>5. pc' \in {"advance", "stopping", "turn"}
      BY <2>4 DEF Acknowledge, AfterAck
    <3>6. QED
      BY <2>2, <2>4, <3>1, <3>2, <3>3, <3>4, <3>5 DEF Acknowledge
  <2>5. CASE AcknowledgeFails
    BY <2>2, <2>3, <2>5 DEF AcknowledgeFails, LeaveSession, Abandon
  <2>6. QED
    BY <1>9, <2>4, <2>5
<1>10. CASE UNCHANGED vars
  BY <1>10 DEF vars
<1> QED
  BY <1>1, <1>2, <1>3, <1>4, <1>5, <1>6, <1>7, <1>8, <1>9, <1>10
  DEF Next, OwnStep, FailureStep, ReadFrame, TopStop, BackoffStop, Stop,
      PreflightRefused, StartRefused, Kill, StartBusyTimedOut, FrameFails, FlushFails

\* Why the slot is never ahead of a process that has stored something, on a
\* server that never moves the slot backwards.
THEOREM SlotNeverAhead == Spec => []AlarmInv
<1>1. Init => AlarmInv
  BY DEF Init, AlarmInv, SlotBehind, NewTracker, InSession, Acking
<1>2. QED
  BY <1>1, NextAlarm, Inductive, PTL DEF Spec

\* With nobody else using the slot the guard never refuses a healthy one,
\* whatever was dropped, killed, delayed or crashed before (guard.rs:88).
THEOREM NoHealthySlotRefused ==
  ASSUME ForwardOnly PROVE Spec => NoFalseAlarm
<1>1. IInv /\ AlarmInv /\ [Next]_vars
        => [pc = "preflight" /\ walStatus = "reserved" => pc' # "failed"]_vars
  <2> SUFFICES ASSUME IInv, AlarmInv, Next, pc = "preflight", walStatus = "reserved"
               PROVE  pc' # "failed"
    OBVIOUS
  <2>1. ~SlotAhead
    BY BoundsAssumption
    DEF AlarmInv, SlotBehind, SlotAhead, IsReconnect, IInv, TypeOK, Tracker, Lsn
  <2>2. QED
    BY <2>1
    DEF Next, ServerStep, OwnStep, ReadFrame, FailureStep, CommitTx, OtherTraffic,
        DeliverFeedback, ReleaseStale, Checkpoint, ServerCrash, LoseWal, Launch,
        TopStop, TopGo, BackoffStop, BackoffElapsed, Stop, PreflightOk,
        PreflightRefused, SlotMissing, SlotHealthIsTerminal, StartOk, StartBusy,
        StartRefused, Turn, Tick, Flush, BarrierSkipped, StopBarrierEmpty,
        Acknowledge, Advance, ReadBegin, ReadCommit, Keepalive, Kill, Signal,
        ConnectFails, StartBusyTimedOut, FrameFails, ReadFails, FlushFails,
        AcknowledgeFails, LeaveSession, Die, Down, Acking, procVars, Goto
<1>2. QED
  BY <1>1, Inductive, SlotNeverAhead, PTL DEF Spec, NoFalseAlarm

-----------------------------------------------------------------------------
(* Refinement.                                                             *)

\* The operators of Delivery under the mapping are those of Replication.
LEMMA CoveredIsStored ==
  ASSUME NEW position PROVE Promise!Covered(position) <=> StoredUpTo(position)
BY DEF Promise!Covered, StoredUpTo

\* Every step of the engine is a step of the promise or leaves it alone.
LEMMA StepKeepsPromise ==
  IInv /\ IInv' /\ [Next]_vars => [Promise!Next]_(Promise!vars)
<1> SUFFICES ASSUME IInv, IInv', [Next]_vars
             PROVE  Promise!Next \/ UNCHANGED <<txs, disk, confirmed>>
  BY DEF Promise!vars
<1> USE DEF walVars, slotVars, streamVars, procVars, sinkVars, Goto
<1>1. CASE CommitTx
  <2>1. \A t \in txs' \ txs : t \in Nat /\ t > confirmed
    BY <1>1, BoundsAssumption DEF CommitTx, IInv, TypeOK, NothingAhead, Lsn
  <2>2. Promise!Commit
    BY <1>1, <2>1 DEF CommitTx, Promise!Commit
  <2>3. QED
    BY <2>2 DEF Promise!Next
<1>2. CASE UNCHANGED <<txs, confirmed>> /\ disk \subseteq disk'
  <2>1. disk' \subseteq txs
    BY <1>2 DEF IInv, SinkHolds
  <2>2. Promise!Store
    BY <1>2, <2>1 DEF Promise!Store
  <2>3. QED
    BY <2>2 DEF Promise!Next
<1>3. CASE UNCHANGED <<txs, disk>>
  <2>1. confirmed' \in Nat
    BY BoundsAssumption DEF IInv, TypeOK, Lsn
  <2>2. Promise!Covered(confirmed')
    BY <1>3 DEF IInv, NoLoss, StoredUpTo, Promise!Covered
  <2>3. Promise!Release
    BY <1>3, <2>1, <2>2 DEF Promise!Release
  <2>4. QED
    BY <2>3 DEF Promise!Next
<1>4. CASE Die("stopped") \/ Die("failed") \/ Die("killed")
  BY <1>2, <1>4 DEF Die
<1>5. CASE Flush
  BY <1>2, <1>5 DEF Flush
<1>6. CASE ServerStep
  BY <1>1, <1>3, <1>6
  DEF ServerStep, OtherTraffic, DeliverFeedback, ReleaseStale, Checkpoint,
      ServerCrash, LoseWal
<1>7. CASE Launch \/ TopGo \/ BackoffElapsed \/ PreflightOk \/ StartOk
           \/ StartBusy \/ ConnectFails \/ Signal
  BY <1>3, <1>7 DEF Launch, TopGo, BackoffElapsed, PreflightOk, StartOk,
                    StartBusy, ConnectFails, Signal
<1>8. CASE Turn \/ Tick \/ BarrierSkipped \/ StopBarrierEmpty \/ Advance
           \/ Acknowledge \/ AcknowledgeFails \/ ReadFails
  BY <1>3, <1>8 DEF Turn, Tick, BarrierSkipped, StopBarrierEmpty, Advance,
                    Acknowledge, AcknowledgeFails, ReadFails
<1>9. CASE ReadFrame \/ \E k \in Lsn : Keepalive(k)
  BY <1>3, <1>9 DEF ReadFrame, ReadBegin, ReadCommit, Keepalive
<1>10. CASE UNCHANGED vars
  BY <1>10 DEF vars
<1> QED
  BY <1>4, <1>5, <1>6, <1>7, <1>8, <1>9, <1>10
  DEF Next, OwnStep, FailureStep, TopStop, BackoffStop, Stop, PreflightRefused,
      StartRefused, Kill, StartBusyTimedOut, FrameFails, FlushFails

\* The engine, with its drops, kills and server crashes, delivers at least once.
THEOREM Refinement == Spec => ImplementsDelivery
<1>1. Init => Promise!Init
  BY DEF Init, Promise!Init
<1>2. QED
  BY <1>1, StepKeepsPromise, Inductive, PTL DEF Spec, ImplementsDelivery, Promise!Spec
=============================================================================
