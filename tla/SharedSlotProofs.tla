-------------------------- MODULE SharedSlotProofs --------------------------
(***************************************************************************)
(* Machine-checked proofs about SharedSlot, for every length of the WAL    *)
(* and number of faults, on a server that never moves the slot backwards   *)
(* (ForwardOnly) and does not crash.                                       *)
(*                                                                         *)
(* The promise of Replication is gone here: what somebody else has         *)
(* acknowledged is lost.  What is left of its invariant is the part beyond *)
(* the slot, and that part decides what the guard sees.                    *)
(***************************************************************************)
EXTENDS SharedSlot, ReplicationProofs

\* Everything the publication committed between the slot and a position is on
\* the medium.
StoredPastSlot(position) ==
    \A t \in txs : confirmed < t /\ t <= position => t \in disk

\* What the process has read past the slot it has stored or accepted, and what
\* it calls durable, or is about to, it has stored.
ReadPastSlot ==
    /\ \A t \in buf : t <= trk.processed
    /\ pending \in txs \cup {0}
    /\ \A t \in txs : confirmed < t /\ t <= pending => t \in disk \cup buf
    /\ pc \in InSession =>
         \A t \in txs : confirmed < t /\ t <= pos => t \in disk \cup buf
    /\ pc \in Acking => StoredPastSlot(target)
    /\ StoredPastSlot(trk.durable)

\* Nobody else gets the slot during a session of ours.
SessionHoldsSlot ==
    /\ pc \in InSession => holder = "ours" \/ (holder = "none" /\ walStatus # "reserved")
    /\ walStatus = "missing" => holder = "none"

\* A theft the guard has yet to see lies between what it compares.
TheftIsVisible ==
    /\ late \subseteq taken
    /\ taken # {} => trk.durable > 0
    /\ pc \in Down => taken = {}
    /\ \A t \in taken \ late : trk.durable < t /\ t <= confirmed
    /\ pc \in InSession \cup {"start"} => taken \subseteq late

\* What is left of the engine's own invariant ...
EngineInv ==
    /\ TypeOK
    /\ WalShape /\ NothingAhead /\ StreamShape
    /\ ReadPastSlot /\ SessionHoldsSlot

\* ... and the invariant with the thefts.
SharedInv == EngineInv /\ taken \in SUBSET Lsn /\ TheftIsVisible

-----------------------------------------------------------------------------
(* The engine's part.                                                      *)

\* The server commits, acknowledges in order and takes the slot back only when
\* nobody streams from it.
LEMMA ServerEngine ==
  ASSUME ForwardOnly, "server" \notin Faults, EngineInv, ServerStep
  PROVE  EngineInv' /\ confirmed <= confirmed'
<1> USE BoundsAssumption
    DEF EngineInv, TypeOK, WalShape, NothingAhead, StreamShape, ReadPastSlot,
        StoredPastSlot, SessionHoldsSlot, Lsn, Locations, Down, InSession, Acking,
        walVars, slotVars, streamVars, procVars, sinkVars, Fault, Tracker, Raise
<1>1. CASE CommitTx
  <2> USE <1>1 DEF CommitTx
  <2>1. TypeOK' /\ WalShape' /\ NothingAhead' /\ SessionHoldsSlot'
    OBVIOUS
  <2>2. StreamShape'
    OBVIOUS
  <2>3. ReadPastSlot'
    OBVIOUS
  <2>4. QED
    BY <2>1, <2>2, <2>3
<1>2. CASE OtherTraffic
  BY <1>2 DEF OtherTraffic
<1>3. CASE DeliverFeedback
  BY <1>3 DEF DeliverFeedback
<1>4. CASE ReleaseStale
  BY <1>4 DEF ReleaseStale
<1>5. CASE Checkpoint
  BY <1>5 DEF Checkpoint
<1>6. CASE ServerCrash
  BY <1>6 DEF ServerCrash
<1>7. CASE LoseWal
  BY <1>7 DEF LoseWal
<1>8. QED
  BY <1>1, <1>2, <1>3, <1>4, <1>5, <1>6, <1>7 DEF ServerStep

\* The end of the process forgets every claim it made.
LEMMA DieEngine ==
  ASSUME EngineInv, NEW code \in Down, Die(code), faults' \in 0..MaxFaults
  PROVE  EngineInv'
<1>1. /\ trk' \in Tracker(Lsn) /\ trk'.durable = 0 /\ trk'.acked = 0 /\ trk'.processed = 0
      /\ trk'.durable \in Lsn
  BY NewTrackerType DEF NewTracker, Die, Tracker
<1>2. /\ disk \subseteq disk' /\ disk' \in SUBSET Lsn
      /\ holder' \in {"none", "ours", "stale"} /\ (holder = "none" => holder' = "none")
  BY DEF EngineInv, TypeOK, Die, Abandon
<1>3. /\ pc' \in Down /\ buf' = {} /\ pending' = 0 /\ open' = 0 /\ target' = 0
      /\ shutdown' = FALSE /\ pos' = 0 /\ mid' = 0 /\ recv' = 0 /\ fbk' = 0
      /\ UNCHANGED <<walVars, confirmed, persisted, walStatus, flight>>
  BY DEF Die
<1>4. \A t \in txs : t \in Nat /\ t > 0
  BY DEF EngineInv, WalShape, TypeOK, Lsn
<1>5. TypeOK'
  BY <1>1, <1>2, <1>3, BoundsAssumption
     DEF EngineInv, TypeOK, walVars, Locations, Down, Lsn
<1>6. WalShape' /\ NothingAhead' /\ StreamShape'
  BY <1>1, <1>3, BoundsAssumption
     DEF EngineInv, TypeOK, WalShape, NothingAhead, StreamShape, walVars,
         Down, InSession, Acking, Lsn
<1>7. ReadPastSlot' /\ SessionHoldsSlot'
  BY <1>1, <1>2, <1>3, <1>4
     DEF EngineInv, ReadPastSlot, StoredPastSlot, SessionHoldsSlot, walVars,
         Down, InSession, Acking
<1>8. QED
  BY <1>5, <1>6, <1>7 DEF EngineInv

\* A session starts where the slot is; until then nothing is claimed anew.
LEMMA ConnectEngine ==
  EngineInv /\ (Launch \/ TopGo \/ BackoffElapsed \/ PreflightOk \/ StartOk \/ StartBusy)
    => EngineInv'
<1> SUFFICES ASSUME EngineInv,
                    Launch \/ TopGo \/ BackoffElapsed \/ PreflightOk \/ StartOk \/ StartBusy
             PROVE  EngineInv'
  OBVIOUS
<1> USE BoundsAssumption
    DEF EngineInv, TypeOK, WalShape, NothingAhead, StreamShape, ReadPastSlot,
        StoredPastSlot, SessionHoldsSlot, Lsn, Locations, Down, InSession, Acking,
        walVars, slotVars, streamVars, procVars, sinkVars, Goto
<1>1. CASE Launch
  BY <1>1 DEF Launch
<1>2. CASE TopGo
  BY <1>2 DEF TopGo
<1>3. CASE BackoffElapsed
  BY <1>3 DEF BackoffElapsed
<1>4. CASE PreflightOk
  BY <1>4 DEF PreflightOk
<1>5. CASE StartOk
  BY <1>5 DEF StartOk
<1>6. CASE StartBusy
  BY <1>6 DEF StartBusy, LeaveSession, Abandon
<1>7. QED
  BY <1>1, <1>2, <1>3, <1>4, <1>5, <1>6

\* What the loop makes a target is stored past the slot, after a barrier and
\* when an idle stream lets it run ahead.
LEMMA TurnEngine ==
  EngineInv /\ (Turn \/ Tick \/ Flush \/ BarrierSkipped \/ StopBarrierEmpty \/ Advance)
    => EngineInv'
<1> SUFFICES ASSUME EngineInv,
                    Turn \/ Tick \/ Flush \/ BarrierSkipped \/ StopBarrierEmpty \/ Advance
             PROVE  EngineInv'
  OBVIOUS
<1> USE BoundsAssumption
    DEF EngineInv, TypeOK, WalShape, NothingAhead, StreamShape, ReadPastSlot,
        StoredPastSlot, SessionHoldsSlot, Lsn, Locations, Down, InSession, Acking,
        walVars, slotVars, streamVars, procVars, sinkVars, Goto
<1>1. CASE Turn
  BY <1>1 DEF Turn
<1>2. CASE Tick
  BY <1>2 DEF Tick
<1>3. CASE Flush
  BY <1>3 DEF Flush
<1>4. CASE BarrierSkipped
  BY <1>4 DEF BarrierSkipped
<1>5. CASE StopBarrierEmpty
  BY <1>5 DEF StopBarrierEmpty
<1>6. CASE Advance
  BY <1>6 DEF Advance, MayAdvanceFromKeepalive, Tracker
<1>7. QED
  BY <1>1, <1>2, <1>3, <1>4, <1>5, <1>6

\* Reading takes in the next transaction of the stream.
LEMMA ReadEngine == EngineInv /\ ReadFrame => EngineInv'
<1> SUFFICES ASSUME EngineInv, ReadFrame PROVE EngineInv'
  OBVIOUS
<1> USE BoundsAssumption
    DEF EngineInv, TypeOK, WalShape, NothingAhead, StreamShape, ReadPastSlot,
        StoredPastSlot, SessionHoldsSlot, Lsn, Locations, Down, InSession, Acking,
        walVars, slotVars, streamVars, procVars, sinkVars, Goto
<1>1. CASE ReadBegin
  <2>1. PICK t \in txs : \E walEnd \in 1..(t - 1) :
          /\ NextToStream(t)
          /\ mid' = t /\ open' = t
          /\ trk' = NoteReceived(trk, walEnd)
          /\ recv' \in {walEnd, Raise(recv, walEnd)}
          /\ pos' = Raise(pos, walEnd)
    BY <1>1 DEF ReadBegin
  <2>2. PICK walEnd \in 1..(t - 1) :
          /\ NextToStream(t)
          /\ mid' = t /\ open' = t
          /\ trk' = NoteReceived(trk, walEnd)
          /\ recv' \in {walEnd, Raise(recv, walEnd)}
          /\ pos' = Raise(pos, walEnd)
    BY <2>1
  <2>3. walEnd \in Lsn /\ walEnd < t /\ t \in Lsn
    OBVIOUS
  <2>4. /\ trk' \in Tracker(Lsn) /\ trk'.durable = trk.durable
        /\ trk'.acked = trk.acked /\ trk'.processed = trk.processed
    BY <2>2, <2>3 DEF NoteReceived, Raise, Tracker
  <2>5. /\ pos' \in Lsn /\ recv' \in Lsn /\ recv' <= pos' /\ pos <= pos' /\ pos' < t
        /\ \A u \in txs : u <= pos' => u <= pos
        /\ \A u \in txs : u < t => u <= pos'
    BY <2>2, <2>3 DEF NextToStream, Raise
  <2>6. TypeOK' /\ WalShape' /\ NothingAhead' /\ SessionHoldsSlot'
    BY <1>1, <2>2, <2>3, <2>4, <2>5 DEF ReadBegin
  <2>7. StreamShape' /\ ReadPastSlot'
    BY <1>1, <2>2, <2>3, <2>4, <2>5 DEF ReadBegin
  <2>8. QED
    BY <2>6, <2>7
<1>2. CASE ReadCommit
  <2>1. /\ trk' \in Tracker(Lsn) /\ trk'.durable = trk.durable
        /\ trk'.acked = trk.acked
        /\ open <= trk'.processed /\ trk.processed <= trk'.processed
    <3> DEFINE d == NoteReceived(trk, mid)
    <3>1. /\ d \in Tracker(Lsn) /\ d.durable = trk.durable
          /\ d.acked = trk.acked /\ d.processed = trk.processed
      BY DEF NoteReceived, Raise, Tracker
    <3>2. trk' = NoteProcessed(d, open)
      BY <1>2 DEF ReadCommit
    <3> HIDE DEF d
    <3>3. QED
      BY <3>1, <3>2 DEF NoteProcessed, Raise, Tracker
  <2>2. open = mid /\ mid \in txs /\ mid # 0 /\ trk.processed \in Nat /\ trk'.processed \in Nat
    BY <1>2, <2>1 DEF ReadCommit, Tracker
  <2>3. TypeOK' /\ WalShape' /\ NothingAhead' /\ SessionHoldsSlot'
    BY <1>2, <2>1, <2>2 DEF ReadCommit
  <2>4. StreamShape'
    BY <1>2, <2>1, <2>2 DEF ReadCommit
  <2>5. ReadPastSlot'
    BY <1>2, <2>1, <2>2 DEF ReadCommit
  <2>6. QED
    BY <2>3, <2>4, <2>5
<1>3. QED
  BY <1>1, <1>2 DEF ReadFrame

\* A keepalive passes over WAL with nothing to read.
LEMMA KeepaliveEngine ==
  ASSUME EngineInv, NEW k \in Lsn, Keepalive(k)
  PROVE  EngineInv'
BY BoundsAssumption
   DEF EngineInv, TypeOK, WalShape, NothingAhead, StreamShape, ReadPastSlot,
       StoredPastSlot, SessionHoldsSlot, Lsn, Locations, Down, InSession, Acking,
       walVars, slotVars, streamVars, procVars, sinkVars, Keepalive, FeedbackSent

\* acknowledge_durable, whether the server hears of it or not.
LEMMA AcknowledgeEngine == EngineInv /\ (Acknowledge \/ AcknowledgeFails) => EngineInv'
<1> SUFFICES ASSUME EngineInv, Acknowledge \/ AcknowledgeFails PROVE EngineInv'
  OBVIOUS
<1>1. /\ trk \in Tracker(Lsn) /\ target \in Lsn /\ trk.acked <= trk.durable
      /\ pc \in Acking /\ trk' = Settle(trk, target)
  BY DEF EngineInv, TypeOK, NothingAhead, Acknowledge, AcknowledgeFails
<1>2. /\ trk' \in Tracker(Lsn) /\ trk'.processed = trk.processed
      /\ trk'.durable = Raise(trk.durable, target)
      /\ trk'.acked <= trk'.durable
  BY <1>1, SettleEffect
<1>3. /\ trk'.durable \in Lsn /\ trk'.durable <= tip /\ StoredPastSlot(trk'.durable)
      /\ trk'.acked \in Lsn /\ trk'.acked <= tip
  BY <1>1, <1>2, BoundsAssumption
     DEF EngineInv, TypeOK, NothingAhead, ReadPastSlot, StoredPastSlot, Tracker,
         Raise, Lsn
<1> HIDE DEF Settle
<1> USE BoundsAssumption
    DEF EngineInv, TypeOK, WalShape, NothingAhead, StreamShape, ReadPastSlot,
        StoredPastSlot, SessionHoldsSlot, Lsn, Locations, Down, InSession, Acking,
        walVars, slotVars, streamVars, procVars, sinkVars
<1>4. CASE Acknowledge
  <2>1. pc' \in {"advance", "stopping", "turn"} /\ fbk' = trk'.acked
    BY <1>4 DEF Acknowledge, AfterAck
  <2>2. flight' \in Lsn /\ flight' <= tip
    BY <1>3, <1>4, <2>1 DEF Acknowledge, FeedbackSent
  <2>3. /\ UNCHANGED <<walVars, confirmed, persisted, walStatus, holder, open,
                       shutdown, sinkVars, faults, pos, mid, recv>>
        /\ target' = 0
    BY <1>4 DEF Acknowledge
  <2>4. TypeOK' /\ WalShape' /\ NothingAhead'
    BY <1>2, <1>3, <2>1, <2>2, <2>3
  <2>5. StreamShape' /\ ReadPastSlot' /\ SessionHoldsSlot'
    BY <1>1, <1>2, <1>3, <2>1, <2>2, <2>3
  <2>6. QED
    BY <2>4, <2>5
<1>5. CASE AcknowledgeFails
  <2>1. /\ UNCHANGED <<walVars, confirmed, persisted, walStatus, flight, open,
                       shutdown, sinkVars>>
        /\ pc' = "backoff" /\ holder' = Abandon(holder)
        /\ pos' = 0 /\ mid' = 0 /\ recv' = 0 /\ fbk' = 0 /\ target' = 0
        /\ faults' \in 0..MaxFaults
    BY <1>5 DEF AcknowledgeFails, LeaveSession, ConnectionBreaks, Fault
  <2>2. holder' \in {"none", "ours", "stale"} /\ (holder = "none" => holder' = "none")
    BY <2>1 DEF Abandon
  <2>3. TypeOK' /\ WalShape' /\ NothingAhead'
    BY <1>2, <1>3, <2>1, <2>2
  <2>4. StreamShape' /\ ReadPastSlot' /\ SessionHoldsSlot'
    BY <1>2, <1>3, <2>1, <2>2
  <2>5. QED
    BY <2>3, <2>4
<1>6. QED
  BY <1>4, <1>5

\* A session that ends otherwise, and the signal.
LEMMA LeaveEngine == EngineInv /\ (Signal \/ ConnectFails \/ ReadFails) => EngineInv'
<1> SUFFICES ASSUME EngineInv, Signal \/ ConnectFails \/ ReadFails PROVE EngineInv'
  OBVIOUS
<1> USE BoundsAssumption
    DEF EngineInv, TypeOK, WalShape, NothingAhead, StreamShape, ReadPastSlot,
        StoredPastSlot, SessionHoldsSlot, Lsn, Locations, Down, InSession, Acking,
        walVars, slotVars, streamVars, procVars, sinkVars, Fault
<1>1. CASE Signal
  BY <1>1 DEF Signal
<1>2. CASE ConnectFails
  BY <1>2 DEF ConnectFails, LeaveSession, Abandon
<1>3. CASE ReadFails
  BY <1>3 DEF ReadFails, ConnectionBreaks, LeaveSession, Abandon
<1>4. QED
  BY <1>1, <1>2, <1>3

\* The steps that end the process.
LEMMA EndEngine ==
  EngineInv /\ (TopStop \/ BackoffStop \/ Stop \/ PreflightRefused \/ StartRefused
                \/ Kill \/ StartBusyTimedOut \/ FrameFails \/ FlushFails)
    => EngineInv' /\ pc' \in Down /\ confirmed' = confirmed
<1> SUFFICES ASSUME EngineInv,
                    TopStop \/ BackoffStop \/ Stop \/ PreflightRefused \/ StartRefused
                    \/ Kill \/ StartBusyTimedOut \/ FrameFails \/ FlushFails
             PROVE  EngineInv' /\ pc' \in Down /\ confirmed' = confirmed
  OBVIOUS
<1>1. Die("stopped") \/ Die("failed") \/ Die("killed")
  BY DEF TopStop, BackoffStop, Stop, PreflightRefused, StartRefused, Kill,
         StartBusyTimedOut, FrameFails, FlushFails
<1>2. faults' \in 0..MaxFaults
  BY BoundsAssumption
  DEF TopStop, BackoffStop, Stop, PreflightRefused, StartRefused, Kill,
      StartBusyTimedOut, FrameFails, FlushFails, Fault, EngineInv, TypeOK
<1>3. EngineInv'
  BY <1>1, <1>2, DieEngine DEF Down
<1>4. QED
  BY <1>1, <1>3 DEF Die, Down

\* Every step of the engine and its server keeps the engine's part, and the
\* slot never goes back.
LEMMA OwnEngine ==
  ASSUME ForwardOnly, "server" \notin Faults, EngineInv, Next
  PROVE  EngineInv' /\ confirmed <= confirmed'
<1>1. confirmed \in Nat
  BY BoundsAssumption DEF EngineInv, TypeOK, Lsn
<1>2. CASE ServerStep
  BY <1>2, ServerEngine
<1>3. CASE \/ TopStop \/ BackoffStop \/ Stop \/ PreflightRefused \/ StartRefused
           \/ Kill \/ StartBusyTimedOut \/ FrameFails \/ FlushFails
  <2>1. EngineInv' /\ confirmed' = confirmed
    BY <1>3, EndEngine
  <2>2. QED
    BY <1>1, <2>1
<1>4. CASE Launch \/ TopGo \/ BackoffElapsed \/ PreflightOk \/ StartOk \/ StartBusy
  <2>1. confirmed' = confirmed
    BY <1>4 DEF Launch, TopGo, BackoffElapsed, PreflightOk, StartOk, StartBusy, Goto,
                slotVars
  <2>2. QED
    BY <1>1, <1>4, <2>1, ConnectEngine
<1>5. CASE Turn \/ Tick \/ Flush \/ BarrierSkipped \/ StopBarrierEmpty \/ Advance
  <2>1. confirmed' = confirmed
    BY <1>5 DEF Turn, Tick, Flush, BarrierSkipped, StopBarrierEmpty, Advance, Goto,
                slotVars
  <2>2. QED
    BY <1>1, <1>5, <2>1, TurnEngine
<1>6. CASE ReadFrame
  <2>1. confirmed' = confirmed
    BY <1>6 DEF ReadFrame, ReadBegin, ReadCommit, slotVars
  <2>2. QED
    BY <1>1, <1>6, <2>1, ReadEngine
<1>7. CASE \E k \in Lsn : Keepalive(k)
  <2>1. confirmed' = confirmed
    BY <1>7 DEF Keepalive
  <2>2. QED
    BY <1>1, <1>7, <2>1, KeepaliveEngine
<1>8. CASE Acknowledge \/ AcknowledgeFails
  <2>1. confirmed' = confirmed
    BY <1>8 DEF Acknowledge, AcknowledgeFails
  <2>2. QED
    BY <1>1, <1>8, <2>1, AcknowledgeEngine
<1>9. CASE Signal \/ ConnectFails \/ ReadFails
  <2>1. confirmed' = confirmed
    BY <1>9 DEF Signal, ConnectFails, ReadFails, slotVars
  <2>2. QED
    BY <1>1, <1>9, <2>1, LeaveEngine
<1>10. QED
  BY <1>2, <1>3, <1>4, <1>5, <1>6, <1>7, <1>8, <1>9 DEF Next, OwnStep, FailureStep

-----------------------------------------------------------------------------
(* The thefts.                                                             *)

\* What the engine does to the two things the guard compares: `durable` moves
\* only where a session acknowledges, and a session is entered only through
\* a preflight that found the slot not ahead.
LEMMA OwnEffect ==
  ASSUME EngineInv, Next
  PROVE  \/ pc' \in Down
         \/ pc \in Acking /\ trk'.durable \in Nat /\ trk'.durable >= trk.durable
         \/ /\ trk'.durable = trk.durable
            /\ pc' \in InSession \cup {"start"} =>
                 pc \in InSession \cup {"start"} \/ (pc = "preflight" /\ ~SlotAhead)
<1> USE DEF Down, InSession, Acking
<1>1. trk \in Tracker(Lsn) /\ target \in Lsn /\ trk.acked <= trk.durable
  BY DEF EngineInv, TypeOK, NothingAhead
<1>2. CASE \/ TopStop \/ BackoffStop \/ Stop \/ PreflightRefused \/ StartRefused
           \/ Kill \/ StartBusyTimedOut \/ FrameFails \/ FlushFails
  BY <1>2, EndEngine
<1>3. CASE ServerStep
  BY <1>3 DEF ServerStep, CommitTx, OtherTraffic, DeliverFeedback, ReleaseStale,
              Checkpoint, ServerCrash, LoseWal, procVars
<1>4. CASE Launch \/ TopGo \/ BackoffElapsed \/ PreflightOk \/ StartOk \/ StartBusy
  BY <1>4 DEF Launch, TopGo, BackoffElapsed, PreflightOk, StartOk, StartBusy, Goto,
              LeaveSession
<1>5. CASE Turn \/ Tick \/ Flush \/ BarrierSkipped \/ StopBarrierEmpty \/ Advance
  BY <1>5 DEF Turn, Tick, Flush, BarrierSkipped, StopBarrierEmpty, Advance, Goto
<1>6. CASE ReadFrame
  BY <1>1, <1>6 DEF ReadFrame, ReadBegin, ReadCommit, NoteReceived, NoteProcessed, Tracker
<1>7. CASE \E k \in Lsn : Keepalive(k)
  BY <1>7 DEF Keepalive, procVars
<1>8. CASE Acknowledge \/ AcknowledgeFails
  <2>1. trk'.durable = Raise(trk.durable, target)
    BY <1>1, <1>8, SettleEffect DEF Acknowledge, AcknowledgeFails
  <2>2. trk.durable \in Nat /\ target \in Nat
    BY <1>1, BoundsAssumption DEF Tracker, Lsn
  <2>3. QED
    BY <1>8, <2>1, <2>2 DEF Acknowledge, AcknowledgeFails, Raise
<1>9. CASE Signal \/ ConnectFails \/ ReadFails
  BY <1>9 DEF Signal, ConnectFails, ReadFails, LeaveSession
<1>10. QED
  BY <1>2, <1>3, <1>4, <1>5, <1>6, <1>7, <1>8, <1>9 DEF Next, OwnStep, FailureStep

\* The engine's own steps do not hide a theft.
LEMMA OwnShared ==
  ASSUME ForwardOnly, "server" \notin Faults, SharedInv, OwnNext
  PROVE  SharedInv'
<1>1. EngineInv /\ EngineInv' /\ confirmed <= confirmed'
  BY OwnEngine DEF SharedInv, OwnNext
<1>2. /\ confirmed \in Nat /\ confirmed' \in Nat /\ trk.durable \in Nat
      /\ \A t \in taken : t \in Nat
  BY <1>1, BoundsAssumption DEF SharedInv, EngineInv, TypeOK, Lsn, Tracker
<1>3. TheftIsVisible /\ taken \in SUBSET Lsn
  BY DEF SharedInv
<1>4. CASE pc' \in Down
  <2>1. taken' = {} /\ late' = {}
    BY <1>4 DEF OwnNext, Remember
  <2>2. QED
    BY <1>1, <1>4, <2>1
       DEF SharedInv, TheftIsVisible, Down, InSession, Acking
<1>5. CASE pc' \notin Down
  <2>1. /\ taken' = {t \in taken : t <= confirmed'}
        /\ late' = {t \in late : t <= confirmed'}
    BY <1>5 DEF OwnNext, Remember
  <2>2. late' \subseteq taken' /\ taken' \in SUBSET Lsn
    BY <1>3, <2>1 DEF TheftIsVisible
  <2>3. \A t \in taken' \ late' : t \in taken \ late
    BY <2>1
  <2>4. CASE pc \in InSession \cup {"start"}
    <3>1. taken \subseteq late
      BY <1>3, <2>4 DEF TheftIsVisible
    <3>2. taken' \subseteq late'
      BY <2>1, <3>1
    <3>3. taken' # {} => trk'.durable > 0
      <4>1. trk'.durable \in Nat /\ trk'.durable >= trk.durable
        BY <1>1, <1>2, <1>5, OwnEffect DEF OwnNext
      <4>2. QED
        BY <1>2, <1>3, <2>1, <4>1 DEF TheftIsVisible
    <3>4. QED
      BY <1>1, <1>5, <2>2, <3>2, <3>3 DEF SharedInv, TheftIsVisible
  <2>5. CASE pc \notin InSession \cup {"start"}
    <3>1. /\ trk'.durable = trk.durable
          /\ pc' \in InSession \cup {"start"} => pc = "preflight" /\ ~SlotAhead
      BY <1>1, <1>5, <2>5, OwnEffect DEF OwnNext, InSession
    <3>2. pc' \in InSession \cup {"start"} => taken \subseteq late
      <4>1. SUFFICES ASSUME pc' \in InSession \cup {"start"}, NEW t \in taken \ late
                     PROVE  FALSE
        OBVIOUS
      <4>2. trk.durable > 0 /\ trk.durable < t /\ t <= confirmed /\ t \in Nat
        BY <1>2, <1>3 DEF TheftIsVisible
      <4>3. SlotAhead
        BY <1>2, <4>2 DEF SlotAhead, IsReconnect
      <4>4. QED
        BY <3>1, <4>1, <4>3
    <3>3. \A t \in taken' \ late' : trk'.durable < t /\ t <= confirmed'
      BY <1>3, <2>1, <2>3, <3>1 DEF TheftIsVisible
    <3>4. taken' # {} => trk'.durable > 0
      BY <1>3, <2>1, <3>1 DEF TheftIsVisible
    <3>5. pc' \in InSession \cup {"start"} => taken' \subseteq late'
      BY <2>1, <3>2
    <3>6. QED
      BY <1>1, <1>5, <2>2, <3>3, <3>4, <3>5 DEF SharedInv, TheftIsVisible
  <2>6. QED
    BY <2>4, <2>5
<1>6. QED
  BY <1>4, <1>5

\* Somebody else acknowledges: what is lost by that lies beyond `durable`.
LEMMA ForeignShared == SharedInv /\ ForeignAcknowledges => SharedInv'
<1> SUFFICES ASSUME SharedInv, ForeignAcknowledges PROVE SharedInv'
  OBVIOUS
<1> DEFINE new == {t \in txs : confirmed < t /\ t <= confirmed' /\ t \notin disk \cup buf}
<1>1. /\ walStatus = "reserved" /\ holder = "none"
      /\ faults' \in 0..MaxFaults
      /\ UNCHANGED <<walVars, persisted, walStatus, holder, flight, streamVars,
                     procVars, sinkVars>>
  BY BoundsAssumption DEF ForeignAcknowledges, Fault, SharedInv, EngineInv, TypeOK
<1>2. confirmed' \in Lsn /\ confirmed < confirmed' /\ confirmed' <= tip
  BY BoundsAssumption
     DEF ForeignAcknowledges, SharedInv, EngineInv, TypeOK, NothingAhead, Lsn
<1>3. EngineInv'
  <2>1. TypeOK' /\ WalShape' /\ NothingAhead' /\ StreamShape' /\ SessionHoldsSlot'
    BY <1>1, <1>2
       DEF SharedInv, EngineInv, TypeOK, WalShape, NothingAhead, StreamShape,
           SessionHoldsSlot, walVars, streamVars, procVars, sinkVars
  <2>2. \A t \in txs : confirmed' < t => confirmed < t
    BY <1>2, BoundsAssumption DEF SharedInv, EngineInv, TypeOK, Lsn
  <2>3. ReadPastSlot'
    BY <1>1, <2>2
       DEF SharedInv, EngineInv, ReadPastSlot, StoredPastSlot, walVars, streamVars,
           procVars, sinkVars
  <2>4. QED
    BY <2>1, <2>3 DEF EngineInv
<1>4. pc \notin InSession
  BY <1>1 DEF SharedInv, EngineInv, SessionHoldsSlot
<1>5. TheftIsVisible /\ taken \in SUBSET Lsn /\ new \subseteq Lsn
  BY DEF SharedInv, EngineInv, TypeOK
<1>6. /\ confirmed \in Nat /\ confirmed' \in Nat /\ \A t \in taken : t \in Nat
      /\ trk.durable \in Nat /\ trk' = trk /\ pc' = pc
  BY <1>1, <1>2, BoundsAssumption
     DEF SharedInv, EngineInv, TypeOK, Lsn, Tracker, procVars
<1>7. \A t \in new : trk.durable < t /\ t <= confirmed'
  BY <1>6, BoundsAssumption
     DEF SharedInv, EngineInv, TypeOK, ReadPastSlot, StoredPastSlot, Lsn
<1>8. \/ UNCHANGED <<taken, late>>
      \/ /\ pc \notin Down /\ IsReconnect(trk.durable) /\ taken' = taken \cup new
         /\ late' = IF pc = "start" THEN late \cup new ELSE late
  BY DEF ForeignAcknowledges
<1> HIDE DEF new
<1>9. taken' \in SUBSET Lsn
  BY <1>5, <1>8
<1>10. TheftIsVisible'
  <2>1. \A t \in taken \ late : trk.durable < t /\ t <= confirmed'
    BY <1>2, <1>5, <1>6 DEF TheftIsVisible
  <2>2. CASE UNCHANGED <<taken, late>>
    BY <1>5, <1>6, <2>1, <2>2 DEF TheftIsVisible
  <2>3. CASE /\ pc \notin Down /\ IsReconnect(trk.durable) /\ taken' = taken \cup new
             /\ late' = IF pc = "start" THEN late \cup new ELSE late
    <3>1. trk.durable > 0
      BY <2>3 DEF IsReconnect
    <3>2. late' \subseteq taken'
      BY <1>5, <2>3 DEF TheftIsVisible
    <3>3. \A t \in taken' \ late' : trk.durable < t /\ t <= confirmed'
      BY <1>7, <2>1, <2>3
    <3>4. pc = "start" => taken' \subseteq late'
      BY <1>5, <2>3 DEF TheftIsVisible
    <3>5. QED
      BY <1>4, <1>6, <2>3, <3>1, <3>2, <3>3, <3>4 DEF TheftIsVisible
  <2>4. QED
    BY <1>8, <2>2, <2>3
<1>11. QED
  BY <1>3, <1>9, <1>10 DEF SharedInv

\* A dropped slot claims nothing, and one made anew starts at the end of the
\* WAL, beyond every claim.
LEMMA SlotShared == SharedInv /\ (SlotDropped \/ StartCreatesSlot) => SharedInv'
<1> SUFFICES ASSUME SharedInv, SlotDropped \/ StartCreatesSlot PROVE SharedInv'
  OBVIOUS
<1>1. CASE SlotDropped
  <2>1. /\ UNCHANGED <<walVars, confirmed, persisted, holder, flight, streamVars,
                       procVars, sinkVars, taken, late>>
        /\ walStatus' = "missing" /\ holder = "none" /\ faults' \in 0..MaxFaults
    BY <1>1, BoundsAssumption DEF SlotDropped, Fault, SharedInv, EngineInv, TypeOK
  <2>2. QED
    BY <2>1
       DEF SharedInv, EngineInv, TypeOK, WalShape, NothingAhead, StreamShape,
           ReadPastSlot, StoredPastSlot, SessionHoldsSlot, TheftIsVisible,
           walVars, streamVars, procVars, sinkVars
<1>2. CASE StartCreatesSlot
  <2>1. /\ pc = "start" /\ pc' = "turn" /\ holder' = "ours" /\ walStatus' = "reserved"
        /\ confirmed' = tip /\ persisted' = tip
        /\ pos' = tip /\ mid' = 0 /\ recv' = 0 /\ fbk' = 0
        /\ taken' = {t \in taken : t <= confirmed'}
        /\ late' = {t \in late : t <= confirmed'}
        /\ UNCHANGED <<walVars, flight, trk, open, target, shutdown, sinkVars, faults>>
    BY <1>2 DEF StartCreatesSlot, Remember, Down
  <2>2. TypeOK' /\ WalShape' /\ NothingAhead' /\ StreamShape' /\ SessionHoldsSlot'
    BY <2>1, BoundsAssumption
       DEF SharedInv, EngineInv, TypeOK, WalShape, NothingAhead, StreamShape,
           SessionHoldsSlot, Lsn, Locations, Down, InSession, Acking, walVars, sinkVars
  <2>3. ReadPastSlot'
    <3>1. \A t \in txs' : ~(confirmed' < t)
      BY <2>1, BoundsAssumption DEF SharedInv, EngineInv, TypeOK, WalShape, Lsn, walVars
    <3>2. QED
      BY <2>1, <3>1
         DEF SharedInv, EngineInv, ReadPastSlot, StoredPastSlot, walVars, sinkVars
  <2>4. taken' \subseteq late' /\ late' \subseteq taken' /\ taken' \in SUBSET Lsn
    BY <2>1 DEF SharedInv, TheftIsVisible
  <2>5. TheftIsVisible'
    BY <2>1, <2>4 DEF SharedInv, TheftIsVisible, Down
  <2>6. QED
    BY <2>2, <2>3, <2>4, <2>5 DEF SharedInv, EngineInv
<1>3. QED
  BY <1>1, <1>2

\* The invariant holds initially and after every step.
LEMMA SharedInduction ==
  ASSUME ForwardOnly, "server" \notin Faults
  PROVE  /\ SharedInit => SharedInv
         /\ SharedInv /\ [SharedNext]_sharedVars => SharedInv'
<1>1. ASSUME SharedInit PROVE SharedInv
  <2>1. IInv
    BY <1>1, InitIInv DEF SharedInit
  <2>2. trk.durable = 0 /\ pending = 0 /\ buf = {} /\ pc = "stopped" /\ walStatus = "reserved"
    BY <1>1 DEF SharedInit, Init, NewTracker
  <2>3. ReadPastSlot /\ SessionHoldsSlot
    BY <2>1, <2>2
       DEF IInv, NoFalseClaim, StoredUpTo, ReadPastSlot, StoredPastSlot, WalShape, TypeOK,
           Lsn, SessionHoldsSlot, InSession, Acking
  <2>4. TheftIsVisible /\ taken \in SUBSET Lsn
    BY <1>1 DEF SharedInit, TheftIsVisible
  <2>5. QED
    BY <2>1, <2>3, <2>4 DEF IInv, SharedInv, EngineInv
<1>2. ASSUME SharedInv, UNCHANGED sharedVars PROVE SharedInv'
  BY <1>2
     DEF sharedVars, vars, walVars, slotVars, streamVars, procVars, sinkVars,
         SharedInv, EngineInv, TypeOK, WalShape, NothingAhead, StreamShape,
         ReadPastSlot, StoredPastSlot, SessionHoldsSlot, TheftIsVisible
<1>3. QED
  BY <1>1, <1>2, OwnShared, ForeignShared, SlotShared DEF SharedNext

\* Transactions somebody else acknowledged under a process that has something
\* durable stop it before it streams on past them, unless it happened after
\* the preflight had read the slot (guard.rs:88): for any length of the WAL and
\* any number of drops, kills and thefts, on a server that keeps its slot.
THEOREM TheftStopsTheProcess ==
  ASSUME ForwardOnly, "server" \notin Faults
  PROVE  SharedSpec => []TheftIsCaught
<1>1. SharedInv => TheftIsCaught
  BY DEF SharedInv, TheftIsVisible, TheftIsCaught
<1>2. QED
  BY <1>1, SharedInduction, PTL DEF SharedSpec
=============================================================================
