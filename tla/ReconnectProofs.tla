--------------------------- MODULE ReconnectProofs ---------------------------
(***************************************************************************)
(* Machine-checked proofs about ReconnectLoop, for every pause, budget,    *)
(* poll interval and latency.  The liveness of the patience stays with     *)
(* TLC.                                                                    *)
(***************************************************************************)
EXTENDS ReconnectLoop, Recursion, TLAPS

(* What the invariants rest on.                                            *)

\* `run` returns an error only once, and a reply of start() is forgotten before
\* the next one is asked for.
ErrorsEndTheLoop ==
    /\ pc \notin Down => cause = "none"
    /\ pc \in {"connect", "start", "session"} => reply = "none"

\* How long our dead sessions before the present one may have held the slot
\* since our last session started.
Excused == lost * ReleaseTime

\* Whoever holds the slot is known to the patience: during a session it is new;
\* while our own dead session is the reason, it counts no more time than this one
\* and those before it have held the slot, and when the slot is free, no more
\* than they were allowed to.
PatienceKnowsTheHolder ==
    /\ holder = "ours" => pc = "session" /\ patience = NewPatience
    /\ holder = "foreign" => foreign
    /\ holder = "stale" /\ ~foreign =>
          patience.accumulated + patience.since <= Excused + held
    /\ holder = "none" /\ ~foreign => patience.accumulated <= Excused + ReleaseTime

\* A signal that was slept through, or connected through, is on the way to
\* being seen: no path leads from there to another wait.
OverlookedOnce ==
    /\ unseen <= Poll /\ blind <= MaxLatency
    /\ unseen > 0 => shutdown /\ pc \in Down \cup {"pause", "top"}
    /\ blind > 0 => shutdown /\ pc \in Down \cup {"start", "session", "pause"}
    /\ unseen = 0 \/ blind = 0

IInv ==
    /\ TypeOK
    /\ ErrorsEndTheLoop
    /\ PatienceKnowsTheHolder
    /\ OverlookedOnce
    /\ BusyIsAccountedFor
    /\ RefusalsEndRacesRetry
    /\ GaugeIsHonest

-----------------------------------------------------------------------------
(* The operators.                                                          *)

\* Each doubling takes the result of the one before.
LEMMA Doubling ==
  /\ Doubled \in [Nat -> Nat] /\ Doubled[0] = Initial
  /\ \A n \in Nat : Doubled[n + 1] = 2 * Doubled[n]
<1> DEFINE step == [n \in Nat |-> [v \in Nat |-> 2 * v]]
           IsDoubled(f) == f = [n \in Nat |-> IF n = 0 THEN Initial ELSE 2 * f[n - 1]]
<1>1. Initial \in Nat /\ StepsThrough(step, Nat)
  BY ConfigAssumption DEF StepsThrough
<1> HIDE DEF step
<1>2. PICK f : IsIterated(f, Nat, Initial, step)
  BY <1>1, NaturalRecursion
<1> USE DEF IsIterated
<1>3. ASSUME NEW n \in Nat
      PROVE  f[n] = IF n = 0 THEN Initial ELSE 2 * f[n - 1]
  <2>1. CASE n = 0
    BY <1>2, <2>1
  <2>2. CASE n # 0
    <3>1. f[n - 1] \in Nat /\ f[n] = step[n][f[n - 1]]
      BY <1>2, <2>2
    <3>2. QED
      BY <2>2, <3>1 DEF step
  <2>3. QED
    BY <2>1, <2>2
<1>4. IsDoubled(f)
  BY <1>2, <1>3
<1>5. IsDoubled(Doubled)
  <2>1. Doubled = CHOOSE g : IsDoubled(g)
    BY DEF Doubled
  <2> HIDE DEF IsDoubled
  <2>2. QED
    BY <1>4, <2>1
<1>6. Doubled = f
  <2> DEFINE T == {n \in Nat : Doubled[n] # f[n]}
  <2>1. T = {}
    <3>1. SUFFICES ASSUME T # {} PROVE FALSE
      OBVIOUS
    <3>2. T \in SUBSET Nat
      OBVIOUS
    <3> HIDE DEF T
    <3>3. PICK k \in T : \A m \in T : k <= m
      BY <3>1, <3>2, LeastNatural
    <3> USE DEF T
    <3>4. k # 0
      BY <1>2, <1>5
    <3>5. k - 1 \in Nat /\ Doubled[k - 1] = f[k - 1]
      BY <3>3, <3>4
    <3>6. QED
      BY <1>3, <1>5, <3>4, <3>5
  <2>2. QED
    BY <1>2, <1>5, <2>1
<1>7. \A n \in Nat : f[n + 1] = 2 * f[n]
  BY <1>3
<1>8. QED
  BY <1>2, <1>6, <1>7

\* A dropped connection or a recoverable error counts one attempt and doubles
\* the pause, up to the ceiling and the bound of the counter.
LEMMA ReconnectBackoff ==
  ASSUME TypeOK, BackoffMatchesAttempt, Reconnect
  PROVE  BackoffMatchesAttempt'
<1> USE ConfigAssumption, EnvironmentAssumption
<1> DEFINE d == Doubled
<1>1. /\ d \in [Nat -> Nat] /\ d[0] = Initial /\ d[MaxAttempts] >= MaxPause
      /\ \A n \in Nat : d[n + 1] = 2 * d[n]
  BY Doubling
<1>2. attempt \in 0..MaxAttempts /\ current = Smaller(MaxPause, d[attempt])
  BY DEF TypeOK, BackoffMatchesAttempt
<1> HIDE DEF d
<1>3. /\ d[1] = 2 * Initial /\ d[attempt] \in Nat
      /\ d[attempt + 1] = 2 * d[attempt]
  <2>1. d[0 + 1] = 2 * d[0]
    BY <1>1
  <2>2. QED
    BY <1>1, <1>2, <2>1
<1>4. current' = Smaller(MaxPause, d[attempt'])
  <2>1. CASE moved
    <3>1. attempt' = 1 /\ current' = NextBackoff(Initial)
      BY <2>1 DEF Reconnect, NextDelay, Smaller
    <3>2. QED
      BY <1>3, <3>1 DEF NextBackoff, Smaller
  <2>2. CASE ~moved /\ attempt < MaxAttempts
    <3>1. attempt' = attempt + 1 /\ current' = NextBackoff(current)
      BY <1>2, <2>2 DEF Reconnect, NextDelay, Smaller
    <3>2. QED
      BY <1>2, <1>3, <3>1 DEF NextBackoff, Smaller
  <2>3. CASE ~moved /\ attempt = MaxAttempts
    <3>1. attempt' = attempt /\ current' = NextBackoff(current)
      BY <1>2, <2>3 DEF Reconnect, NextDelay, Smaller
    <3>2. QED
      BY <1>1, <1>2, <1>3, <2>3, <3>1 DEF NextBackoff, Smaller
  <2>4. QED
    BY <1>2, <2>1, <2>2, <2>3
<1>5. QED
  BY <1>4 DEF BackoffMatchesAttempt, d

Patience == [accumulated : 0..Budget, chained : BOOLEAN, since : 0..Budget]

\* Both counters of the patience stay inside the budget, whatever happens.
LEMMA PatienceType ==
  ASSUME NEW p \in Patience, NEW d \in Nat
  PROVE  /\ NewPatience \in Patience
         /\ Aged(p, d) \in Patience
         /\ Observed(p) \in Patience
         /\ Interrupted(p) \in Patience
         /\ PatienceAfterStart(p) \in Patience
<1> USE ConfigAssumption DEF Patience, Smaller
<1>1. NewPatience \in Patience
  BY DEF NewPatience
<1>2. Aged(p, d) \in Patience
  <2>1. Smaller(Budget, p.since + d) \in 0..Budget
    OBVIOUS
  <2>2. QED
    BY <2>1 DEF Aged
<1>3. Observed(p) \in Patience
  <2>1. Smaller(Budget, p.accumulated + p.since) \in 0..Budget
    OBVIOUS
  <2>2. QED
    BY <2>1 DEF Observed
<1>4. Interrupted(p) \in Patience
  BY <1>1 DEF Interrupted
<1>5. QED
  BY <1>1, <1>2, <1>3, <1>4 DEF PatienceAfterStart

\* Time passes for the patience at most as fast as for the server, and neither
\* a busy answer nor an interruption adds to what it has counted or may count.
LEMMA PatienceGrowth ==
  ASSUME NEW p \in Patience, NEW d \in Nat
  PROVE  /\ Aged(p, d).accumulated = p.accumulated
         /\ Interrupted(p).accumulated = p.accumulated
         /\ Aged(p, d).accumulated + Aged(p, d).since <= p.accumulated + p.since + d
         /\ Observed(p).accumulated + Observed(p).since <= p.accumulated + p.since
         /\ Interrupted(p).accumulated + Interrupted(p).since <= p.accumulated + p.since
BY ConfigAssumption
   DEF Patience, Aged, Observed, Interrupted, NewPatience, Smaller

\* Each lost answer excuses one more release time, and a new session none.
LEMMA ExcusedTime ==
  ASSUME lost \in Nat
  PROVE  /\ Excused \in Nat /\ (lost + 1) * ReleaseTime = Excused + ReleaseTime
         /\ UNCHANGED lost => Excused' = Excused
         /\ lost' = lost + 1 => Excused' = Excused + ReleaseTime
         /\ lost' = 0 => Excused' = 0
BY EnvironmentAssumption DEF Excused

\* Every pause lies between the initial one and the ceiling.
LEMMA PauseBounds ==
  ASSUME NEW productive \in BOOLEAN, current \in Initial..MaxPause
  PROVE  /\ NextDelay(productive) \in Initial..MaxPause
         /\ NextBackoff(NextDelay(productive)) \in Initial..MaxPause
BY ConfigAssumption DEF NextDelay, NextBackoff

\* How a pass ends: the loop stops, or it fails with a fatal error, or it goes
\* round after a dropped connection or a recoverable error.
LEMMA EndEffect ==
  ASSUME TypeOK, NEW outcome \in Outcomes, End(outcome)
  PROVE  /\ ~streaming'
         /\ UNCHANGED <<shutdown, foreign, unseen>>
         /\ attempt' \in 0..MaxAttempts /\ current' \in Initial..MaxPause
         /\ remaining' \in 0..MaxPause /\ moved' \in BOOLEAN /\ streaming' \in BOOLEAN
         /\ \/ pc' = "stopped" /\ cause' = "none" /\ outcome = "ShutdownRequested"
            \/ pc' = "failed" /\ cause' = outcome /\ outcome \in PgcdcError \ {"Connection"}
            \/ pc' = "pause" /\ cause' = cause /\ outcome \in {"Disconnected", "Connection"}
<1>1. CASE Reconnect /\ LoopAction(outcome) = "Reconnect"
  <2>1. /\ NextDelay(moved) \in Initial..MaxPause
        /\ NextBackoff(NextDelay(moved)) \in Initial..MaxPause
    BY PauseBounds DEF TypeOK
  <2>2. outcome \in {"Disconnected", "Connection"}
    BY <1>1 DEF LoopAction, IsFatal
  <2>3. attempt' \in 0..MaxAttempts
    BY <1>1, EnvironmentAssumption DEF Reconnect, TypeOK, Smaller
  <2>4. current' \in Initial..MaxPause /\ remaining' \in 0..MaxPause
    BY <1>1, <2>1, ConfigAssumption DEF Reconnect
  <2>5. QED
    BY <1>1, <2>2, <2>3, <2>4 DEF Reconnect
<1>2. CASE Return("stopped", "none") /\ LoopAction(outcome) = "Stop"
  BY <1>2 DEF Return, TypeOK, LoopAction
<1>3. CASE Return("failed", outcome) /\ LoopAction(outcome) = "Abort"
  BY <1>3 DEF Return, TypeOK, LoopAction, Outcomes, IsFatal
<1>4. QED
  BY <1>1, <1>2, <1>3 DEF End

\* What start() answers decides by what the server meant, in any wording.
LEMMA WordingDecides ==
  ASSUME NEW meant \in {"busy", "refusal", "transport"}, NEW f \in Wordings(meant),
         NEW left
  PROVE  /\ IsBusyRace(f) <=> meant = "busy"
         /\ StartError(f, left) =
              IF meant = "refusal" THEN "SlotUnusable"
              ELSE IF meant = "busy" /\ Spent(left) THEN "SlotBusyTimedOut"
              ELSE "Connection"
         /\ StartError(f, left) \in Outcomes
<1>1. CASE meant = "busy"
  BY <1>1 DEF Wordings, IsBusyRace, ExtractSqlstate, Codes, StartFailure,
              StartError, ClassifyStartError, Outcomes, PgcdcError, SlotErrors
<1>2. CASE meant = "refusal"
  BY <1>2 DEF Wordings, IsBusyRace, ExtractSqlstate, Codes, StartFailure,
              StartError, ClassifyStartError, Outcomes, PgcdcError, SlotErrors
<1>3. CASE meant = "transport"
  BY <1>3 DEF Wordings, IsBusyRace, ExtractSqlstate, Codes, StartFailure,
              StartError, ClassifyStartError, Outcomes, PgcdcError, SlotErrors
<1>4. QED
  BY <1>1, <1>2, <1>3

-----------------------------------------------------------------------------
(* The invariant, from step to step.                                       *)

\* A process that starts next to any holder of the slot satisfies it.
LEMMA InitIInv == Init => IInv
<1> SUFFICES ASSUME Init PROVE IInv
  OBVIOUS
<1> USE ConfigAssumption, EnvironmentAssumption DEF Init
<1>1. NewPatience \in Patience
  BY PatienceType DEF Patience, NewPatience
<1>2. TypeOK
  <2>1. {foreign, shutdown, moved, streaming} \subseteq BOOLEAN
    BY Zenon
  <2>2. /\ attempt \in 0..MaxAttempts /\ held \in 0..ReleaseTime /\ lost \in 0..MaxLost
        /\ current \in Initial..MaxPause /\ remaining \in 0..MaxPause
    OBVIOUS
  <2>3. patience \in Patience
    BY <1>1
  <2>4. /\ pc = "top" /\ cause = "none" /\ reply = "none"
        /\ unseen \in Nat /\ blind \in Nat /\ answers \in 0..2
    OBVIOUS
  <2>5. holder \in {"none", "ours", "stale", "foreign"}
    OBVIOUS
  <2> HIDE DEF Init
  <2>6. QED
    BY <2>1, <2>2, <2>3, <2>4, <2>5 DEF TypeOK, Locations, Down, Patience
<1>3. PatienceKnowsTheHolder
  <2>1. patience.accumulated = 0 /\ patience.since = 0
    BY DEF NewPatience
  <2>2. holder \in {"none", "stale", "foreign"} /\ (holder = "foreign" => foreign)
    BY Zenon
  <2>3. Excused \in Nat /\ held \in Nat /\ ReleaseTime \in Nat
    BY ExcusedTime
  <2> HIDE DEF Init
  <2>4. QED
    BY <2>1, <2>2, <2>3 DEF PatienceKnowsTheHolder
<1>4. QED
  BY <1>2, <1>3
     DEF IInv, ErrorsEndTheLoop, OverlookedOnce, BusyIsAccountedFor,
         RefusalsEndRacesRetry, GaugeIsHonest, Down

\* Signals, a cancelled task and the other holders of the slot keep it.
LEMMA EnvironmentIInv == IInv /\ (Signal \/ Cancel \/ SlotFreed \/ ForeignTakes) => IInv'
<1> SUFFICES ASSUME IInv, Signal \/ Cancel \/ SlotFreed \/ ForeignTakes PROVE IInv'
  OBVIOUS
<1>1. /\ Excused \in Nat /\ Excused' = Excused
      /\ patience.accumulated \in Nat /\ patience.since \in Nat
      /\ held \in Nat /\ held <= ReleaseTime /\ UNCHANGED lost
  <2>1. lost \in Nat /\ UNCHANGED lost
    BY DEF IInv, TypeOK, Signal, Cancel, SlotFreed, ForeignTakes, slotVars
  <2>2. QED
    BY <2>1, ExcusedTime, EnvironmentAssumption DEF IInv, TypeOK
<1> USE EnvironmentAssumption
    DEF IInv, TypeOK, Locations, Down, ErrorsEndTheLoop, PatienceKnowsTheHolder,
        OverlookedOnce, BusyIsAccountedFor, RefusalsEndRacesRetry, GaugeIsHonest,
        loopVars, slotVars, history
<1>2. CASE Signal
  BY <1>1, <1>2 DEF Signal
<1>3. CASE Cancel
  <2> USE <1>3 DEF Cancel, Dropped
  <2>1. TypeOK'
    OBVIOUS
  <2>2. PatienceKnowsTheHolder'
    BY <1>1 DEF NewPatience
  <2>3. QED
    BY <2>1, <2>2
<1>4. CASE SlotFreed
  BY <1>1, <1>4 DEF SlotFreed
<1>5. CASE ForeignTakes
  BY <1>1, <1>5 DEF ForeignTakes
<1>6. QED
  BY <1>2, <1>3, <1>4, <1>5

\* Whatever ends a pass keeps the invariant, if the patience left behind still
\* knows the holder, and a spent one is accounted for.
LEMMA EndIInv ==
  ASSUME IInv, pc \notin Down, NEW outcome \in Outcomes, End(outcome),
         patience' \in Patience, answers' \in 0..2,
         holder' \in {"none", "stale", "foreign"}, held' \in 0..ReleaseTime,
         lost' \in 0..MaxLost,
         PatienceKnowsTheHolder',
         blind' \in Nat, blind' <= MaxLatency,
         blind' = blind \/ (pc = "connect" /\ (blind' > 0 => shutdown)),
         pc = "sleep" => FALSE,
         outcome = "ShutdownRequested" => reply' = reply,
         outcome = "SlotBusyTimedOut" =>
            /\ reply' = "busy"
            /\ foreign \/ (lost' + 1) * ReleaseTime >= Budget,
         reply' \in {"none", "busy", "refusal", "transport"},
         reply' = "refusal" => outcome = "SlotUnusable",
         reply' = "transport" => outcome = "Connection",
         reply' = "busy" => outcome \in {"Connection", "SlotBusyTimedOut"}
  PROVE  IInv'
<1>1. /\ ~streaming'
      /\ UNCHANGED <<shutdown, foreign, unseen>>
      /\ attempt' \in 0..MaxAttempts /\ current' \in Initial..MaxPause
      /\ remaining' \in 0..MaxPause /\ moved' \in BOOLEAN /\ streaming' \in BOOLEAN
      /\ \/ pc' = "stopped" /\ cause' = "none" /\ outcome = "ShutdownRequested"
         \/ pc' = "failed" /\ cause' = outcome /\ outcome \in PgcdcError \ {"Connection"}
         \/ pc' = "pause" /\ cause' = cause /\ outcome \in {"Disconnected", "Connection"}
  BY EndEffect DEF IInv
<1> USE DEF IInv, Down
<1>2. TypeOK'
  BY <1>1 DEF TypeOK, Locations, Patience
<1>3. ErrorsEndTheLoop'
  BY <1>1 DEF ErrorsEndTheLoop
<1>4. OverlookedOnce'
  BY <1>1 DEF OverlookedOnce, TypeOK
<1>5. BusyIsAccountedFor' /\ GaugeIsHonest'
  BY <1>1 DEF BusyIsAccountedFor, GaugeIsHonest, ErrorsEndTheLoop
<1>6. RefusalsEndRacesRetry'
  BY <1>1 DEF RefusalsEndRacesRetry, ErrorsEndTheLoop
<1>7. QED
  BY <1>2, <1>3, <1>4, <1>5, <1>6

\* The two places that look at the flag between waits keep it.
LEMMA StopIInv == IInv /\ (TopStop \/ PauseStop) => IInv'
<1> SUFFICES ASSUME IInv, TopStop \/ PauseStop PROVE IInv'
  OBVIOUS
<1> USE DEF IInv, Down
<1>1. /\ pc \in {"top", "pause"} /\ pc' = "stopped" /\ cause' = "none"
      /\ ~streaming' /\ streaming' \in BOOLEAN
      /\ UNCHANGED <<attempt, current, remaining, moved, patience, shutdown, holder,
                     held, foreign, lost, reply, unseen, blind, answers>>
  BY DEF TopStop, PauseStop, Return
<1>2. TypeOK'
  BY <1>1 DEF TypeOK, Locations
<1>3. Excused' = Excused
  BY <1>1 DEF Excused
<1>4. QED
  BY <1>1, <1>2, <1>3
     DEF ErrorsEndTheLoop, PatienceKnowsTheHolder, OverlookedOnce,
         BusyIsAccountedFor, RefusalsEndRacesRetry, GaugeIsHonest

\* A session that starts keeps it: patience and excuses begin anew.
LEMMA StartIInv == IInv /\ StartOk => IInv'
<1> SUFFICES ASSUME IInv, StartOk PROVE IInv'
  OBVIOUS
<1> USE EnvironmentAssumption
    DEF IInv, TypeOK, Locations, Down, ErrorsEndTheLoop, PatienceKnowsTheHolder,
        OverlookedOnce, BusyIsAccountedFor, RefusalsEndRacesRetry, GaugeIsHonest,
        loopVars, slotVars, history, StartOk, PatienceAfterStart
<1>1. patience' \in Patience /\ lost' \in 0..MaxLost
  BY PatienceType DEF Patience
<1>2. TypeOK'
  BY <1>1 DEF Patience
<1>3. QED
  BY <1>2

\* The steps that go on without waiting keep it.
LEMMA GoIInv == IInv /\ (TopGo \/ PauseGo \/ Acknowledge) => IInv'
<1> SUFFICES ASSUME IInv, TopGo \/ PauseGo \/ Acknowledge PROVE IInv'
  OBVIOUS
<1>1. Excused' = Excused
  BY DEF Excused, TopGo, PauseGo, Acknowledge, slotVars
<1> USE DEF IInv, TypeOK, Locations, Down, ErrorsEndTheLoop, PatienceKnowsTheHolder,
            OverlookedOnce, BusyIsAccountedFor, RefusalsEndRacesRetry, GaugeIsHonest,
            loopVars, slotVars, history
<1>2. CASE TopGo
  BY <1>1, <1>2 DEF TopGo
<1>3. CASE PauseGo
  BY <1>1, <1>3 DEF PauseGo
<1>4. CASE Acknowledge
  BY <1>1, <1>4 DEF Acknowledge
<1>5. QED
  BY <1>2, <1>3, <1>4

\* The waits keep it: the patience never counts time the server did not have.
LEMMA WaitIInv ==
  ASSUME IInv, Sleep \/ \E d \in 0..MaxLatency : ConnectOk(d)
  PROVE  IInv'
<1> USE ConfigAssumption, EnvironmentAssumption DEF IInv
<1>1. patience \in Patience
  BY DEF TypeOK, Patience
<1>2. UNCHANGED lost => Excused \in Nat /\ Excused' = Excused
  BY ExcusedTime DEF TypeOK
<1>3. CASE Sleep
  <2> DEFINE d == Chunk(remaining)
  <2>1. d \in Nat /\ d <= Poll /\ remaining - d \in 0..MaxPause
    BY DEF Chunk, Smaller, TypeOK
  <2>2. /\ Aged(patience, d) \in Patience
        /\ Aged(patience, d).accumulated = patience.accumulated
        /\ Aged(patience, d).accumulated + Aged(patience, d).since
             <= patience.accumulated + patience.since + d
    BY <1>1, <2>1, PatienceType, PatienceGrowth
  <2>3. /\ pc = "sleep" /\ ServerTime(d) /\ patience' = Aged(patience, d)
        /\ remaining' = remaining - d
        /\ pc' \in {"top", "pause"}
        /\ unseen' = IF shutdown THEN unseen + d ELSE unseen
        /\ UNCHANGED <<cause, attempt, current, moved, streaming, shutdown, holder,
                       foreign, lost, reply, blind, answers>>
    BY <1>3 DEF Sleep
  <2> HIDE DEF d
  <2>4. held' \in 0..ReleaseTime /\ (holder = "stale" => held' = held + d)
    BY <2>1, <2>3 DEF ServerTime, TypeOK
  <2>5. TypeOK'
    BY <2>1, <2>2, <2>3, <2>4 DEF TypeOK, Locations, Patience
  <2>6. PatienceKnowsTheHolder'
    BY <1>1, <1>2, <2>1, <2>2, <2>3, <2>4 DEF PatienceKnowsTheHolder, TypeOK, Patience
  <2>7. OverlookedOnce'
    BY <2>1, <2>3 DEF OverlookedOnce, TypeOK, Down
  <2>8. QED
    BY <2>3, <2>5, <2>6, <2>7
       DEF ErrorsEndTheLoop, BusyIsAccountedFor, RefusalsEndRacesRetry,
           GaugeIsHonest, Down
<1>4. ASSUME NEW d \in 0..MaxLatency, ConnectOk(d) PROVE IInv'
  <2>1. /\ Aged(patience, d) \in Patience
        /\ Aged(patience, d).accumulated = patience.accumulated
        /\ Aged(patience, d).accumulated + Aged(patience, d).since
             <= patience.accumulated + patience.since + d
    BY <1>1, PatienceType, PatienceGrowth
  <2>2. /\ pc = "connect" /\ ServerTime(d) /\ patience' = Aged(patience, d)
        /\ blind' = IF shutdown THEN blind + d ELSE blind
        /\ pc' = "start"
        /\ UNCHANGED <<cause, attempt, current, remaining, moved, streaming, shutdown,
                       holder, foreign, lost, reply, unseen, answers>>
    BY <1>4 DEF ConnectOk, Connecting
  <2>3. held' \in 0..ReleaseTime /\ (holder = "stale" => held' = held + d)
    BY <2>2 DEF ServerTime, TypeOK
  <2>4. TypeOK'
    BY <2>1, <2>2, <2>3 DEF TypeOK, Locations, Patience
  <2>5. PatienceKnowsTheHolder'
    BY <1>1, <1>2, <2>1, <2>2, <2>3 DEF PatienceKnowsTheHolder, TypeOK, Patience
  <2>6. OverlookedOnce'
    BY <2>2 DEF OverlookedOnce, TypeOK, Down
  <2>7. QED
    BY <2>2, <2>4, <2>5, <2>6
       DEF ErrorsEndTheLoop, BusyIsAccountedFor, RefusalsEndRacesRetry,
           GaugeIsHonest, Down
<1>5. QED
  BY <1>3, <1>4

\* A pass that ends in the preflight, in start() or in the session keeps it.
LEMMA PassEndsIInv ==
  ASSUME IInv,
         \/ \E d \in 0..MaxLatency : ConnectFails(d)
         \/ \E meant \in {"busy", "refusal", "transport"} : StartFails(meant)
         \/ StartLost \/ SessionEnds \/ SessionStops
  PROVE  IInv'
<1> USE DEF IInv
<1>1. /\ patience \in Patience
      /\ Interrupted(patience) \in Patience
      /\ Observed(patience) \in Patience
      /\ held \in 0..ReleaseTime /\ answers \in 0..2
  <2>1. patience \in Patience /\ 0 \in Nat
    BY DEF TypeOK, Patience
  <2>2. QED
    BY <2>1, PatienceType DEF TypeOK
<1>2. /\ Interrupted(patience).accumulated = patience.accumulated
      /\ Interrupted(patience).accumulated + Interrupted(patience).since
           <= patience.accumulated + patience.since
      /\ Observed(patience).accumulated + Observed(patience).since
           <= patience.accumulated + patience.since
  BY <1>1, PatienceGrowth
<1>3. /\ lost \in 0..MaxLost /\ Excused \in Nat
      /\ (lost + 1) * ReleaseTime = Excused + ReleaseTime
      /\ lost' = lost => Excused' = Excused
      /\ lost' = lost + 1 => Excused' = Excused + ReleaseTime
  BY ExcusedTime DEF TypeOK
<1>4. ASSUME NEW d \in 0..MaxLatency, ConnectFails(d) PROVE IInv'
  <2>1. PICK e \in EarlyErrors : End(e)
    BY <1>4 DEF ConnectFails
  <2>2. /\ pc = "connect" /\ pc \notin Down
        /\ holder \in {"none", "stale", "foreign"} /\ UNCHANGED <<holder, lost>>
        /\ patience' = Interrupted(patience) /\ answers' = 0 /\ reply' = reply
        /\ reply = "none"
    BY <1>4 DEF ConnectFails, Connecting, Down, PatienceKnowsTheHolder, ErrorsEndTheLoop,
                TypeOK
  <2>3. held <= held' /\ held' \in 0..ReleaseTime
    BY <1>4, EnvironmentAssumption DEF ConnectFails, Connecting, ServerTime, TypeOK
  <2>4. /\ blind' \in Nat /\ blind' <= MaxLatency
        /\ blind' > 0 => shutdown
    BY <1>4, <2>2, EnvironmentAssumption
       DEF ConnectFails, Connecting, OverlookedOnce, TypeOK, Down
  <2>5. e \in Outcomes /\ e \notin {"SlotBusyTimedOut", "ShutdownRequested"}
    BY DEF EarlyErrors, Outcomes, PgcdcError, SlotErrors
  <2>6. UNCHANGED foreign
    BY <2>1, <2>5, EndEffect
  <2>7. PatienceKnowsTheHolder'
    BY <1>1, <1>2, <1>3, <2>2, <2>3, <2>6 DEF PatienceKnowsTheHolder, Patience
  <2> HIDE DEF IInv
  <2>8. QED
    BY <1>1, <1>3, <2>1, <2>2, <2>3, <2>4, <2>5, <2>7, EndIInv
<1>5. ASSUME NEW meant \in {"busy", "refusal", "transport"}, StartFails(meant)
      PROVE  IInv'
  <2>1. PICK f \in Wordings(meant) :
          /\ patience' = IF IsBusyRace(f) THEN Observed(patience) ELSE Interrupted(patience)
          /\ End(StartError(f, patience'))
    BY <1>5 DEF StartFails
  <2>2. /\ pc = "start" /\ pc \notin Down /\ holder \in {"none", "stale", "foreign"}
        /\ UNCHANGED <<holder, held, lost, blind>> /\ reply' = meant /\ answers' \in 0..2
    BY <1>1, <1>5 DEF StartFails, Down, PatienceKnowsTheHolder, Smaller, TypeOK
  <2>3. /\ StartError(f, patience') =
              IF meant = "refusal" THEN "SlotUnusable"
              ELSE IF meant = "busy" /\ Spent(patience') THEN "SlotBusyTimedOut"
              ELSE "Connection"
        /\ StartError(f, patience') \in Outcomes
        /\ IsBusyRace(f) <=> meant = "busy"
    BY WordingDecides
  <2>4. meant = "busy" /\ Spent(patience') => foreign \/ Excused + ReleaseTime >= Budget
    <3>1. SUFFICES ASSUME meant = "busy", Spent(patience'), ~foreign
                   PROVE  Excused + ReleaseTime >= Budget
      OBVIOUS
    <3>2. holder = "stale"
      BY <1>5, <3>1 DEF StartFails, PatienceKnowsTheHolder
    <3>3. patience' = Observed(patience) /\ patience' \in Patience
      BY <1>1, <2>1, <2>3, <3>1
    <3>4. patience'.accumulated + patience'.since <= Excused + held
      BY <1>1, <1>2, <1>3, <3>1, <3>2, <3>3 DEF PatienceKnowsTheHolder, Patience
    <3>5. QED
      BY <1>1, <1>3, <3>1, <3>3, <3>4, EnvironmentAssumption, ConfigAssumption
         DEF Spent, Patience
  <2>5. /\ patience' \in Patience
        /\ patience'.accumulated + patience'.since
             <= patience.accumulated + patience.since
        /\ meant # "busy" => patience'.accumulated = patience.accumulated
    BY <1>1, <1>2, <2>1, <2>3
  <2>6. blind \in Nat /\ blind <= MaxLatency
    BY <1>1 DEF TypeOK, OverlookedOnce
  <2>7. UNCHANGED foreign
    BY <2>1, <2>3, EndEffect
  <2>8. holder = "none" => meant # "busy"
    BY <1>5 DEF StartFails
  <2>9. PatienceKnowsTheHolder'
    BY <1>1, <1>3, <2>2, <2>5, <2>7, <2>8 DEF PatienceKnowsTheHolder, Patience
  <2> DEFINE o == StartError(f, patience')
  <2>10. /\ o \in Outcomes /\ End(o)
         /\ o # "ShutdownRequested"
         /\ reply' \in {"none", "busy", "refusal", "transport"}
         /\ reply' = "refusal" => o = "SlotUnusable"
         /\ reply' = "transport" => o = "Connection"
         /\ reply' = "busy" => o \in {"Connection", "SlotBusyTimedOut"}
    BY <2>1, <2>2, <2>3
  <2>11. o = "SlotBusyTimedOut" => reply' = "busy" /\ meant = "busy" /\ Spent(patience')
    BY <2>2, <2>3
  <2> HIDE DEF IInv, o
  <2>12. (lost' + 1) * ReleaseTime = Excused + ReleaseTime
    BY <1>3, <2>2
  <2>13. QED
    BY <1>1, <1>3, <2>2, <2>4, <2>5, <2>6, <2>9, <2>10, <2>11, <2>12, EndIInv
<1>6. CASE StartLost
  <2>1. PICK f \in Wordings("transport") :
          patience' = Interrupted(patience) /\ End(StartError(f, patience'))
    BY <1>6 DEF StartLost
  <2>2. /\ pc = "start" /\ pc \notin Down /\ reply' = "transport"
        /\ holder = "none" /\ holder' = "stale" /\ held' = 0
        /\ lost' = lost + 1 /\ lost' \in 0..MaxLost
        /\ answers' = 0 /\ UNCHANGED blind
    BY <1>3, <1>6, EnvironmentAssumption DEF StartLost, Down
  <2>3. StartError(f, patience') = "Connection" /\ "Connection" \in Outcomes
    BY WordingDecides
  <2>4. UNCHANGED foreign
    BY <2>1, <2>3, EndEffect
  <2>5. patience'.accumulated = patience.accumulated /\ patience'.since = 0
    BY <1>2, <2>1 DEF Interrupted, NewPatience
  <2>6. PatienceKnowsTheHolder'
    <3>1. ~foreign => patience.accumulated <= Excused + ReleaseTime
      BY <2>2 DEF PatienceKnowsTheHolder
    <3>2. ~foreign => patience'.accumulated + patience'.since <= Excused' + held'
      <4>1. patience.accumulated \in Nat /\ Excused' = Excused + ReleaseTime
        BY <1>1, <1>3, <2>2 DEF Patience
      <4>2. QED
        BY <1>3, <2>2, <2>5, <3>1, <4>1, EnvironmentAssumption
    <3>3. QED
      BY <2>2, <2>4, <3>2 DEF PatienceKnowsTheHolder
  <2>7. /\ blind' \in Nat /\ blind' <= MaxLatency
        /\ held' \in 0..ReleaseTime /\ patience' \in Patience
    BY <1>1, <2>1, <2>2, EnvironmentAssumption DEF TypeOK, OverlookedOnce
  <2> HIDE DEF IInv
  <2>8. QED
    BY <2>1, <2>2, <2>3, <2>6, <2>7, EndIInv
<1>7. ASSUME NEW outcome \in {"Disconnected", "Connection", "ShutdownRequested"}
                             \cup StreamErrors,
             pc = "session", End(outcome), holder' = Dropped,
             UNCHANGED <<patience, held, lost, reply, blind, answers>>
      PROVE  IInv'
  <2>1. outcome \in Outcomes /\ outcome # "SlotBusyTimedOut"
    BY DEF StreamErrors, Outcomes, PgcdcError
  <2>2. /\ pc \notin Down /\ reply = "none"
        /\ blind \in Nat /\ blind <= MaxLatency
    BY <1>1, <1>7 DEF Down, ErrorsEndTheLoop, OverlookedOnce, TypeOK
  <2>3. UNCHANGED foreign
    BY <1>7, <2>1, EndEffect
  <2>4. holder' \in {"none", "stale", "foreign"} /\ PatienceKnowsTheHolder'
    BY <1>1, <1>3, <1>7, <2>3
       DEF PatienceKnowsTheHolder, Dropped, NewPatience, TypeOK, Patience
  <2> HIDE DEF IInv
  <2>5. QED
    BY <1>1, <1>3, <1>7, <2>1, <2>2, <2>4, EndIInv
<1>8. CASE SessionEnds
  BY <1>7, <1>8 DEF SessionEnds
<1>9. CASE SessionStops
  BY <1>7, <1>9 DEF SessionStops
<1>10. QED
  BY <1>4, <1>5, <1>6, <1>8, <1>9

\* Every step keeps the invariant.
LEMMA NextIInv == IInv /\ [Next]_vars => IInv'
<1> SUFFICES ASSUME IInv, [Next]_vars PROVE IInv'
  OBVIOUS
<1>1. CASE UNCHANGED vars
  <2>1. Excused' = Excused
    BY <1>1 DEF Excused, vars, slotVars
  <2>2. QED
    BY <1>1, <2>1
       DEF IInv, vars, loopVars, slotVars, history, TypeOK, ErrorsEndTheLoop,
           PatienceKnowsTheHolder, OverlookedOnce, BusyIsAccountedFor,
           RefusalsEndRacesRetry, GaugeIsHonest
<1>2. CASE Signal \/ Cancel \/ SlotFreed \/ ForeignTakes
  BY <1>2, EnvironmentIInv
<1>3. CASE TopStop \/ PauseStop
  BY <1>3, StopIInv
<1>4. CASE TopGo \/ PauseGo \/ Acknowledge \/ StartOk
  BY <1>4, GoIInv, StartIInv
<1>5. CASE Sleep \/ \E d \in 0..MaxLatency : ConnectOk(d)
  BY <1>5, WaitIInv
<1>6. CASE \/ \E d \in 0..MaxLatency : ConnectFails(d)
           \/ \E meant \in {"busy", "refusal", "transport"} : StartFails(meant)
           \/ StartLost \/ SessionEnds \/ SessionStops
  BY <1>6, PassEndsIInv
<1>7. QED
  BY <1>1, <1>2, <1>3, <1>4, <1>5, <1>6 DEF Next, Pass

\* The invariant holds in every reachable state.
THEOREM Invariance == Spec => []IInv
BY InitIInv, NextIInv, PTL DEF Spec

\* The counters of the loop change only where a pass ends.
LEMMA NextBackoffMatches ==
  TypeOK /\ BackoffMatchesAttempt /\ [Next]_vars => BackoffMatchesAttempt'
<1> SUFFICES ASSUME TypeOK, BackoffMatchesAttempt, [Next]_vars
             PROVE  BackoffMatchesAttempt'
  OBVIOUS
<1>1. CASE UNCHANGED <<attempt, current>>
  BY <1>1 DEF BackoffMatchesAttempt
<1>2. ASSUME NEW outcome, End(outcome) PROVE BackoffMatchesAttempt'
  <2>1. UNCHANGED <<attempt, current>> \/ Reconnect
    BY <1>2 DEF End, Return
  <2>2. QED
    BY <1>1, <2>1, ReconnectBackoff
<1>3. CASE \/ UNCHANGED vars \/ Signal \/ Cancel \/ SlotFreed \/ ForeignTakes
           \/ TopStop \/ TopGo \/ StartOk \/ Acknowledge \/ PauseStop \/ PauseGo \/ Sleep
  BY <1>1, <1>3
     DEF vars, loopVars, Signal, Cancel, SlotFreed, ForeignTakes, TopStop, TopGo, StartOk,
         Acknowledge, PauseStop, PauseGo, Sleep, Return
<1>4. CASE \E d \in 0..MaxLatency : ConnectOk(d)
  BY <1>1, <1>4 DEF ConnectOk
<1>5. CASE \E d \in 0..MaxLatency : ConnectFails(d)
  BY <1>2, <1>5 DEF ConnectFails
<1>6. CASE \E meant \in {"busy", "refusal", "transport"} : StartFails(meant)
  BY <1>2, <1>6 DEF StartFails
<1>7. CASE StartLost \/ SessionEnds \/ SessionStops
  BY <1>2, <1>7 DEF StartLost, SessionEnds, SessionStops
<1>8. QED
  BY <1>3, <1>4, <1>5, <1>6, <1>7 DEF Next, Pass

-----------------------------------------------------------------------------
(* The results, for every interval, budget and latency.                    *)

\* Every variable stays in its domain; above all no pause exceeds the ceiling.
THEOREM TypeCorrect == Spec => []TypeOK
<1>1. IInv => TypeOK
  BY DEF IInv
<1>2. QED
  BY <1>1, Invariance, PTL

\* The pause after n attempts without progress is the initial one doubled n
\* times, up to the ceiling, for every n and every sequence of outages.
THEOREM BackoffIsExact == Spec => []BackoffMatchesAttempt
<1>1. Init => BackoffMatchesAttempt
  BY Doubling, ConfigAssumption DEF Init, BackoffMatchesAttempt, Smaller
<1>2. QED
  BY <1>1, TypeCorrect, NextBackoffMatches, PTL DEF Spec

\* The patience counts only time in which the slot was held: without a foreign
\* consumer it runs out only if the dead sessions of our own since the last one
\* that started, each counted once, can have held the slot for the budget, and
\* sessions that did start are never added up.
THEOREM PatienceIsAccountedFor == Spec => []BusyIsAccountedFor
<1>1. IInv => BusyIsAccountedFor
  BY DEF IInv
<1>2. QED
  BY <1>1, Invariance, PTL

\* A refusal is never retried and a race never ends the process at once,
\* whatever SQLSTATE or text the server's answer came with.
THEOREM AnswersAreUnderstood == Spec => []RefusalsEndRacesRetry
<1>1. IInv => RefusalsEndRacesRetry
  BY DEF IInv
<1>2. QED
  BY <1>1, Invariance, PTL

\* A signal is overlooked for at most one chunk of sleep or one connection
\* attempt, never for both.
THEOREM SignalIsSeen == Spec => []SignalSeenInTime
<1>1. IInv => SignalSeenInTime
  BY DEF IInv, OverlookedOnce, SignalSeenInTime
<1>2. QED
  BY <1>1, Invariance, PTL

\* The gauge never says "streaming" outside a session.
THEOREM GaugeNeverLies == Spec => []GaugeIsHonest
<1>1. IInv => GaugeIsHonest
  BY DEF IInv
<1>2. QED
  BY <1>1, Invariance, PTL
=============================================================================
