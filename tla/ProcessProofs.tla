---------------------------- MODULE ProcessProofs ----------------------------
(***************************************************************************)
(* Machine-checked proofs about Process, for every set of command lines,   *)
(* every limit, interval and latency, and behaviours of any length.        *)
(***************************************************************************)
EXTENDS Process, TLAPS

(* What the invariants rest on.                                            *)

\* What has been checked of the command line, and where.
ChecksSoFar ==
    /\ pc \in {"open", "validate"} \cup Running => InRange(config)
    /\ pc \in {"validate"} \cup Running => (config.output = "File" => config.path)
    /\ pc \in Running => ConfigError(config) = "none"

\* The reader's patience is the loop's own clock, which a report resets before
\* each wait of the session and of the pause.
SilenceIsMeasured ==
    /\ silence = sinceReport
    /\ pc \in Starting => silence = 0
    /\ pc \in {"read", "sleep"} => silence <= Interval - 1
    /\ pc \in {"top", "connect", "barrier", "advance"} => silence <= Interval - 1 + Poll
    /\ pc \in {"turn", "pause"} => silence <= Interval - 1 + Poll + MaxLatency

\* Nothing has been sent in the future.
SentBefore == sent <= now + 1

IInv ==
    /\ TypeOK
    /\ ChecksSoFar
    /\ SilenceIsMeasured
    /\ SentBefore
    /\ ExitTellsWhy
    /\ CountsWhatTheSinkTook
    /\ GaugeFollowsTheBuffer
    /\ ReconnectsAreExplained
    /\ ClockTellsOfSends

-----------------------------------------------------------------------------
(* The counters.                                                           *)

\* Every method of Metrics leaves a record of counters.
LEMMA MethodTypes ==
  ASSUME NEW m \in Metrics, NEW n \in Nat, NEW on \in BOOLEAN
  PROVE  /\ AddEvents(m, n) \in Metrics /\ AddTransaction(m) \in Metrics
         /\ AddBytes(m, n) \in Metrics
         /\ AddReconnect(m) \in Metrics /\ AddError(m) \in Metrics
         /\ SetBuffer(m, n) \in Metrics /\ SetStreaming(m, on) \in Metrics
         /\ SetLastReceived(m, n) \in Metrics
         /\ SetLastAcknowledged(m, n) \in Metrics
         /\ NoteAcknowledgedNow(m, n) \in Metrics
<1> USE DEF Metrics
<1>1. /\ AddEvents(m, n) \in Metrics /\ AddTransaction(m) \in Metrics
      /\ AddBytes(m, n) \in Metrics
  BY DEF AddEvents, AddTransaction, AddBytes
<1>2. /\ AddReconnect(m) \in Metrics /\ AddError(m) \in Metrics
      /\ SetBuffer(m, n) \in Metrics
  BY DEF AddReconnect, AddError, SetBuffer
<1>3. SetStreaming(m, on) \in Metrics
  BY DEF SetStreaming
<1>4. SetLastReceived(m, n) \in Metrics /\ SetLastAcknowledged(m, n) \in Metrics
  BY DEF SetLastReceived, SetLastAcknowledged
<1>5. NoteAcknowledgedNow(m, n) \in Metrics
  BY DEF NoteAcknowledgedNow
<1>6. QED
  BY <1>1, <1>2, <1>3, <1>4, <1>5

\* n comes after m with no transaction in between, and no position goes back.
Succeeds(m, n) ==
    /\ n.events = m.events /\ n.transactions = m.transactions
    /\ n.received >= m.received /\ n.acknowledged >= m.acknowledged

SameGauges(m, n) == n.buffer = m.buffer /\ n.ackAt = m.ackAt

SameSessions(m, n) == n.reconnects = m.reconnects /\ n.errors = m.errors

\* A frame that has arrived changes the bytes and the received position only.
LEMMA ArrivedEffect ==
  ASSUME TypeOK
  PROVE  /\ Arrived \in Metrics
         /\ Succeeds(metrics, Arrived) /\ SameGauges(metrics, Arrived)
         /\ SameSessions(metrics, Arrived)
<1> DEFINE b == AddBytes(metrics, 1)
<1>1. metrics \in Metrics /\ 1 \in Nat /\ pos + 1 \in Nat
  BY DEF TypeOK
<1>2. b \in Metrics /\ Arrived \in Metrics
  BY <1>1, MethodTypes DEF Arrived
<1>3. Succeeds(metrics, b) /\ SameGauges(metrics, b) /\ SameSessions(metrics, b)
  BY <1>1 DEF Metrics, AddBytes, Succeeds, SameGauges, SameSessions
<1>4. Succeeds(b, Arrived) /\ SameGauges(b, Arrived) /\ SameSessions(b, Arrived)
  <2> HIDE DEF b
  <2>1. Arrived = SetLastReceived(b, pos + 1)
    BY DEF Arrived, b
  <2>2. QED
    BY <1>1, <1>2, <2>1 DEF Metrics, SetLastReceived, Succeeds, SameGauges,
                            SameSessions
<1>5. QED
  BY <1>1, <1>2, <1>3, <1>4 DEF Metrics, Succeeds, SameGauges, SameSessions

\* Setting the buffer gauge changes nothing else.
LEMMA BufferEffect ==
  ASSUME NEW m \in Metrics, NEW n \in Nat
  PROVE  /\ SetBuffer(m, n).buffer = n /\ SetBuffer(m, n).ackAt = m.ackAt
         /\ Succeeds(m, SetBuffer(m, n)) /\ SameSessions(m, SetBuffer(m, n))
BY DEF Metrics, SetBuffer, Succeeds, SameSessions

\* An acknowledgement moves the position, and the clock once it is sent.
LEMMA SendEffect ==
  ASSUME TypeOK, NEW durable \in Nat
  PROVE  /\ Raised(durable) \in Nat
         /\ BeforeSend(durable) \in Metrics
         /\ Succeeds(metrics, BeforeSend(durable))
         /\ SameGauges(metrics, BeforeSend(durable))
         /\ SameSessions(metrics, BeforeSend(durable))
         /\ AfterSend(durable) \in Metrics
         /\ Succeeds(metrics, AfterSend(durable))
         /\ AfterSend(durable).buffer = metrics.buffer
         /\ AfterSend(durable).ackAt = IF now > 0 THEN now ELSE 1
         /\ SameSessions(metrics, AfterSend(durable))
<1>1. metrics \in Metrics /\ Raised(durable) \in Nat /\ now \in Nat
  BY ConstantsAssumption DEF TypeOK, Raised
<1> DEFINE b == BeforeSend(durable)
<1>2. b \in Metrics
  BY <1>1, MethodTypes DEF BeforeSend
<1>3. Succeeds(metrics, b) /\ SameGauges(metrics, b) /\ SameSessions(metrics, b)
  BY <1>1 DEF Metrics, BeforeSend, SetLastAcknowledged, Succeeds, SameGauges,
              SameSessions
<1> HIDE DEF b
<1>4. AfterSend(durable) = NoteAcknowledgedNow(b, now)
  BY DEF AfterSend, b
<1>5. AfterSend(durable) \in Metrics
  BY <1>1, <1>2, <1>4, MethodTypes
<1>6. /\ Succeeds(b, AfterSend(durable)) /\ SameSessions(b, AfterSend(durable))
      /\ AfterSend(durable).buffer = b.buffer
      /\ AfterSend(durable).ackAt = IF now > 0 THEN now ELSE 1
  BY <1>1, <1>2, <1>4 DEF Metrics, NoteAcknowledgedNow, Succeeds, SameSessions
<1>7. QED
  BY <1>1, <1>2, <1>3, <1>5, <1>6 DEF Metrics, Succeeds, SameGauges, SameSessions, b

-----------------------------------------------------------------------------
(* How a pass of the loop ends.                                            *)

\* handle_session_outcome from counters m: the process stops or fails, or the
\* reconnect is counted and, unless the connection was dropped, an error too.
LEMMA EndEffect ==
  ASSUME TypeOK, NEW m \in Metrics, NEW outcome \in Outcomes, End(outcome, m)
  PROVE  /\ metrics' \in Metrics
         /\ Succeeds(m, metrics') /\ SameGauges(m, metrics')
         /\ m.reconnects = m.errors + drops =>
              metrics'.reconnects = metrics'.errors + drops'
         /\ drops' \in Nat /\ remaining' \in Nat
         /\ \/ /\ pc' = "exited" /\ exit' = "success" /\ error' = "none"
               /\ outcome = "ShutdownRequested"
            \/ /\ pc' = "exited" /\ exit' = "failure" /\ error' = outcome
               /\ outcome \in PgcdcError /\ IsFatal(outcome)
            \/ pc' = "pause" /\ UNCHANGED <<exit, error>>
<1> DEFINE idle == SetStreaming(m, FALSE)
<1>1. /\ idle \in Metrics
      /\ Succeeds(m, idle) /\ SameGauges(m, idle) /\ SameSessions(m, idle)
  <2>1. 0 \in Nat /\ FALSE \in BOOLEAN
    OBVIOUS
  <2>2. idle \in Metrics
    BY <2>1, MethodTypes
  <2>3. QED
    BY <2>2 DEF Metrics, SetStreaming, Succeeds, SameGauges, SameSessions
<1>2. drops \in Nat /\ remaining \in Nat
  BY DEF TypeOK
<1> HIDE DEF idle
<1>3. CASE LoopAction(outcome) = "Stop" /\ Stopped /\ metrics' = idle
  <2>1. outcome = "ShutdownRequested"
    BY <1>3 DEF LoopAction
  <2>2. QED
    BY <1>1, <1>2, <1>3, <2>1 DEF Stopped, Exit, SameSessions
<1>4. CASE /\ LoopAction(outcome) = "Abort" /\ Exit("failure", outcome)
           /\ metrics' = idle /\ UNCHANGED <<remaining, drops>>
  <2>1. outcome \in PgcdcError /\ IsFatal(outcome)
    BY <1>4 DEF LoopAction, Outcomes
  <2>2. QED
    BY <1>1, <1>2, <1>4, <2>1 DEF Exit, SameSessions
<1>5. CASE /\ LoopAction(outcome) = "Reconnect"
           /\ metrics' = AddReconnect(IF CountsAsError(outcome) THEN AddError(idle) ELSE idle)
           /\ drops' = IF outcome = "Disconnected" THEN drops + 1 ELSE drops
           /\ pc' = "pause" /\ remaining' \in config.initial..config.max
           /\ UNCHANGED <<exit, error>>
  <2>1. CountsAsError(outcome) <=> outcome # "Disconnected"
    BY <1>5 DEF CountsAsError
  <2> DEFINE e == AddError(idle)
  <2>2. /\ e \in Metrics
        /\ Succeeds(idle, e) /\ SameGauges(idle, e)
        /\ e.reconnects = idle.reconnects /\ e.errors = idle.errors + 1
    BY <1>1, MethodTypes DEF Metrics, AddError, Succeeds, SameGauges
  <2>3. ASSUME NEW c \in Metrics
        PROVE  /\ AddReconnect(c) \in Metrics
               /\ Succeeds(c, AddReconnect(c)) /\ SameGauges(c, AddReconnect(c))
               /\ AddReconnect(c).reconnects = c.reconnects + 1
               /\ AddReconnect(c).errors = c.errors
    BY MethodTypes DEF Metrics, AddReconnect, Succeeds, SameGauges
  <2>4. remaining' \in Nat /\ drops' \in Nat
    BY <1>2, <1>5 DEF TypeOK, Config
  <2> HIDE DEF e
  <2>5. CASE outcome = "Disconnected"
    <3>1. metrics' = AddReconnect(idle) /\ drops' = drops + 1
      BY <1>5, <2>1, <2>5
    <3>2. QED
      BY <1>1, <1>2, <1>5, <2>3, <2>4, <3>1
         DEF Metrics, Succeeds, SameGauges, SameSessions
  <2>6. CASE outcome # "Disconnected"
    <3>1. metrics' = AddReconnect(e) /\ drops' = drops
      BY <1>5, <2>1, <2>6 DEF e
    <3>2. QED
      BY <1>1, <1>2, <1>5, <2>2, <2>3, <2>4, <3>1
         DEF Metrics, Succeeds, SameGauges, SameSessions
  <2>7. QED
    BY <2>5, <2>6
<1>6. QED
  BY <1>3, <1>4, <1>5 DEF End, idle

-----------------------------------------------------------------------------
(* The invariant, from step to step, and with it the watched positions.    *)

PositionsHold ==
    /\ metrics'.received >= metrics.received
    /\ metrics'.acknowledged >= metrics.acknowledged

\* What the clock shows for a send at time s - 1.
Shown(s) == IF s = 0 THEN 0 ELSE IF s = 1 THEN 1 ELSE s - 1

\* Counters m fit what a step has made of the buffer, the sink and the sends.
FitsNext(m) ==
    /\ m \in Metrics /\ SameSessions(metrics, m)
    /\ m.received >= metrics.received /\ m.acknowledged >= metrics.acknowledged
    /\ m.transactions = took'.transactions /\ m.events = took'.events
    /\ m.buffer = Length' /\ m.ackAt = Shown(sent')

\* The variables of the stream and the clocks stay in their domains.
StreamNext ==
    /\ UNCHANGED <<config, shutdown>>
    /\ pos' \in Nat /\ len' \in -1..MaxLimit /\ pending' \in Nat /\ acked' \in Nat
    /\ took' \in [transactions : Nat, events : Nat]
    /\ sent' \in Nat /\ now' \in 0..MaxTime /\ sent' <= now' + 1
    /\ silence' \in Nat /\ silence' = sinceReport'

\* No process is born with counts.
LEMMA InitIInv == Init => IInv
<1> SUFFICES ASSUME Init PROVE IInv
  OBVIOUS
<1> USE ConstantsAssumption DEF Init
<1>1. metrics \in Metrics
  BY DEF NewMetrics, Metrics
<1>2. /\ config \in Config /\ len \in -1..MaxLimit /\ now \in 0..MaxTime
      /\ took \in [transactions : Nat, events : Nat]
  OBVIOUS
<1>3. TypeOK
  BY <1>1, <1>2 DEF TypeOK, Starting, Running
<1>4. SilenceIsMeasured /\ SentBefore /\ ChecksSoFar
  BY DEF SilenceIsMeasured, SentBefore, ChecksSoFar, Starting, Running
<1>5. CountsWhatTheSinkTook /\ GaugeFollowsTheBuffer
  BY DEF NewMetrics, CountsWhatTheSinkTook, GaugeFollowsTheBuffer, Length
<1>6. ReconnectsAreExplained /\ ClockTellsOfSends /\ ExitTellsWhy
  BY DEF NewMetrics, ReconnectsAreExplained, ClockTellsOfSends, ExitTellsWhy
<1>7. QED
  BY <1>3, <1>4, <1>5, <1>6 DEF IInv

\* Whatever ends a pass keeps the invariant, if the counters at that point fit.
LEMMA EndIInv ==
  ASSUME IInv, pc \in Running, StreamNext,
         NEW m, FitsNext(m), NEW outcome \in Outcomes, End(outcome, m),
         outcome = "ShutdownRequested" => shutdown,
         silence' <= Interval - 1 + Poll + MaxLatency
  PROVE  IInv' /\ PositionsHold
<1>1. TypeOK /\ m \in Metrics
  BY DEF IInv, FitsNext
<1>2. /\ metrics' \in Metrics
      /\ Succeeds(m, metrics') /\ SameGauges(m, metrics')
      /\ m.reconnects = m.errors + drops =>
           metrics'.reconnects = metrics'.errors + drops'
      /\ drops' \in Nat /\ remaining' \in Nat
      /\ \/ /\ pc' = "exited" /\ exit' = "success" /\ error' = "none"
            /\ outcome = "ShutdownRequested"
         \/ /\ pc' = "exited" /\ exit' = "failure" /\ error' = outcome
            /\ outcome \in PgcdcError /\ IsFatal(outcome)
         \/ pc' = "pause" /\ UNCHANGED <<exit, error>>
  BY <1>1, EndEffect
<1>3. PositionsHold
  BY <1>1, <1>2 DEF PositionsHold, FitsNext, Succeeds, Metrics, TypeOK
<1>4. TypeOK'
  BY <1>1, <1>2 DEF TypeOK, StreamNext, Running
<1>5. ChecksSoFar'
  BY <1>2 DEF IInv, ChecksSoFar, StreamNext, Running, Starting, InRange, ConfigError,
              InvalidUrl, BoundsCrossed
<1>6. SilenceIsMeasured' /\ SentBefore'
  BY <1>2 DEF SilenceIsMeasured, SentBefore, StreamNext, Starting
<1>7. ExitTellsWhy'
  BY <1>2 DEF IInv, ExitTellsWhy, StreamNext, PgcdcError, SlotErrors, StreamErrors,
              ConfigErrors
<1>8. CountsWhatTheSinkTook' /\ GaugeFollowsTheBuffer' /\ ClockTellsOfSends'
  BY <1>2 DEF FitsNext, Succeeds, SameGauges, CountsWhatTheSinkTook,
              GaugeFollowsTheBuffer, ClockTellsOfSends, Shown
<1>9. ReconnectsAreExplained'
  BY <1>2 DEF IInv, FitsNext, SameSessions, ReconnectsAreExplained
<1>10. QED
  BY <1>3, <1>4, <1>5, <1>6, <1>7, <1>8, <1>9 DEF IInv

\* So does a step inside a pass.
LEMMA GoIInv ==
  ASSUME IInv, pc \in Running, StreamNext, FitsNext(metrics'),
         pc' \in Running, UNCHANGED <<exit, error, drops>>, remaining' \in Nat,
         pc' \in {"read", "sleep"} => silence' <= Interval - 1,
         pc' \in {"top", "connect", "barrier", "advance"} => silence' <= Interval - 1 + Poll,
         pc' \in {"turn", "pause"} => silence' <= Interval - 1 + Poll + MaxLatency
  PROVE  IInv' /\ PositionsHold
<1>1. PositionsHold
  BY DEF PositionsHold, FitsNext
<1>2. TypeOK'
  BY DEF IInv, TypeOK, StreamNext, FitsNext
<1>3. ChecksSoFar'
  BY DEF IInv, ChecksSoFar, StreamNext, Running, Starting, InRange, ConfigError,
         InvalidUrl, BoundsCrossed
<1>4. SilenceIsMeasured' /\ SentBefore'
  BY DEF SilenceIsMeasured, SentBefore, StreamNext, Starting, Running
<1>5. ExitTellsWhy'
  BY DEF IInv, ExitTellsWhy, StreamNext
<1>6. CountsWhatTheSinkTook' /\ GaugeFollowsTheBuffer' /\ ClockTellsOfSends'
  BY DEF FitsNext, CountsWhatTheSinkTook, GaugeFollowsTheBuffer,
         ClockTellsOfSends, Shown
<1>7. ReconnectsAreExplained'
  BY DEF IInv, FitsNext, SameSessions, ReconnectsAreExplained
<1>8. QED
  BY <1>1, <1>2, <1>3, <1>4, <1>5, <1>6, <1>7 DEF IInv

\* The checks before the loop, and a signal, keep it.
LEMMA EarlyIInv ==
  ASSUME IInv, Parse \/ OpenSink \/ Validate \/ Signal
  PROVE  IInv' /\ PositionsHold
<1> USE DEF IInv
<1>1. UNCHANGED <<metrics, remaining, streamVars, clocks, history, config>>
  BY DEF Parse, OpenSink, Validate, Signal
<1>2. PositionsHold
  BY <1>1 DEF PositionsHold, TypeOK, Metrics
<1>3. /\ CountsWhatTheSinkTook' /\ GaugeFollowsTheBuffer' /\ ReconnectsAreExplained'
      /\ ClockTellsOfSends' /\ SentBefore'
  BY <1>1 DEF CountsWhatTheSinkTook, GaugeFollowsTheBuffer, Length,
              ReconnectsAreExplained, ClockTellsOfSends, SentBefore,
              streamVars, clocks, history
<1>4. CASE Signal
  <2>1. pc' = pc /\ exit' = exit /\ error' = error /\ shutdown' = TRUE
    BY <1>4 DEF Signal
  <2>2. TypeOK' /\ ChecksSoFar' /\ SilenceIsMeasured' /\ ExitTellsWhy'
    BY <1>1, <2>1 DEF TypeOK, ChecksSoFar, SilenceIsMeasured, ExitTellsWhy,
                      streamVars, clocks, history
  <2>3. QED
    BY <1>2, <1>3, <2>2
<1>5. CASE Parse \/ OpenSink \/ Validate
  <2>1. ConfigError(config) \in {"none", "InvalidDatabaseUrl", "InvalidReconnectBounds"}
    BY DEF ConfigError
  <2>2. /\ shutdown' = shutdown
        /\ \/ /\ pc' = "exited" /\ exit' = "usage" /\ error' = "none"
           \/ /\ pc' = "exited" /\ exit' = "failure"
              /\ error' \in {"Sink", "OutputPathRequired", "InvalidDatabaseUrl",
                             "InvalidReconnectBounds"}
           \/ /\ UNCHANGED <<exit, error>>
              /\ \/ pc = "parse" /\ pc' = "open" /\ InRange(config)
                 \/ /\ pc = "open" /\ pc' = "validate"
                    /\ config.output = "Stdout" \/ config.path
                 \/ pc = "validate" /\ pc' = "top" /\ ConfigError(config) = "none"
    BY <1>5, <2>1 DEF Parse, OpenSink, Validate, Exit
  <2>3. pc \in Starting
    BY <1>5 DEF Parse, OpenSink, Validate, Starting
  <2>4. TypeOK'
    BY <1>1, <2>2 DEF TypeOK, Starting, Running, PgcdcError, StreamErrors, ConfigErrors,
                      streamVars, clocks, history
  <2>5. ChecksSoFar'
    BY <1>1, <2>2 DEF ChecksSoFar, Running, InRange, ConfigError, InvalidUrl,
                      BoundsCrossed
  <2>6. SilenceIsMeasured'
    BY <1>1, <2>2, <2>3, ConstantsAssumption DEF SilenceIsMeasured, Starting, clocks
  <2>7. ExitTellsWhy'
    BY <2>2 DEF ExitTellsWhy, IsFatal
  <2>8. QED
    BY <1>2, <1>3, <2>4, <2>5, <2>6, <2>7
<1>6. QED
  BY <1>4, <1>5

\* Counters that nobody touched fit a step that touches nothing they count.
LEMMA UntouchedFits ==
  ASSUME IInv, UNCHANGED <<len, took, sent>>
  PROVE  FitsNext(metrics)
BY DEF IInv, TypeOK, FitsNext, SameSessions, CountsWhatTheSinkTook,
       GaugeFollowsTheBuffer, Length, ClockTellsOfSends, Shown, Metrics

\* The steps of the loop around a session keep it.
LEMMA LoopIInv ==
  ASSUME IInv, \/ Top \/ Pause \/ Sleep
               \/ \E d \in 0..MaxLatency : StartOk(d) \/ StartFails(d)
  PROVE  IInv' /\ PositionsHold
<1> USE ConstantsAssumption
<1>1. TypeOK /\ SilenceIsMeasured /\ SentBefore
  BY DEF IInv
<1>2. ASSUME pc \in Running, StreamNext, Stopped, shutdown, UNCHANGED metrics,
             UNCHANGED <<len, took, sent>>
      PROVE  IInv' /\ PositionsHold
  <2>1. FitsNext(metrics)
    BY <1>2, UntouchedFits
  <2>2. /\ pc' = "exited" /\ exit' = "success" /\ error' = "none"
        /\ UNCHANGED <<remaining, drops, config, shutdown, metrics>>
    BY <1>2 DEF Stopped, Exit, StreamNext
  <2>3. TypeOK' /\ PositionsHold
    BY <1>1, <1>2, <2>1, <2>2 DEF TypeOK, StreamNext, PositionsHold, FitsNext
  <2>4. /\ ChecksSoFar' /\ SilenceIsMeasured' /\ SentBefore'
        /\ ExitTellsWhy'
    <3>1. SilenceIsMeasured' /\ SentBefore'
      BY <1>2, <2>2 DEF SilenceIsMeasured, SentBefore, StreamNext, Starting
    <3>2. ChecksSoFar'
      BY <2>2 DEF ChecksSoFar, Running
    <3>3. ExitTellsWhy'
      BY <1>2, <2>2 DEF ExitTellsWhy
    <3>4. QED
      BY <3>1, <3>2, <3>3
  <2>5. /\ CountsWhatTheSinkTook' /\ GaugeFollowsTheBuffer' /\ ClockTellsOfSends'
        /\ ReconnectsAreExplained'
    BY <2>1, <2>2 DEF IInv, FitsNext, CountsWhatTheSinkTook, GaugeFollowsTheBuffer,
                      ClockTellsOfSends, ReconnectsAreExplained, Shown
  <2>6. QED
    BY <2>3, <2>4, <2>5 DEF IInv
<1>3. CASE Top
  <2>1. /\ pc = "top" /\ pc \in Running /\ StreamNext
        /\ UNCHANGED <<metrics, len, took, sent, silence>>
    BY <1>1, <1>3 DEF Top, StreamNext, TypeOK, SilenceIsMeasured, SentBefore, Running,
                      streamVars, clocks
  <2>2. CASE shutdown /\ Stopped
    BY <1>2, <2>1, <2>2
  <2>3. CASE pc' = "connect" /\ UNCHANGED <<exit, error, remaining, drops>>
    <3>1. FitsNext(metrics')
      BY <2>1, UntouchedFits
    <3>2. /\ pc' \in Running /\ remaining' \in Nat
          /\ silence' <= Interval - 1 + Poll
      BY <1>1, <2>1, <2>3 DEF TypeOK, SilenceIsMeasured, Running
    <3>3. QED
      BY <2>1, <2>3, <3>1, <3>2, GoIInv
  <2>4. QED
    BY <1>3, <2>2, <2>3 DEF Top
<1>4. CASE Pause
  <2>1. pc = "pause" /\ pc \in Running /\ UNCHANGED <<metrics, len, took, sent>>
    BY <1>4 DEF Pause, Running, streamVars
  <2>2. CASE shutdown /\ Stopped /\ UNCHANGED <<sinceReport, silence>>
    <3>1. StreamNext
      BY <1>1, <1>4, <2>2 DEF Pause, StreamNext, TypeOK, SilenceIsMeasured, SentBefore,
                              streamVars
    <3>2. QED
      BY <1>2, <2>1, <2>2, <3>1
  <2>3. CASE MaybeReport /\ pc' = "sleep" /\ UNCHANGED <<exit, error, remaining, drops>>
    <3>1. StreamNext /\ silence' <= Interval - 1
      BY <1>1, <1>4, <2>3 DEF Pause, StreamNext, TypeOK, SilenceIsMeasured, SentBefore,
                              MaybeReport, streamVars
    <3>2. FitsNext(metrics')
      BY <2>1, UntouchedFits
    <3>3. pc' \in Running /\ remaining' \in Nat
      BY <1>1, <2>3 DEF TypeOK, Running
    <3>4. QED
      BY <2>1, <2>3, <3>1, <3>2, <3>3, GoIInv
  <2>4. QED
    BY <1>4, <2>2, <2>3 DEF Pause
<1>5. CASE Sleep
  <2> DEFINE chunk == IF remaining < Poll THEN remaining ELSE Poll
  <2>1. chunk \in Nat /\ chunk <= Poll /\ remaining - chunk \in Nat
    BY <1>1 DEF TypeOK
  <2>2. /\ pc = "sleep" /\ Elapse(chunk) /\ remaining' = remaining - chunk
        /\ \/ pc' = "pause" /\ UNCHANGED <<len, metrics>>
           \/ pc' = "top" /\ len' = -1 /\ metrics' = SetBuffer(metrics, 0)
        /\ UNCHANGED <<runVars, pos, pending, acked, history>>
    BY <1>5 DEF Sleep
  <2> HIDE DEF chunk
  <2>3. StreamNext /\ silence' <= Interval - 1 + Poll
    BY <1>1, <2>1, <2>2 DEF StreamNext, Elapse, TypeOK, SilenceIsMeasured, SentBefore,
                            runVars, history
  <2>4. FitsNext(metrics')
    <3>1. CASE UNCHANGED <<len, metrics>>
      BY <2>2, <3>1, UntouchedFits DEF history
    <3>2. CASE len' = -1 /\ metrics' = SetBuffer(metrics, 0)
      <4>1. /\ metrics' \in Metrics
            /\ metrics'.buffer = 0 /\ metrics'.ackAt = metrics.ackAt
            /\ Succeeds(metrics, metrics') /\ SameSessions(metrics, metrics')
        BY <1>1, <3>2, BufferEffect, MethodTypes DEF TypeOK
      <4>2. Length' = 0
        BY <3>2 DEF Length
      <4>3. QED
        BY <2>2, <4>1, <4>2
           DEF IInv, FitsNext, Succeeds, CountsWhatTheSinkTook, ClockTellsOfSends,
               Shown, history
    <3>3. QED
      BY <2>2, <3>1, <3>2
  <2>5. /\ pc \in Running /\ pc' \in {"pause", "top"} /\ pc' \in Running
        /\ remaining' \in Nat /\ UNCHANGED <<exit, error, drops>>
    BY <2>1, <2>2 DEF Running, runVars, history
  <2>6. silence' <= Interval - 1 + Poll + MaxLatency
    BY <1>1, <2>3 DEF StreamNext
  <2>7. QED
    BY <2>3, <2>4, <2>5, <2>6, GoIInv
<1>6. ASSUME NEW d \in 0..MaxLatency, StartOk(d) PROVE IInv' /\ PositionsHold
  <2>1. /\ pc = "connect" /\ Elapse(d) /\ pc' = "turn" /\ pos' = acked
        /\ metrics' = SetStreaming(metrics, TRUE)
        /\ UNCHANGED <<runVars, remaining, len, pending, acked, history>>
    BY <1>6 DEF StartOk
  <2>2. StreamNext /\ silence' <= Interval - 1 + Poll + MaxLatency
    BY <1>1, <2>1 DEF StreamNext, Elapse, TypeOK, SilenceIsMeasured, SentBefore,
                      runVars, history
  <2>3. /\ metrics' \in Metrics
        /\ Succeeds(metrics, metrics') /\ SameGauges(metrics, metrics')
        /\ SameSessions(metrics, metrics')
    <3>1. metrics \in Metrics /\ 0 \in Nat /\ TRUE \in BOOLEAN
      BY <1>1 DEF TypeOK
    <3>2. metrics' \in Metrics
      BY <2>1, <3>1, MethodTypes
    <3>3. QED
      BY <2>1, <3>1, <3>2 DEF Metrics, SetStreaming, Succeeds, SameGauges, SameSessions
  <2>4. FitsNext(metrics')
    BY <2>1, <2>3 DEF IInv, FitsNext, Succeeds, SameGauges, CountsWhatTheSinkTook,
                      GaugeFollowsTheBuffer, ClockTellsOfSends, Shown, Length, history
  <2>5. /\ pc \in Running /\ pc' \in Running /\ remaining' \in Nat
        /\ UNCHANGED <<exit, error, drops>>
    BY <1>1, <2>1 DEF TypeOK, Running, runVars, history
  <2>6. QED
    BY <2>1, <2>2, <2>4, <2>5, GoIInv
<1>7. ASSUME NEW d \in 0..MaxLatency, StartFails(d) PROVE IInv' /\ PositionsHold
  <2>1. PICK e \in {"Connection", "SlotBusyTimedOut"} \cup SlotErrors : End(e, metrics)
    BY <1>7 DEF StartFails
  <2>2. /\ pc = "connect" /\ Elapse(d)
        /\ UNCHANGED <<config, shutdown, streamVars, took, sent>>
    BY <1>7 DEF StartFails
  <2>3. StreamNext /\ silence' <= Interval - 1 + Poll + MaxLatency /\ pc \in Running
    BY <1>1, <2>2 DEF StreamNext, Elapse, TypeOK, SilenceIsMeasured, SentBefore,
                      Running, streamVars
  <2>4. FitsNext(metrics)
    BY <2>2, UntouchedFits DEF streamVars
  <2>5. e \in Outcomes /\ e # "ShutdownRequested"
    BY DEF Outcomes, PgcdcError, SlotErrors
  <2>6. QED
    BY <2>1, <2>3, <2>4, <2>5, EndIInv
<1>8. QED
  BY <1>3, <1>4, <1>5, <1>6, <1>7

\* The gauge set to the length the buffer gets makes the counters fit.
LEMMA BufferFits ==
  ASSUME IInv, UNCHANGED <<took, sent>>, NEW n \in Nat, Length' = n
  PROVE  FitsNext(SetBuffer(Arrived, n))
<1>1. TypeOK
  BY DEF IInv
<1>2. /\ Arrived \in Metrics
      /\ Succeeds(metrics, Arrived) /\ SameGauges(metrics, Arrived)
      /\ SameSessions(metrics, Arrived)
  BY <1>1, ArrivedEffect
<1> DEFINE m == SetBuffer(Arrived, n)
<1>3. /\ m \in Metrics /\ m.buffer = n /\ m.ackAt = Arrived.ackAt
      /\ Succeeds(Arrived, m) /\ SameSessions(Arrived, m)
  BY <1>2, BufferEffect, MethodTypes
<1> HIDE DEF m
<1>4. metrics \in Metrics
  BY <1>1 DEF TypeOK
<1>5. FitsNext(m)
  BY <1>2, <1>3, <1>4
     DEF IInv, FitsNext, Succeeds, SameGauges, SameSessions, Metrics,
         CountsWhatTheSinkTook, ClockTellsOfSends, Shown
<1>6. QED
  BY <1>5 DEF m

\* Every frame keeps it, accepted or refused, by the decoder, the assembler or
\* the sink.
LEMMA FrameIInv ==
  ASSUME IInv, \/ Undecodable \/ Begin \/ Change(1) \/ Change(2) \/ Refused
               \/ Commit \/ CommitFails
  PROVE  IInv' /\ PositionsHold
<1> USE ConstantsAssumption
<1>1. TypeOK /\ SilenceIsMeasured /\ SentBefore
  BY DEF IInv
<1>2. Frame
  BY DEF Undecodable, Begin, Change, Refused, Commit, CommitFails
<1>3. /\ pc = "read" /\ pc \in Running /\ pos' \in Nat
      /\ UNCHANGED <<config, shutdown, acked, sinceReport, now, silence, sent>>
      /\ silence' <= Interval - 1 /\ silence' \in Nat /\ silence' = sinceReport'
  BY <1>1, <1>2 DEF Frame, TypeOK, SilenceIsMeasured, Running, clocks
<1>4. silence' <= Interval - 1 + Poll /\ silence' <= Interval - 1 + Poll + MaxLatency
  BY <1>3
<1>5. config.limit \in Nat /\ config.limit <= MaxLimit
  BY <1>3 DEF IInv, ChecksSoFar, InRange
<1>6. ASSUME len' \in -1..MaxLimit, pending' \in Nat,
             took' \in [transactions : Nat, events : Nat]
      PROVE  StreamNext
  BY <1>1, <1>3, <1>6 DEF StreamNext, TypeOK, SentBefore
<1>7. ASSUME StreamNext, FitsNext(metrics'), Goto("barrier") PROVE IInv' /\ PositionsHold
  <2>1. /\ pc' = "barrier" /\ pc' \in Running /\ remaining' \in Nat
        /\ UNCHANGED <<exit, error, drops>>
    BY <1>1, <1>7 DEF Goto, TypeOK, Running
  <2>2. QED
    BY <1>3, <1>4, <1>7, <2>1, GoIInv
<1>8. ASSUME StreamNext, NEW m, FitsNext(m),
             NEW e \in PgcdcError, End(e, m)
      PROVE  IInv' /\ PositionsHold
  <2>1. e \in Outcomes /\ e # "ShutdownRequested"
    BY DEF Outcomes, PgcdcError, SlotErrors, StreamErrors, ConfigErrors
  <2>2. QED
    BY <1>3, <1>4, <1>8, <2>1, EndIInv
<1>9. CASE Undecodable
  <2>1. PICK e \in {"Decode", "UnsupportedMessage"} : End(e, Arrived)
    BY <1>9 DEF Undecodable
  <2>2. UNCHANGED <<len, pending, took>> /\ e \in PgcdcError
    BY <1>9 DEF Undecodable, PgcdcError, StreamErrors
  <2>3. StreamNext
    BY <1>1, <1>6, <2>2 DEF TypeOK
  <2>4. FitsNext(Arrived)
    <3>1. FitsNext(metrics)
      BY <1>3, <2>2, UntouchedFits
    <3>2. /\ Arrived \in Metrics
          /\ Succeeds(metrics, Arrived) /\ SameGauges(metrics, Arrived)
          /\ SameSessions(metrics, Arrived)
      BY <1>1, ArrivedEffect
    <3>3. QED
      BY <3>1, <3>2 DEF FitsNext, Succeeds, SameGauges
  <2>5. QED
    BY <1>8, <2>1, <2>2, <2>3, <2>4
<1>10. CASE Begin
  <2>1. /\ len' = 0 /\ metrics' = SetBuffer(Arrived, 0) /\ Goto("barrier")
        /\ UNCHANGED <<pending, took>>
    BY <1>10 DEF Begin
  <2>2. StreamNext /\ Length' = 0
    BY <1>1, <1>6, <2>1 DEF TypeOK, Length
  <2>3. FitsNext(metrics')
    BY <1>3, <2>1, <2>2, BufferFits
  <2>4. QED
    BY <1>7, <2>1, <2>2, <2>3
<1>11. ASSUME NEW n \in {1, 2}, Change(n) PROVE IInv' /\ PositionsHold
  <2>1. /\ len >= 0 /\ len + n <= config.limit
        /\ len' = len + n /\ metrics' = SetBuffer(Arrived, len') /\ Goto("barrier")
        /\ UNCHANGED <<pending, took>>
    BY <1>11 DEF Change
  <2>2. StreamNext /\ Length' = len' /\ len' \in Nat
    BY <1>1, <1>5, <1>6, <2>1 DEF TypeOK, Length
  <2>3. FitsNext(metrics')
    BY <1>3, <2>1, <2>2, BufferFits
  <2>4. QED
    BY <1>7, <2>1, <2>2, <2>3
<1>12. CASE Refused
  <2>1. /\ UNCHANGED <<pending, took>>
        /\ len' \in -1..MaxLimit
        /\ \E e \in {"TransactionTooLarge", "UnknownRelation", "Decode"} :
              End(e, GaugeOnFailure(Arrived, Length'))
    BY <1>1, <1>5, <1>12 DEF Refused, TypeOK
  <2>2. PICK e \in {"TransactionTooLarge", "UnknownRelation", "Decode"} :
              End(e, GaugeOnFailure(Arrived, Length'))
    BY <2>1
  <2>3. StreamNext /\ Length' \in Nat /\ e \in PgcdcError
    BY <1>1, <1>6, <2>1 DEF TypeOK, Length, PgcdcError, StreamErrors
  <2>4. FitsNext(GaugeOnFailure(Arrived, Length'))
    BY <1>3, <2>1, <2>3, BufferFits DEF GaugeOnFailure
  <2>5. QED
    BY <1>8, <2>2, <2>3, <2>4
<1>13. CASE Commit
  <2>1. /\ len >= 0 /\ len' = -1 /\ pending' = pos + 1 /\ Goto("barrier")
        /\ metrics' = AddEvents(AddTransaction(SetBuffer(Arrived, 0)), len)
        /\ took' = [transactions |-> took.transactions + 1, events |-> took.events + len]
    BY <1>13 DEF Commit
  <2>2. len \in Nat /\ StreamNext /\ Length' = 0
    BY <1>1, <1>6, <2>1 DEF TypeOK, Length
  <2> DEFINE b == SetBuffer(Arrived, 0)
             t == AddTransaction(b)
  <2>3. /\ Arrived \in Metrics
        /\ Succeeds(metrics, Arrived) /\ SameGauges(metrics, Arrived)
        /\ SameSessions(metrics, Arrived)
    BY <1>1, ArrivedEffect
  <2>4. /\ b \in Metrics /\ b.buffer = 0 /\ b.ackAt = Arrived.ackAt
        /\ Succeeds(Arrived, b) /\ SameSessions(Arrived, b)
    BY <2>3, BufferEffect, MethodTypes
  <2> HIDE DEF b
  <2>5. /\ t \in Metrics /\ t.transactions = b.transactions + 1 /\ t.events = b.events
        /\ SameGauges(b, t) /\ SameSessions(b, t)
        /\ t.received = b.received /\ t.acknowledged = b.acknowledged
    BY <2>4, MethodTypes DEF Metrics, AddTransaction, SameGauges, SameSessions
  <2> HIDE DEF t
  <2>6. /\ metrics' \in Metrics
        /\ metrics'.transactions = t.transactions /\ metrics'.events = t.events + len
        /\ SameGauges(t, metrics') /\ SameSessions(t, metrics')
        /\ metrics'.received = t.received /\ metrics'.acknowledged = t.acknowledged
    <3>1. metrics' = AddEvents(t, len)
      BY <2>1 DEF b, t
    <3>2. metrics' \in Metrics
      BY <2>2, <2>5, <3>1, MethodTypes
    <3>3. QED
      BY <2>2, <2>5, <3>1, <3>2 DEF Metrics, AddEvents, SameGauges, SameSessions
  <2>7. FitsNext(metrics')
    <3>1. /\ metrics'.events = metrics.events + len
          /\ metrics'.transactions = metrics.transactions + 1
          /\ metrics'.buffer = 0 /\ metrics'.ackAt = metrics.ackAt
      BY <2>3, <2>4, <2>5, <2>6 DEF Succeeds, SameGauges
    <3>2. /\ metrics'.received >= metrics.received
          /\ metrics'.acknowledged >= metrics.acknowledged
          /\ SameSessions(metrics, metrics')
      BY <1>1, <2>3, <2>4, <2>5, <2>6 DEF TypeOK, Metrics, Succeeds, SameSessions
    <3>3. QED
      BY <1>3, <2>1, <2>2, <2>6, <3>1, <3>2
         DEF IInv, FitsNext, CountsWhatTheSinkTook, ClockTellsOfSends, Shown
  <2>8. QED
    BY <1>7, <2>1, <2>2, <2>7
<1>14. CASE CommitFails
  <2>1. /\ len' = -1 /\ End("Sink", SetBuffer(Arrived, 0)) /\ UNCHANGED <<pending, took>>
    BY <1>14 DEF CommitFails, Offered
  <2>2. StreamNext /\ Length' = 0 /\ "Sink" \in PgcdcError
    BY <1>1, <1>6, <2>1 DEF TypeOK, Length, PgcdcError, StreamErrors
  <2>3. FitsNext(SetBuffer(Arrived, 0))
    BY <1>3, <2>1, <2>2, BufferFits
  <2>4. QED
    BY <1>8, <2>1, <2>2, <2>3
<1>15. QED
  BY <1>9, <1>10, <1>11, <1>12, <1>13, <1>14

\* The other steps of a session keep it, whether the barrier or a send fails.
LEMMA TurnIInv ==
  ASSUME IInv, \/ TurnStops \/ Turn \/ ReadFails \/ Barrier \/ Advance
               \/ \E d \in 0..Poll : Tick(d)
  PROVE  IInv' /\ PositionsHold
<1> USE ConstantsAssumption
<1>1. TypeOK /\ SilenceIsMeasured /\ SentBefore
  BY DEF IInv
<1>2. ASSUME UNCHANGED <<config, shutdown, len, took, clocks>>,
             pos' \in Nat, pending' \in Nat, acked' \in Nat,
             sent' \in {sent, now + 1}
      PROVE  StreamNext
  BY <1>1, <1>2 DEF TypeOK, StreamNext, SilenceIsMeasured, SentBefore, clocks
<1>3. ASSUME NEW durable \in Nat, UNCHANGED <<len, took>>
      PROVE  /\ Sent(durable) => FitsNext(AfterSend(durable))
             /\ NotSent(durable) => FitsNext(BeforeSend(durable))
             /\ Sent(durable) \/ NotSent(durable) =>
                  acked' \in Nat /\ sent' \in {sent, now + 1}
  <2>1. /\ Raised(durable) \in Nat
        /\ BeforeSend(durable) \in Metrics
        /\ Succeeds(metrics, BeforeSend(durable))
        /\ SameGauges(metrics, BeforeSend(durable))
        /\ SameSessions(metrics, BeforeSend(durable))
        /\ AfterSend(durable) \in Metrics
        /\ Succeeds(metrics, AfterSend(durable))
        /\ AfterSend(durable).buffer = metrics.buffer
        /\ AfterSend(durable).ackAt = IF now > 0 THEN now ELSE 1
        /\ SameSessions(metrics, AfterSend(durable))
    BY <1>1, SendEffect
  <2>2. /\ metrics.transactions = took'.transactions /\ metrics.events = took'.events
        /\ metrics.buffer = Length' /\ metrics.ackAt = Shown(sent)
    BY <1>3 DEF IInv, CountsWhatTheSinkTook, GaugeFollowsTheBuffer, Length,
                ClockTellsOfSends, Shown
  <2>3. Sent(durable) => FitsNext(AfterSend(durable))
    <3>1. (IF now > 0 THEN now ELSE 1) = Shown(now + 1)
      BY <1>1 DEF TypeOK, Shown
    <3>2. QED
      BY <2>1, <2>2, <3>1 DEF Sent, FitsNext, Succeeds
  <2>4. NotSent(durable) => FitsNext(BeforeSend(durable))
    BY <2>1, <2>2 DEF NotSent, FitsNext, Succeeds, SameGauges
  <2>5. QED
    BY <2>1, <2>3, <2>4 DEF Sent, NotSent
<1>4. ASSUME pc \in {"turn", "read", "barrier", "advance"}, StreamNext, UNCHANGED clocks,
             NEW m, FitsNext(m),
             NEW e \in {"Sink", "Connection", "Disconnected", "ShutdownRequested"},
             End(e, m), e = "ShutdownRequested" => shutdown
      PROVE  IInv' /\ PositionsHold
  <2>1. e \in Outcomes /\ pc \in Running
    BY <1>4 DEF Outcomes, PgcdcError, StreamErrors, Running
  <2>2. silence' <= Interval - 1 + Poll + MaxLatency
    BY <1>1, <1>4 DEF TypeOK, SilenceIsMeasured, clocks
  <2>3. QED
    BY <1>4, <2>1, <2>2, EndIInv
<1>5. ASSUME pc \in {"turn", "read", "barrier", "advance"}, StreamNext,
             FitsNext(metrics'),
             NEW location \in {"turn", "read", "barrier", "advance"}, Goto(location),
             location = "read" => silence' <= Interval - 1,
             location \in {"barrier", "advance"} => silence' <= Interval - 1 + Poll,
             silence' <= Interval - 1 + Poll + MaxLatency
      PROVE  IInv' /\ PositionsHold
  <2>1. /\ pc \in Running /\ pc' = location /\ pc' \in Running /\ remaining' \in Nat
        /\ UNCHANGED <<exit, error, drops>>
    BY <1>1, <1>5 DEF Goto, TypeOK, Running
  <2>2. QED
    BY <1>5, <2>1, GoIInv
<1>6. ASSUME BarrierFails, pc \in {"turn", "barrier"},
             UNCHANGED <<config, shutdown, pos, len, clocks, took>>
      PROVE  IInv' /\ PositionsHold
  <2>1. pos' \in Nat /\ pending \in Nat
    BY <1>1, <1>6 DEF TypeOK
  <2>2. CASE End("Sink", metrics) /\ UNCHANGED <<pending, acked, sent>>
    <3>1. StreamNext
      BY <1>1, <1>2, <1>6, <2>1, <2>2 DEF TypeOK
    <3>2. FitsNext(metrics)
      BY <1>6, <2>2, UntouchedFits
    <3>3. QED
      BY <1>4, <1>6, <2>2, <3>1, <3>2
  <2>3. CASE pending' = 0 /\ NotSent(pending) /\ End("Connection", BeforeSend(pending))
    <3>1. FitsNext(BeforeSend(pending)) /\ StreamNext
      BY <1>2, <1>3, <1>6, <2>1, <2>3
    <3>2. QED
      BY <1>4, <1>6, <2>3, <3>1
  <2>4. QED
    BY <1>6, <2>2, <2>3 DEF BarrierFails
<1>7. CASE TurnStops
  <2>1. /\ pc = "turn" /\ shutdown
        /\ UNCHANGED <<config, shutdown, pos, len, clocks, took>>
        /\ pos' \in Nat /\ pending \in Nat
    BY <1>1, <1>7 DEF TurnStops, TypeOK
  <2>2. CASE End("ShutdownRequested", metrics) /\ UNCHANGED <<pending, acked, sent>>
    <3>1. StreamNext
      BY <1>1, <1>2, <2>1, <2>2 DEF TypeOK
    <3>2. FitsNext(metrics)
      BY <2>1, <2>2, UntouchedFits
    <3>3. QED
      BY <1>4, <2>1, <2>2, <3>1, <3>2
  <2>3. CASE /\ pending' = 0 /\ Sent(pending)
             /\ End("ShutdownRequested", AfterSend(pending))
    <3>1. FitsNext(AfterSend(pending)) /\ StreamNext
      BY <1>2, <1>3, <2>1, <2>3
    <3>2. QED
      BY <1>4, <2>1, <2>3, <3>1
  <2>4. QED
    BY <1>6, <1>7, <2>1, <2>2, <2>3 DEF TurnStops
<1>8. CASE Turn
  <2>1. /\ pc = "turn" /\ MaybeReport /\ Goto("read")
        /\ UNCHANGED <<config, shutdown, metrics, streamVars, now, took, sent>>
    BY <1>8 DEF Turn
  <2>2. StreamNext /\ silence' <= Interval - 1
    BY <1>1, <2>1 DEF StreamNext, TypeOK, SilenceIsMeasured, SentBefore, MaybeReport,
                      streamVars
  <2>3. FitsNext(metrics')
    BY <2>1, UntouchedFits DEF streamVars
  <2>4. silence' <= Interval - 1 + Poll + MaxLatency
    BY <2>2 DEF StreamNext
  <2>5. QED
    BY <1>5, <2>1, <2>2, <2>3, <2>4
<1>9. CASE ReadFails
  <2>1. /\ pc = "read" /\ End("Disconnected", metrics)
        /\ UNCHANGED <<config, shutdown, streamVars, clocks, took, sent>>
    BY <1>9 DEF ReadFails
  <2>2. StreamNext /\ FitsNext(metrics)
    BY <1>1, <1>2, <2>1, UntouchedFits DEF TypeOK, streamVars
  <2>3. QED
    BY <1>4, <2>1, <2>2
<1>10. ASSUME NEW d \in 0..Poll, Tick(d) PROVE IInv' /\ PositionsHold
  <2>1. /\ pc = "read" /\ Elapse(d) /\ Goto("barrier")
        /\ UNCHANGED <<config, shutdown, metrics, streamVars, took, sent>>
    BY <1>10 DEF Tick
  <2>2. StreamNext /\ silence' <= Interval - 1 + Poll
    BY <1>1, <2>1 DEF StreamNext, Elapse, TypeOK, SilenceIsMeasured, SentBefore,
                      streamVars
  <2>3. FitsNext(metrics')
    BY <2>1, UntouchedFits DEF streamVars
  <2>4. silence' <= Interval - 1 + Poll + MaxLatency
    BY <2>2 DEF StreamNext
  <2>5. QED
    BY <1>5, <2>1, <2>2, <2>3, <2>4
<1>11. CASE Barrier
  <2>1. /\ pc = "barrier"
        /\ UNCHANGED <<config, shutdown, pos, len, clocks, took>>
        /\ pos' \in Nat /\ pending \in Nat
        /\ silence' <= Interval - 1 + Poll
        /\ silence' <= Interval - 1 + Poll + MaxLatency
    BY <1>1, <1>11 DEF Barrier, TypeOK, SilenceIsMeasured, clocks
  <2>2. CASE Goto("advance") /\ UNCHANGED <<metrics, pending, acked, sent>>
    <3>1. StreamNext /\ FitsNext(metrics')
      BY <1>1, <1>2, <2>1, <2>2, UntouchedFits DEF TypeOK
    <3>2. QED
      BY <1>5, <2>1, <2>2, <3>1
  <2>3. CASE /\ pending' = 0 /\ Sent(pending)
             /\ metrics' = AfterSend(pending) /\ Goto("advance")
    <3>1. StreamNext /\ FitsNext(metrics')
      BY <1>2, <1>3, <2>1, <2>3
    <3>2. QED
      BY <1>5, <2>1, <2>3, <3>1
  <2>4. QED
    BY <1>6, <1>11, <2>1, <2>2, <2>3 DEF Barrier
<1>12. CASE Advance
  <2>1. /\ pc = "advance"
        /\ UNCHANGED <<config, shutdown, len, pending, clocks, took>>
        /\ pending' \in Nat /\ pos + 1 \in Nat
        /\ silence' <= Interval - 1 + Poll + MaxLatency
    BY <1>1, <1>12 DEF Advance, TypeOK, SilenceIsMeasured, clocks
  <2>2. CASE Goto("turn") /\ UNCHANGED <<metrics, pos, acked, sent>>
    <3>1. StreamNext /\ FitsNext(metrics')
      BY <1>1, <1>2, <2>1, <2>2, UntouchedFits DEF TypeOK
    <3>2. QED
      BY <1>5, <2>1, <2>2, <3>1
  <2>3. CASE /\ pos' = pos + 1 /\ Sent(pos') /\ metrics' = AfterSend(pos')
             /\ Goto("turn")
    <3>1. StreamNext /\ FitsNext(metrics')
      BY <1>2, <1>3, <2>1, <2>3
    <3>2. QED
      BY <1>5, <2>1, <2>3, <3>1
  <2>4. CASE pos' = pos + 1 /\ NotSent(pos') /\ End("Connection", BeforeSend(pos'))
    <3>1. StreamNext /\ FitsNext(BeforeSend(pos'))
      BY <1>2, <1>3, <2>1, <2>4
    <3>2. QED
      BY <1>4, <2>1, <2>4, <3>1
  <2>5. QED
    BY <1>12, <2>2, <2>3, <2>4 DEF Advance
<1>13. QED
  BY <1>7, <1>8, <1>9, <1>10, <1>11, <1>12

\* Every step keeps the invariant, and lets no watched position retreat.
LEMMA NextIInv == IInv /\ [Next]_vars => IInv' /\ (UNCHANGED vars \/ PositionsHold)
<1> SUFFICES ASSUME IInv, [Next]_vars PROVE IInv' /\ (UNCHANGED vars \/ PositionsHold)
  OBVIOUS
<1>1. CASE UNCHANGED vars
  <2>1. TypeOK' /\ ChecksSoFar' /\ SilenceIsMeasured' /\ SentBefore' /\ ExitTellsWhy'
    BY <1>1 DEF IInv, vars, runVars, streamVars, clocks, history, TypeOK, ChecksSoFar,
                SilenceIsMeasured, SentBefore, ExitTellsWhy
  <2>2. /\ CountsWhatTheSinkTook' /\ GaugeFollowsTheBuffer' /\ ReconnectsAreExplained'
        /\ ClockTellsOfSends'
    BY <1>1 DEF IInv, vars, streamVars, history, CountsWhatTheSinkTook,
                GaugeFollowsTheBuffer, Length, ReconnectsAreExplained,
                ClockTellsOfSends
  <2>3. QED
    BY <1>1, <2>1, <2>2 DEF IInv
<1>2. CASE Parse \/ OpenSink \/ Validate \/ Signal
  BY <1>2, EarlyIInv
<1>3. CASE \/ Top \/ Pause \/ Sleep
           \/ \E d \in 0..MaxLatency : StartOk(d) \/ StartFails(d)
  BY <1>3, LoopIInv
<1>4. CASE \/ Undecodable \/ Begin \/ Change(1) \/ Change(2) \/ Refused
           \/ Commit \/ CommitFails
  BY <1>4, FrameIInv
<1>5. CASE \/ TurnStops \/ Turn \/ ReadFails \/ Barrier \/ Advance
           \/ \E d \in 0..Poll : Tick(d)
  BY <1>5, TurnIInv
<1>6. QED
  BY <1>1, <1>2, <1>3, <1>4, <1>5 DEF Next

\* The invariant holds in every reachable state.
THEOREM Invariance == Spec => []IInv
<1>1. IInv /\ [Next]_vars => IInv'
  BY NextIInv
<1>2. QED
  BY InitIInv, <1>1, PTL DEF Spec

-----------------------------------------------------------------------------
(* The results.                                                            *)

\* Every variable stays in its domain; above all the buffer under the limit.
THEOREM TypeCorrect == Spec => []TypeOK
<1>1. IInv => TypeOK
  BY DEF IInv
<1>2. QED
  BY <1>1, Invariance, PTL

\* The loop is entered only with options that fit together.
THEOREM ConfigIsSound == Spec => []RunsSoundConfigsOnly
<1>1. IInv => RunsSoundConfigsOnly
  BY DEF IInv, TypeOK, ChecksSoFar, RunsSoundConfigsOnly, Running, Starting, Config,
         InRange, ConfigError, InvalidUrl, BoundsCrossed
<1>2. QED
  BY <1>1, Invariance, PTL

\* The exit code tells a shutdown from a fatal error.
THEOREM ExitIsExplained == Spec => []ExitTellsWhy
<1>1. IInv => ExitTellsWhy
  BY DEF IInv
<1>2. QED
  BY <1>1, Invariance, PTL

\* The counters count what the sink accepted, neither less nor more.
THEOREM CountsAreExact == Spec => []CountsWhatTheSinkTook
<1>1. IInv => CountsWhatTheSinkTook
  BY DEF IInv
<1>2. QED
  BY <1>1, Invariance, PTL

\* The gauge is the size of the buffer at every point, also after a failure.
THEOREM GaugeIsExact == Spec => []GaugeFollowsTheBuffer
<1>1. IInv => GaugeFollowsTheBuffer
  BY DEF IInv
<1>2. QED
  BY <1>1, Invariance, PTL

\* Reconnects are errors and dropped connections, and nothing else.
THEOREM ReconnectsAddUp == Spec => []ReconnectsAreExplained
<1>1. IInv => ReconnectsAreExplained
  BY DEF IInv
<1>2. QED
  BY <1>1, Invariance, PTL

\* Reports never stay away longer than one wait and one connection attempt
\* beyond their interval, whatever the sessions do.
THEOREM ReportsComeInTime == Spec => []ReportsKeepComing
<1>1. IInv => ReportsKeepComing
  BY ConstantsAssumption
     DEF IInv, TypeOK, SilenceIsMeasured, ReportsKeepComing, Running
<1>2. QED
  BY <1>1, Invariance, PTL

\* The clock shows the last acknowledgement that was sent.
THEOREM ClockIsHonest == Spec => []ClockTellsOfSends
<1>1. IInv => ClockTellsOfSends
  BY DEF IInv
<1>2. QED
  BY <1>1, Invariance, PTL

\* The age of the last acknowledgement is right to the unit and never negative,
\* however late the reader looks at the clock after loading the value.
THEOREM AgeIsRight == Spec => []AgeIsTrue
<1>1. IInv => AgeIsTrue
  <2>1. SUFFICES ASSUME IInv
                 PROVE  /\ (metrics.ackAt = 0) <=> (sent = 0)
                        /\ sent # 0 =>
                             \A later \in now..MaxTime :
                                /\ Age(metrics.ackAt, later)
                                     \in {later - (sent - 1), later - (sent - 1) - 1}
                                /\ Age(metrics.ackAt, later) >= 0
    BY DEF AgeIsTrue
  <2>2. /\ metrics.ackAt = Shown(sent) /\ sent \in Nat /\ now \in Nat
        /\ sent <= now + 1 /\ MaxTime \in Nat
    BY <2>1, ConstantsAssumption DEF IInv, ClockTellsOfSends, Shown, TypeOK, SentBefore
  <2>3. QED
    BY <2>2 DEF Shown, Age
<1>2. QED
  BY <1>1, Invariance, PTL

\* The received and the acknowledged position an operator watches only grow.
THEOREM PositionsAreMonotone == Spec => PositionsNeverRetreat
<1>1. IInv /\ [Next]_vars =>
        [/\ metrics'.received >= metrics.received
         /\ metrics'.acknowledged >= metrics.acknowledged]_vars
  BY NextIInv DEF PositionsHold
<1>2. QED
  BY <1>1, Invariance, PTL DEF Spec, PositionsNeverRetreat
=============================================================================
