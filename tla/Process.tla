------------------------------- MODULE Process -------------------------------
(***************************************************************************)
(* One life of the pgcdc process as its operator sees it: the command line *)
(* (src/config.rs), the sink and the exit code (src/main.rs), and the      *)
(* counters `run` and `stream_once` keep while frames arrive, sessions end *)
(* and the loop pauses (Metrics, Errors), with the periodic report and a   *)
(* snapshot taken by another thread of an embedding program.               *)
(*                                                                         *)
(* What is delivered is the subject of Replication and the length of the   *)
(* pauses that of ReconnectLoop.  Here a frame is BEGIN, a change, COMMIT  *)
(* or one that is refused, at the next position of the stream; time passes *)
(* in connecting, reading and sleeping.                                    *)
(***************************************************************************)
EXTENDS Errors, Metrics

CONSTANTS
    Configs,         \* the command lines that are tried
    MaxLimit,        \* u32::MAX, the upper bound of --max-transaction-events
    Interval,        \* METRICS_REPORT_INTERVAL
    Poll,            \* SHUTDOWN_POLL_INTERVAL
    MaxLatency,      \* bound: the time one attempt to connect takes
    MaxFrames, MaxReconnects, MaxTime  \* bounds of the behaviours

\* A command line: what clap accepts, with the form of the URL and whether an
\* output path is given in the place of the strings.
Config == [url : {"uri", "libpq"}, output : {"Stdout", "File"}, path : BOOLEAN,
           limit : Nat, initial : Nat, max : Nat]

ASSUME ConstantsAssumption ==
    /\ Configs \subseteq Config
    /\ {MaxLimit, Interval, Poll, MaxFrames} \subseteq Nat \ {0}
    /\ {MaxLatency, MaxReconnects, MaxTime} \subseteq Nat

VARIABLES
    pc,          \* where the process is
    config,      \* Config
    error,       \* the error it reports at its end, or "none"
    exit,        \* its exit code: "none", "success", "failure" or "usage"
    shutdown,    \* the flag
    metrics,
    sinceReport, \* last_report.elapsed()
    remaining,   \* what is left of the pause
    pos,         \* the position of the stream
    len,         \* Assembler::len, or -1 with no transaction open
    pending,     \* the last position the sink accepted since the barrier, or 0
    acked,       \* the tracker's acknowledged position
    now,         \* time since Metrics::new
    \* history, for the properties
    took,        \* transactions and events the sink accepted
    drops,       \* sessions that ended as Disconnected
    silence,     \* time since the last report was printed
    sent         \* 1 + the time of the last successful send, 0 if none

runVars == <<config, error, exit, shutdown>>
streamVars == <<pos, len, pending, acked>>
clocks == <<sinceReport, now, silence>>
history == <<took, drops, sent>>
vars == <<pc, runVars, metrics, remaining, streamVars, clocks, history>>

Starting == {"parse", "open", "validate"}
Running == {"top", "connect", "turn", "read", "barrier", "advance", "pause", "sleep"}

\* assembler.len() as the gauge reads it.
Length == IF len < 0 THEN 0 ELSE len

Init ==
    /\ pc = "parse" /\ config \in Configs /\ error = "none" /\ exit = "none"
    /\ shutdown = FALSE /\ metrics = NewMetrics /\ remaining = 0
    /\ pos = 0 /\ len = -1 /\ pending = 0 /\ acked = 0
    /\ sinceReport = 0 /\ now = 0 /\ silence = 0
    /\ took = [transactions |-> 0, events |-> 0] /\ drops = 0 /\ sent = 0

\* d units pass.
Elapse(d) ==
    /\ now + d <= MaxTime
    /\ now' = now + d /\ sinceReport' = sinceReport + d /\ silence' = silence + d

Exit(code, why) == pc' = "exited" /\ exit' = code /\ error' = why

-----------------------------------------------------------------------------
(* main, up to run's loop.                                                 *)

\* Config::parse: each option in its range.
InRange(c) == c.limit \in 1..MaxLimit /\ c.initial >= 1 /\ c.max >= 1

Parse ==
    /\ pc = "parse"
    /\ \/ InRange(config) /\ pc' = "open" /\ UNCHANGED <<error, exit>>
       \/ ~InRange(config) /\ Exit("usage", "none")
    /\ UNCHANGED <<config, shutdown, metrics, remaining, streamVars, clocks, history>>

OpenSink ==
    /\ pc = "open"
    /\ \/ /\ config.output = "Stdout" \/ config.path
          /\ pc' = "validate" /\ UNCHANGED <<error, exit>>
       \/ config.output = "File" /\ config.path /\ Exit("failure", "Sink")
       \/ config.output = "File" /\ ~config.path /\ Exit("failure", "OutputPathRequired")
    /\ UNCHANGED <<config, shutdown, metrics, remaining, streamVars, clocks, history>>

\* DatabaseUrl::validate.
InvalidUrl(c) == c.url # "uri"

\* Config::validate_reconnect_bounds.
BoundsCrossed(c) == c.initial > c.max

ConfigError(c) ==
    IF InvalidUrl(c) THEN "InvalidDatabaseUrl"
      ELSE IF BoundsCrossed(c) THEN "InvalidReconnectBounds" ELSE "none"

Validate ==
    /\ pc = "validate"
    /\ \/ ConfigError(config) = "none" /\ pc' = "top" /\ UNCHANGED <<error, exit>>
       \/ ConfigError(config) # "none" /\ Exit("failure", ConfigError(config))
    /\ UNCHANGED <<config, shutdown, metrics, remaining, streamVars, clocks, history>>

Signal ==
    /\ pc \in Running /\ ~shutdown
    /\ shutdown' = TRUE
    /\ UNCHANGED <<pc, config, error, exit, metrics, remaining, streamVars, clocks,
                   history>>

-----------------------------------------------------------------------------
(* The outer loop.  m is what the counters are when the session ends.      *)

Stopped == Exit("success", "none") /\ UNCHANGED <<remaining, drops>>

\* handle_session_outcome, then the pause.
End(outcome, m) ==
    LET idle == SetStreaming(m, FALSE)
    IN  \/ /\ LoopAction(outcome) = "Stop"
           /\ Stopped /\ metrics' = idle
        \/ /\ LoopAction(outcome) = "Abort"
           /\ Exit("failure", outcome)
           /\ metrics' = idle /\ UNCHANGED <<remaining, drops>>
        \/ /\ LoopAction(outcome) = "Reconnect"
           /\ m.reconnects < MaxReconnects
           /\ metrics' = AddReconnect(IF CountsAsError(outcome) THEN AddError(idle) ELSE idle)
           /\ drops' = IF outcome = "Disconnected" THEN drops + 1 ELSE drops
           /\ pc' = "pause" /\ remaining' \in config.initial..config.max
           /\ UNCHANGED <<exit, error>>

Top ==
    /\ pc = "top"
    /\ \/ shutdown /\ Stopped
       \/ ~shutdown /\ pc' = "connect" /\ UNCHANGED <<exit, error, remaining, drops>>
    /\ UNCHANGED <<config, shutdown, metrics, streamVars, clocks, took, sent>>

\* Variant: the countdown to the report starts anew with every session.
StartOkFreshReport(d) ==
    /\ pc = "connect" /\ now + d <= MaxTime
    /\ now' = now + d /\ sinceReport' = 0 /\ silence' = silence + d
    /\ pc' = "turn" /\ metrics' = SetStreaming(metrics, TRUE)
    /\ pos' = acked
    /\ UNCHANGED <<runVars, remaining, len, pending, acked, history>>

\* The stream starts where the slot is, here the last acknowledged position.
StartOk(d) ==
    /\ pc = "connect" /\ Elapse(d)
    /\ pc' = "turn" /\ metrics' = SetStreaming(metrics, TRUE)
    /\ pos' = acked
    /\ UNCHANGED <<runVars, remaining, len, pending, acked, history>>

StartFails(d) ==
    /\ pc = "connect" /\ Elapse(d)
    /\ \E e \in {"Connection", "SlotBusyTimedOut"} \cup SlotErrors : End(e, metrics)
    /\ UNCHANGED <<config, shutdown, streamVars, took, sent>>

\* maybe_report: the snapshot is printed; it changes nothing but last_report.
MaybeReport ==
    IF sinceReport < Interval THEN UNCHANGED <<sinceReport, silence>>
      ELSE sinceReport' = 0 /\ silence' = 0

Pause ==
    /\ pc = "pause"
    /\ \/ shutdown /\ Stopped /\ UNCHANGED <<sinceReport, silence>>
       \/ ~shutdown /\ MaybeReport /\ pc' = "sleep" /\ UNCHANGED <<exit, error, remaining, drops>>
    /\ UNCHANGED <<config, shutdown, metrics, streamVars, now, took, sent>>

\* One chunk; after the last one reset_for_reconnect.
Sleep ==
    /\ pc = "sleep"
    /\ LET chunk == IF remaining < Poll THEN remaining ELSE Poll
       IN  Elapse(chunk) /\ remaining' = remaining - chunk
    /\ \/ remaining' > 0 /\ pc' = "pause" /\ UNCHANGED <<len, metrics>>
       \/ remaining' = 0 /\ pc' = "top" /\ len' = -1 /\ metrics' = SetBuffer(metrics, 0)
    /\ UNCHANGED <<runVars, pos, pending, acked, history>>

-----------------------------------------------------------------------------
(* A turn of the session.                                                  *)

\* acknowledge_durable: the position first ...
Raised(durable) == IF durable > acked THEN durable ELSE acked

\* Variant: the clock is reset together with the position.
BeforeSendWithClock(durable) ==
    NoteAcknowledgedNow(SetLastAcknowledged(metrics, Raised(durable)), now)

BeforeSend(durable) == SetLastAcknowledged(metrics, Raised(durable))

\* ... then the send, and the clock only if it succeeds.
AfterSend(durable) == NoteAcknowledgedNow(BeforeSend(durable), now)
Sent(durable) == acked' = Raised(durable) /\ sent' = now + 1
NotSent(durable) == acked' = Raised(durable) /\ UNCHANGED sent

Goto(location) == pc' = location /\ UNCHANGED <<exit, error, remaining, drops>>

\* The barrier fails, or the send that follows it.
BarrierFails ==
    /\ pending # 0
    /\ \/ End("Sink", metrics) /\ UNCHANGED <<pending, acked, sent>>
       \/ pending' = 0 /\ NotSent(pending) /\ End("Connection", BeforeSend(pending))

\* The head of the turn with the flag up: the final barrier, and out.
TurnStops ==
    /\ pc = "turn" /\ shutdown
    /\ \/ /\ pending = 0
          /\ End("ShutdownRequested", metrics) /\ UNCHANGED <<pending, acked, sent>>
       \/ /\ pending # 0 /\ pending' = 0 /\ Sent(pending)
          /\ End("ShutdownRequested", AfterSend(pending))
       \/ BarrierFails
    /\ UNCHANGED <<config, shutdown, pos, len, clocks, took>>

Turn ==
    /\ pc = "turn" /\ ~shutdown
    /\ MaybeReport /\ Goto("read")
    /\ UNCHANGED <<config, shutdown, metrics, streamVars, now, took, sent>>

Tick(d) ==
    /\ pc = "read" /\ Elapse(d) /\ Goto("barrier")
    /\ UNCHANGED <<config, shutdown, metrics, streamVars, took, sent>>

ReadFails ==
    /\ pc = "read" /\ End("Disconnected", metrics)
    /\ UNCHANGED <<config, shutdown, streamVars, clocks, took, sent>>

\* A frame arrives, at the next position: what is counted before it is decoded.
Frame ==
    /\ pc = "read" /\ metrics.bytes < MaxFrames
    /\ pos' = pos + 1
    /\ UNCHANGED <<config, shutdown, acked, clocks, sent>>

Arrived == SetLastReceived(AddBytes(metrics, 1), pos + 1)

\* The decoder refuses it: the gauge is not touched, nor is the assembler.
Undecodable ==
    /\ Frame /\ \E e \in {"Decode", "UnsupportedMessage"} : End(e, Arrived)
    /\ UNCHANGED <<len, pending, took>>

\* Variant: the gauge is set where the assembler has not failed.
GaugeAfterFailure(m, n) == m

\* The gauge when the assembler refuses a message.
GaugeOnFailure(m, n) == SetBuffer(m, n)

Begin ==
    /\ Frame /\ len < 0
    /\ len' = 0 /\ metrics' = SetBuffer(Arrived, 0) /\ Goto("barrier")
    /\ UNCHANGED <<pending, took>>

\* Variant: the limit is compared with >.
ChangeOneMore(n) ==
    /\ Frame /\ len >= 0 /\ len + n - 1 <= config.limit
    /\ len' = len + n /\ metrics' = SetBuffer(Arrived, len') /\ Goto("barrier")
    /\ UNCHANGED <<pending, took>>

\* A row message, or a TRUNCATE of n tables.
Change(n) ==
    /\ Frame /\ len >= 0 /\ len + n <= config.limit
    /\ len' = len + n /\ metrics' = SetBuffer(Arrived, len') /\ Goto("barrier")
    /\ UNCHANGED <<pending, took>>

\* The assembler refuses the message: over the limit, or for what it says; the
\* tables of a TRUNCATE before the one that fails are in the buffer.
Refused ==
    /\ Frame
    /\ \/ /\ len \in {config.limit - 1, config.limit} /\ len' = config.limit
          /\ End("TransactionTooLarge", GaugeOnFailure(Arrived, Length'))
       \/ /\ len \in 0..config.limit - 1 /\ len' \in {len, len + 1}
          /\ End("UnknownRelation", GaugeOnFailure(Arrived, Length'))
       \/ /\ UNCHANGED len
          /\ End("Decode", GaugeOnFailure(Arrived, Length'))
    /\ UNCHANGED <<pending, took>>

\* Variant: counted on the way to the sink.
CountedWhenOffered(m, n) == AddEvents(AddTransaction(SetBuffer(m, 0)), n)

\* The counters when the sink has the transaction in its hands.
Offered(m, n) == SetBuffer(m, 0)

\* COMMIT: the sink accepts the transaction, and then it is counted ...
Commit ==
    /\ Frame /\ len >= 0
    /\ metrics' = AddEvents(AddTransaction(SetBuffer(Arrived, 0)), len)
    /\ took' = [transactions |-> took.transactions + 1, events |-> took.events + len]
    /\ pending' = pos + 1 /\ len' = -1 /\ Goto("barrier")

\* ... or it does not.
CommitFails ==
    /\ Frame /\ len >= 0 /\ len' = -1
    /\ End("Sink", Offered(Arrived, len))
    /\ UNCHANGED <<pending, took>>

\* The group barrier, when its time has come ...
Barrier ==
    /\ pc = "barrier"
    /\ \/ Goto("advance") /\ UNCHANGED <<metrics, pending, acked, sent>>
       \/ /\ pending # 0 /\ pending' = 0 /\ Sent(pending)
          /\ metrics' = AfterSend(pending) /\ Goto("advance")
       \/ BarrierFails
    /\ UNCHANGED <<config, shutdown, pos, len, clocks, took>>

\* ... and the keepalive advance, when the server is ahead of an idle process.
Advance ==
    /\ pc = "advance"
    /\ \/ Goto("turn") /\ UNCHANGED <<metrics, pos, acked, sent>>
       \/ /\ len < 0 /\ pending = 0 /\ pos < MaxFrames /\ pos + 1 > acked
          /\ pos' = pos + 1
          /\ \/ Sent(pos') /\ metrics' = AfterSend(pos') /\ Goto("turn")
             \/ NotSent(pos') /\ End("Connection", BeforeSend(pos'))
    /\ UNCHANGED <<config, shutdown, len, pending, clocks, took>>

-----------------------------------------------------------------------------
Next ==
    \/ Parse \/ OpenSink \/ Validate \/ Signal
    \/ Top \/ Pause \/ Sleep
    \/ \E d \in 0..MaxLatency : StartOk(d) \/ StartFails(d)
    \/ TurnStops \/ Turn \/ ReadFails
    \/ \E d \in 0..Poll : Tick(d)
    \/ Undecodable \/ Begin \/ Change(1) \/ Change(2) \/ Refused \/ Commit \/ CommitFails
    \/ Barrier \/ Advance

Spec == Init /\ [][Next]_vars

-----------------------------------------------------------------------------
(* Properties.                                                             *)

\* Every variable stays in its domain.
TypeOK ==
    /\ pc \in Starting \cup Running \cup {"exited"} /\ config \in Config
    /\ error \in PgcdcError \cup {"none"} /\ exit \in {"none", "success", "failure", "usage"}
    /\ shutdown \in BOOLEAN /\ metrics \in Metrics /\ remaining \in Nat
    /\ pos \in Nat /\ len \in -1..MaxLimit /\ pending \in Nat /\ acked \in Nat
    /\ sinceReport \in Nat /\ now \in 0..MaxTime /\ silence \in Nat /\ sent \in Nat
    /\ took \in [transactions : Nat, events : Nat] /\ drops \in Nat

\* The loop runs only under a configuration that makes sense as a whole: what
\* the option ranges, the match on the output and the two checks of `run`
\* leave over meets the assumptions of Assembler and ReconnectLoop.
RunsSoundConfigsOnly ==
    pc \in Running =>
        /\ config.url = "uri" /\ (config.output = "File" => config.path)
        /\ 1 <= config.initial /\ config.initial <= config.max
        /\ config.limit \in 1..MaxLimit

\* A failure exit names a fatal error, and a clean one was asked for by a
\* signal (main.rs, handle_session_outcome).
ExitTellsWhy ==
    /\ exit = "failure" => (error # "none" /\ IsFatal(error))
    /\ exit = "success" => shutdown

\* At every report, and whenever a thread looks at rest, the counters say what
\* the sink accepted, also when it failed or the assembler refused: a
\* transaction counts once it is accepted, each time it is.
CountsWhatTheSinkTook ==
    metrics.transactions = took.transactions /\ metrics.events = took.events

\* The gauge is the size of the buffer, whatever a frame led to and although
\* the assembler is reset only after the pause.
GaugeFollowsTheBuffer == metrics.buffer = Length

\* Every reconnect is explained: by an error that counts, or by a dropped
\* connection that does not (replication.rs:1063, handle_session_outcome).
ReconnectsAreExplained == metrics.reconnects = metrics.errors + drops

\* Reports keep coming though no session lives long enough for one: a report is
\* late by one wait of the session or the pause and one attempt to connect.
ReportsKeepComing ==
    pc \in Running => silence <= Interval - 1 + Poll + MaxLatency

\* The clock tells of the last acknowledgement that was sent, not of one whose
\* send failed (replication.rs:593).
ClockTellsOfSends ==
    metrics.ackAt = (IF sent = 0 THEN 0 ELSE IF sent = 1 THEN 1 ELSE sent - 1)

\* The age any thread computes, from a value it loads now and a clock it reads
\* now or later, is the true one, give or take the unit by which the first is
\* saturated; "never" is told from "just now", and nothing
\* underflows (Metrics::snapshot, note_acknowledged_now).
AgeIsTrue ==
    /\ (metrics.ackAt = 0) <=> (sent = 0)
    /\ sent # 0 =>
          \A later \in now..MaxTime :
              LET age == Age(metrics.ackAt, later)
                  exact == later - (sent - 1)
              IN  age \in {exact, exact - 1} /\ age >= 0

\* The positions an operator watches never retreat, although a redelivery
\* starts again below them.
PositionsNeverRetreat ==
    [][/\ metrics'.received >= metrics.received
       /\ metrics'.acknowledged >= metrics.acknowledged]_vars
=============================================================================
