---------------------------- MODULE ReconnectLoop ----------------------------
(***************************************************************************)
(* The outer loop of pgcdc with its clock: the attempts, the growing pause *)
(* between them, the patience with a busy slot and the shutdown flag       *)
(* (`run`, `ReconnectBackoff`, `SlotBusyPatience`, classify_start_outcome  *)
(* in src/postgres/replication.rs), and what each error does to it         *)
(* (Errors).                                                               *)
(*                                                                         *)
(* Replication lets a pause end and the patience run out at any moment;    *)
(* here both take the time they take, and what a session does is reduced   *)
(* to whether it moved the acknowledged position.  Time passes in units,   *)
(* only inside the steps that wait: connecting and sleeping.               *)
(***************************************************************************)
EXTENDS Errors

CONSTANTS
    Initial,      \* --reconnect-initial-ms
    MaxPause,     \* --reconnect-max-ms
    Budget,       \* --slot-busy-budget-ms
    Poll,         \* SHUTDOWN_POLL_INTERVAL
    MaxLatency,   \* bound: the time one attempt to connect takes
    MaxAttempts,  \* bound: where the attempt counter saturates
    MaxLost,      \* bound: accepted starts between two sessions whose answer is lost
    ReleaseTime   \* the time the server needs to notice that our session is gone

\* The command line parser's range(1..) and validate_reconnect_bounds.
ASSUME ConfigAssumption ==
    /\ Initial \in Nat \ {0} /\ MaxPause \in Nat \ {0} /\ Initial <= MaxPause
    /\ Budget \in Nat \ {0} /\ Poll \in Nat \ {0}

\* The initial pause, doubled n times.
Doubled[n \in Nat] == IF n = 0 THEN Initial ELSE 2 * Doubled[n - 1]

\* The environment and the bounds.
ASSUME EnvironmentAssumption ==
    /\ MaxLatency \in Nat /\ MaxLost \in Nat /\ ReleaseTime \in Nat
    /\ MaxAttempts \in Nat \ {0} /\ Doubled[MaxAttempts] >= MaxPause

VARIABLES
    pc,         \* where the loop is
    cause,      \* the error `run` returned, or "none"
    attempt,    \* attempts since the last productive session
    current,    \* ReconnectBackoff.current
    remaining,  \* what is left of the pause
    patience,   \* SlotBusyPatience
    shutdown,   \* the flag
    moved,      \* the session moved the acknowledged position
    streaming,  \* the gauge Metrics.streaming
    holder,     \* who holds the slot: "none", "ours", "stale" or "foreign"
    held,       \* how long our dead session has held it
    \* history, for the properties
    foreign,    \* somebody else held the slot since our last session started
    lost,       \* starts the server has accepted since then, unknown to us
    reply,      \* what the failure of the last start() meant, or "none"
    unseen,     \* time slept with the flag raised
    blind,      \* time spent connecting with the flag raised
    answers     \* busy answers since the last unrelated failure, up to two

loopVars == <<pc, cause, attempt, current, remaining, patience, moved, streaming>>
slotVars == <<holder, held, foreign, lost>>
history == <<reply, unseen, blind, answers>>
vars == <<loopVars, shutdown, slotVars, history>>

Down == {"stopped", "failed", "cancelled"}
Locations == Down \cup {"top", "connect", "start", "session", "pause", "sleep"}

Smaller(a, b) == IF a < b THEN a ELSE b

-----------------------------------------------------------------------------
(* SlotBusyPatience.  `since` is the age of the last busy answer of an     *)
(* unbroken chain; ages and the total saturate where they decide.          *)

NewPatience == [accumulated |-> 0, chained |-> FALSE, since |-> 0]

Aged(p, d) == IF p.chained THEN [p EXCEPT !.since = Smaller(Budget, @ + d)] ELSE p

\* observe_busy: the interval counts only inside a chain.
Observed(p) ==
    [accumulated |-> Smaller(Budget, p.accumulated + p.since),
     chained |-> TRUE, since |-> 0]

Spent(p) == p.accumulated >= Budget

\* Variant: an unrelated failure closes the episode.
InterruptedAndForgotten(p) == NewPatience

\* interrupt: the chain is broken, the total is kept.
Interrupted(p) == [NewPatience EXCEPT !.accumulated = p.accumulated]

\* Variant: a successful start breaks the chain and keeps the total.
PatienceKeptOnStart(p) == Interrupted(p)

\* reset, on a successful start.
PatienceAfterStart(p) == NewPatience

-----------------------------------------------------------------------------
(* ReconnectBackoff.                                                       *)

\* Variant: no ceiling.
NextBackoffUnbounded(pause) == pause * 2

\* next_backoff: doubling with a ceiling.
NextBackoff(pause) == IF pause * 2 > MaxPause THEN MaxPause ELSE pause * 2

\* Variant: the pause stays where the last outage left it.
NextDelayNeverReset(productive) == current

\* next_delay: the pause before this attempt.
NextDelay(productive) == IF productive THEN Initial ELSE current

\* d units pass at the server, which notices in time that our session is gone.
ServerTime(d) ==
    /\ holder = "stale" => held + d <= ReleaseTime
    /\ held' = IF holder = "stale" THEN held + d ELSE held

\* The connection of an attempt that ends is closed.
Dropped == IF holder = "ours" THEN "stale" ELSE holder

-----------------------------------------------------------------------------
Init ==
    /\ pc = "top" /\ cause = "none" /\ attempt = 0
    /\ current = Initial /\ remaining = 0 /\ patience = NewPatience
    /\ shutdown = FALSE /\ moved = FALSE /\ streaming = FALSE
    /\ holder \in {"none", "stale", "foreign"} /\ held = 0
    /\ foreign = (holder = "foreign") /\ lost = 0
    /\ reply = "none" /\ unseen = 0 /\ blind = 0 /\ answers = 0

Signal ==
    /\ pc \notin Down /\ ~shutdown
    /\ shutdown' = TRUE
    /\ UNCHANGED <<loopVars, slotVars, history>>

\* The caller drops the future of `run`: only StreamingGuard's drop runs.
Cancel ==
    /\ pc \notin Down
    /\ pc' = "cancelled" /\ streaming' = FALSE /\ holder' = Dropped
    /\ UNCHANGED <<cause, attempt, current, remaining, patience, shutdown, moved,
                   held, foreign, lost, history>>

SlotFreed ==
    /\ holder \in {"stale", "foreign"}
    /\ holder' = "none" /\ held' = 0
    /\ UNCHANGED <<loopVars, shutdown, foreign, lost, history>>

ForeignTakes ==
    /\ holder = "none"
    /\ holder' = "foreign" /\ foreign' = TRUE
    /\ UNCHANGED <<loopVars, shutdown, held, lost, history>>

-----------------------------------------------------------------------------
(* How an attempt ends: handle_session_outcome and what follows it.        *)

\* `run` returns.
Return(location, why) ==
    /\ pc' = location /\ cause' = why /\ streaming' = FALSE
    /\ UNCHANGED <<attempt, current, remaining, moved, shutdown, foreign, unseen>>

\* Variant: the gauge is cleared only where `run` goes on to return.
ReconnectStillStreaming ==
    /\ pc' = "pause"
    /\ attempt' = Smaller(MaxAttempts, IF moved THEN 1 ELSE attempt + 1)
    /\ remaining' = NextDelay(moved)
    /\ current' = NextBackoff(NextDelay(moved))
    /\ moved' = FALSE
    /\ UNCHANGED <<cause, shutdown, foreign, unseen, streaming>>

\* The loop goes round; session_was_productive is `moved`.
Reconnect ==
    /\ pc' = "pause" /\ streaming' = FALSE
    /\ attempt' = Smaller(MaxAttempts, IF moved THEN 1 ELSE attempt + 1)
    /\ remaining' = NextDelay(moved)
    /\ current' = NextBackoff(NextDelay(moved))
    /\ moved' = FALSE
    /\ UNCHANGED <<cause, shutdown, foreign, unseen>>

End(outcome) ==
    \/ LoopAction(outcome) = "Stop" /\ Return("stopped", "none")
    \/ LoopAction(outcome) = "Reconnect" /\ Reconnect
    \/ LoopAction(outcome) = "Abort" /\ Return("failed", outcome)

-----------------------------------------------------------------------------
(* One pass of the loop.                                                   *)

TopStop ==
    /\ pc = "top" /\ shutdown
    /\ Return("stopped", "none")
    /\ UNCHANGED <<patience, holder, held, lost, reply, blind, answers>>

\* Variant: only the pause looks at the flag.
TopGoUnchecked ==
    /\ pc = "top"
    /\ pc' = "connect" /\ reply' = "none"
    /\ UNCHANGED <<cause, attempt, current, remaining, patience, moved, streaming,
                   shutdown, slotVars, unseen, blind, answers>>

TopGo ==
    /\ pc = "top" /\ ~shutdown
    /\ pc' = "connect" /\ reply' = "none"
    /\ UNCHANGED <<cause, attempt, current, remaining, patience, moved, streaming,
                   shutdown, slotVars, unseen, blind, answers>>

\* d units of an attempt, in which nobody looks at the flag.
Connecting(d) ==
    /\ pc = "connect"
    /\ ServerTime(d)
    /\ blind' = IF shutdown THEN blind + d ELSE blind

\* The preflight, check_reconnect and opening the stream succeed.
ConnectOk(d) ==
    /\ Connecting(d)
    /\ pc' = "start" /\ patience' = Aged(patience, d)
    /\ UNCHANGED <<cause, attempt, current, remaining, moved, streaming, shutdown,
                   holder, foreign, lost, reply, unseen, answers>>

\* One of them fails: interrupt_patience_on_early_failure.
EarlyErrors == {"Connection", "SlotMissing", "SlotUnusable", "SlotAhead"}

ConnectFails(d) ==
    /\ Connecting(d)
    /\ patience' = Interrupted(patience) /\ answers' = 0
    /\ \E e \in EarlyErrors : End(e)
    /\ UNCHANGED <<holder, lost, reply>>

\* classify_start_outcome: replication has started ...
StartOk ==
    /\ pc = "start" /\ holder = "none"
    /\ pc' = "session" /\ streaming' = TRUE
    /\ patience' = PatienceAfterStart(patience)
    /\ holder' = "ours" /\ foreign' = FALSE /\ lost' = 0
    /\ UNCHANGED <<cause, attempt, current, remaining, moved, shutdown, held, history>>

\* ... or has not: what the failure meant, and how the transport words it.
Wordings(meant) ==
    CASE meant = "busy" ->
            {f \in StartFailure : ~f.transient
                /\ \/ f.code = "55006"
                   \/ f.code \in {"garbled", "absent"} /\ f.text}
      [] meant = "refusal" ->
            {f \in StartFailure : ~f.transient /\ f.code # "55006" /\ ~f.text}
      [] meant = "transport" ->
            {f \in StartFailure : f.transient /\ f.code = "absent" /\ ~f.text}

\* The error made of a failure and the patience left after it.
StartError(f, left) ==
    IF IsBusyRace(f) /\ Spent(left) THEN "SlotBusyTimedOut" ELSE ClassifyStartError(f)

StartFails(meant) ==
    /\ pc = "start" /\ (meant = "busy" => holder \in {"stale", "foreign"})
    /\ reply' = meant
    /\ \E f \in Wordings(meant) :
          /\ patience' = IF IsBusyRace(f) THEN Observed(patience) ELSE Interrupted(patience)
          /\ End(StartError(f, patience'))
    /\ answers' = IF meant = "busy" THEN Smaller(2, answers + 1) ELSE 0
    /\ UNCHANGED <<holder, held, lost, blind>>

\* The server has accepted the request and the transport loses its answer: to
\* the loop this is a transport failure, and the patience keeps its total,
\* although a session of ours has the slot until the server notices its end.
StartLost ==
    /\ pc = "start" /\ holder = "none" /\ lost < MaxLost
    /\ reply' = "transport"
    /\ \E f \in Wordings("transport") :
          /\ patience' = Interrupted(patience)
          /\ End(StartError(f, patience'))
    /\ holder' = "stale" /\ held' = 0 /\ lost' = lost + 1
    /\ answers' = 0
    /\ UNCHANGED blind

\* The session acknowledges something.
Acknowledge ==
    /\ pc = "session" /\ ~moved
    /\ moved' = TRUE
    /\ UNCHANGED <<pc, cause, attempt, current, remaining, patience, streaming,
                   shutdown, slotVars, history>>

\* A dropped connection, a failed send, or an error of what was received.
SessionEnds ==
    /\ pc = "session"
    /\ \E outcome \in {"Disconnected", "Connection"} \cup StreamErrors : End(outcome)
    /\ holder' = Dropped
    /\ UNCHANGED <<patience, held, lost, reply, blind, answers>>

SessionStops ==
    /\ pc = "session" /\ shutdown
    /\ End("ShutdownRequested")
    /\ holder' = Dropped
    /\ UNCHANGED <<patience, held, lost, reply, blind, answers>>

\* The head of the sliced pause.
PauseStop ==
    /\ pc = "pause" /\ shutdown
    /\ Return("stopped", "none")
    /\ UNCHANGED <<patience, holder, held, lost, reply, blind, answers>>

PauseGo ==
    /\ pc = "pause" /\ ~shutdown
    /\ pc' = "sleep"
    /\ UNCHANGED <<cause, attempt, current, remaining, patience, moved, streaming,
                   shutdown, slotVars, history>>

\* Variant: one sleep for the whole pause.
WholePause(left) == left

Chunk(left) == Smaller(left, Poll)

\* One chunk of the pause.
Sleep ==
    /\ pc = "sleep"
    /\ ServerTime(Chunk(remaining))
    /\ patience' = Aged(patience, Chunk(remaining))
    /\ remaining' = remaining - Chunk(remaining)
    /\ pc' = IF remaining' = 0 THEN "top" ELSE "pause"
    /\ unseen' = IF shutdown THEN unseen + Chunk(remaining) ELSE unseen
    /\ UNCHANGED <<cause, attempt, current, moved, streaming, shutdown, holder,
                   foreign, lost, reply, blind, answers>>

Pass ==
    \/ TopStop \/ TopGo
    \/ \E d \in 0..MaxLatency : ConnectOk(d)
    \/ StartOk \/ StartFails("busy")
    \/ SessionStops
    \/ PauseStop \/ PauseGo \/ Sleep

Next ==
    \/ Pass
    \/ \E d \in 0..MaxLatency : ConnectFails(d)
    \/ StartFails("refusal") \/ StartFails("transport") \/ StartLost
    \/ Acknowledge \/ SessionEnds
    \/ Signal \/ Cancel
    \/ SlotFreed \/ ForeignTakes

Spec == Init /\ [][Next]_vars

\* The loop goes on, and the server notices the end of a session in time.
FairSpec == Spec /\ WF_vars(Pass) /\ WF_vars(holder = "stale" /\ SlotFreed)

-----------------------------------------------------------------------------
(* Properties.                                                             *)

\* Every variable stays in its domain.
TypeOK ==
    /\ pc \in Locations /\ cause \in PgcdcError \cup {"none"}
    /\ attempt \in 0..MaxAttempts
    /\ current \in Initial..MaxPause /\ remaining \in 0..MaxPause
    /\ patience \in [accumulated : 0..Budget, chained : BOOLEAN, since : 0..Budget]
    /\ shutdown \in BOOLEAN /\ moved \in BOOLEAN /\ streaming \in BOOLEAN
    /\ holder \in {"none", "ours", "stale", "foreign"} /\ held \in 0..ReleaseTime
    /\ foreign \in BOOLEAN /\ lost \in 0..MaxLost
    /\ reply \in {"none", "busy", "refusal", "transport"}
    /\ unseen \in Nat /\ blind \in Nat /\ answers \in 0..2

\* The two counters of the loop agree: the pause after n attempts without
\* progress is the initial one doubled n times, up to the ceiling, and a
\* productive session starts both over, however long the outage before it.
BackoffMatchesAttempt ==
    current = Smaller(MaxPause, Doubled[attempt])

\* Races with our own dead sessions do not add up, however many of them there
\* have been: without a foreign consumer since the last session started, the
\* patience runs out only if that session, or the one before the process, and
\* those whose answer to START_REPLICATION was lost since then hold the slot
\* for the whole budget together (SlotBusyPatience, classify_start_outcome).
BusyIsAccountedFor ==
    cause = "SlotBusyTimedOut" => foreign \/ (lost + 1) * ReleaseTime >= Budget

\* What the server meant decides, in whatever language it said it: a refusal is
\* never retried, and a busy slot ends the process only through the patience
\* (classify_start_error, is_busy_race_reason).
RefusalsEndRacesRetry ==
    /\ reply = "refusal" => pc \in Down
    /\ reply = "transport" => cause = "none"
    /\ reply = "busy" => cause \in {"none", "SlotBusyTimedOut"}

\* A signal is overlooked for one chunk of the pause or for one attempt to
\* connect, and never for both in a row (spawn_shutdown_listener, `run`).
SignalSeenInTime ==
    /\ unseen <= Poll /\ blind <= MaxLatency
    /\ unseen = 0 \/ blind = 0

\* The gauge says "streaming" only inside a session, also after a cancelled
\* task (StreamingGuard, handle_session_outcome).
GaugeIsHonest == streaming => pc = "session"

\* A slot somebody else never lets go of ends the process, although unrelated
\* failures break the chain of busy answers again and again, as long as some
\* answers still come two in a row.
ForeignHolderIsFatal ==
    []<>(answers = 2) => (holder = "foreign" ~> (holder # "foreign" \/ pc \in Down))
=============================================================================
