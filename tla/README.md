# A TLA+ model of pgcdc

pgcdc streams the committed transactions of one PostgreSQL publication from a
logical replication slot into JSONL. Its promise is small and hard to keep:
after any failure there may be duplicates, there is no silent gap. This
directory holds a formal model of the program, from the bytes of a pgoutput
message to the bytes of the output file, the TLC runs that check it on small
instances, and TLAPS proofs of every component for every size: the engine, the
slot it shares, the outer loop, the process, the assembler, the decoder and the
file sink. Line references are to the files of the repository at the
modelled commit; `replication.rs` is `src/postgres/replication.rs` and so on.

Contents: [inventory](#inventory) · [modules](#modules-and-how-they-correspond-to-the-code)
· [runs](#runs) · [fairness](#fairness) · [proofs](#proofs)
· [findings](#where-code-and-documentation-disagree) · [limits](#what-is-not-modelled-and-why)
· [plan](#plan)

To repeat a check: `tlc -config MCReplicationSafety.cfg MCReplication.tla`
(every `.cfg` belongs to the module its name begins with); to repeat the
proofs: `tlapm ReplicationProofs.tla`, and the same for `SharedSlotProofs`,
`ReconnectProofs`, `ProcessProofs`, `AssemblerProofs`, `PgOutputProofs` (some
minutes), `FileSinkProofs` and the lemmas of `Recursion`. `PROJECT.json` lists every run, maps
every definition to the lines it models, and names for every property a mutated
definition that violates it. In the modules those mutated definitions stand
before the real one and are marked *Variant*; no behaviour uses them.

## Inventory

| component | state it keeps | operations | hard behaviour | what makes it correct |
|---|---|---|---|---|
| **Replication session** (`stream_once`, `flush_and_acknowledge`, `acknowledge_durable`, `may_advance_from_keepalive`) | the tracker, the assembler's open transaction, the stream object of the transport crate, the sink's pending position | preflight and guard, start, one turn of the loop: stop check, one read, timer barrier, keepalive advance | a kill, drop or signal between any two steps; feedback that is lost or late; redelivery into a sink that still holds data; the server itself going back after a crash | nothing is acknowledged before it is on the medium; nothing is skipped; everything is stored and released in the end; a stop drains |
| **Position tracker** (`lsn.rs`) | received, processed, durable, acked | `note_*`, `try_ack` | redelivery offers old positions | monotone, acked ≤ durable |
| **Outer loop** (`run`, `ReconnectBackoff`, `SlotBusyPatience`, shutdown listener, `StreamingGuard`) | attempt, pause, patience, flag, gauge | retry, classify, sleep in slices, stop | durations accumulated over many reconnects; a signal at any moment; a cancelled future | bounded exponential pause; races with our own sessions do not add up, a foreign consumer is fatal; a signal is seen in time |
| **Slot guard** (`guard.rs`) | none; reads the slot on its own connection | preflight, `check_reconnect` | check and use on two connections | never refuses a healthy slot, catches somebody else's acknowledgement |
| **Sinks** (`sink/`) | BufWriter, file, pending position | `open`, `write_transaction`, `flush` | a crash at any byte, inside the barrier, after a spilled buffer | released ⇒ on the device; no gap in the file |
| **Assembler and relation cache** (`transaction.rs`, `schema.rs`) | columns per relation, open transaction | one per pgoutput message | redelivery, several events per WAL record, partial tuples, renamed columns | events say what happened; (lsn, event_index) identifies them |
| **pgoutput decoder** (`pgoutput.rs`) | a cursor and the message so far | decode one message | truncated or malformed input, counts that lie, fields whose place depends on earlier ones | accepts what the server writes, accepts nothing that does not encode to the same bytes, reserves and reads no more than the payload justifies |
| **Errors** (`error.rs`, `classify_start_error`, `handle_session_outcome`) | none | classify, fatal or not, counted or not | the wording of a busy answer is translated and its code may be missing | a refusal ends the process, a race and a transport failure do not |
| **Metrics** (`metrics.rs` and every place that calls it) | atomics | add, set, fetch_max, snapshot, the periodic report | written by one task and read by another; a step fails between two counters | counters say what the sink accepted; gauges are true at every error path; reports keep coming |
| **Configuration, entry** (`config.rs`, `main.rs`) | arguments | parse, validate, build the sink, run, exit code | bounds that are each legal and contradict each other | the loop runs under options that fit together; the exit code has its reason |

How they interact: `main` builds a sink and calls `run`, which owns one
`SessionState` (tracker, relation cache, assembler) for the life of the process
and calls `stream_once` once per connection. A session asks the guard on a
connection of its own, then opens the stream. Each frame goes decoder →
assembler → (at COMMIT) sink → tracker. A timer closes the group barrier on the
sink; the position it returns goes through the tracker to the transport crate,
which sends it to the walsender and remembers it for replies of its own. A
second task raises the shutdown flag; the loop itself prints the report, and an
embedding program may take a snapshot from another thread. Everything else is
sequential, so the concurrency that matters is between pgcdc, the network,
the walsender, the server's crash recovery, and whoever else can use the slot.

## Modules and how they correspond to the code

**Delivery** is the abstract specification: committed transactions are stored,
stored ones stay stored, and the server may release WAL only up to a position
below which everything is stored. It says nothing of sessions, barriers or
acknowledgements. `Replication!ImplementsDelivery` is the refinement
(`committed <- txs, stored <- disk, released <- confirmed`);
`FileSink!StoresForDelivery` shows that the file keeps the part of it that is
about storing and releasing, byte for byte
(`stored <-` the transactions whose every line is on the device).

**LsnTracker** is `src/lsn.rs`: a record and one operator per method.

**Replication** is the engine in its environment. A transaction is its end
position; `tip` and `txs` are the WAL. The variables of the process are
`trk` (`SessionState.tracker`), `open` (the assembler), `target` (the argument
of `acknowledge_durable` while it runs), `shutdown`, and `pc`, the place in
`run`/`stream_once`:

| `pc` | place in replication.rs |
|---|---|
| `top` | head of the outer loop, 706-740 |
| `preflight`, `start` | `stream_once` before its loop, 872-970 |
| `turn` | head of the session loop, the stop check, 998 |
| `read` | `next_raw_event` under its timeout, 1009-1066 |
| `barrier`, `stopBarrier` | the timer barrier 1071 and the final one 1001 |
| `ackTimer`, `ackStop`, `ackIdle` | inside `acknowledge_durable`, 563-604, by call site |
| `advance` | the keepalive advance, 1076-1089 |
| `backoff` | the sliced pause, 767-798 |
| `stopping` | `ShutdownRequested` on its way out |
| `stopped`, `failed`, `killed` | the process is gone |

The sink is two sets, accepted (`buf`) and on the medium (`disk`), plus its
`pending` position. The transport crate is `pos`, `mid`, `recv`
(`last_received_lsn`) and `fbk` (`shared_lsn_feedback`); its `send_feedback` is
modelled as `docs/spike-findings.md:191` quotes it, silent before the first
message and clipped to the last position received. The server has the slot in
memory and on disk (`confirmed`, `persisted`), who holds it, and one feedback
message in `flight` (a newer one overtakes an older one that was not read yet,
which is what a sequence of them amounts to). BEGIN's positions inside a
transaction may lie before other transactions that committed in the meantime,
so the received position can move backwards as it does on the wire. Faults
(dropped connection, kill, signal, crash of the server, an invalidated slot, a
fatal error of any step) are charged to the bound `MaxFaults`; dying leaves any
subset of the accepted transactions on the medium. The preflight also refuses a
slot that is missing or has lost WAL (`SlotMissing`, `SlotHealthIsTerminal`).

**SharedSlot** extends it with another user of the slot (`ForeignAcknowledges`,
`SlotDropped`) and with what `start()` does to a slot that is gone. `taken` and
`late` are history variables: the transactions somebody else acknowledged under
a process that had not stored them, and those of them it took too late for the
preflight.

**Errors** is `PgcdcError` as a set of kinds, `is_fatal`, what counts in
`errors_total`, and the classification of a failed `start()` from what the
crate hands over: whether it is transient, its SQLSTATE if there is one, and
whether the text contains the words the code looks for.

**ReconnectLoop** is the same outer loop with its clock, on top of Errors.
Sessions are reduced to whether they acknowledged anything, and every failure
comes with a wording: `ReconnectBackoff`, `SlotBusyPatience` with its chain of
busy answers, the slices of the pause, the streaming gauge and its guard. One
unit of time is the smallest configured duration; ages saturate at the budget,
where they stop deciding anything. `StartFails` and `StartLost` are the two ways
in which `start()` can fail at a transport: the server has not accepted the
request, or it has and the answer is lost, so that the slot is held by a session
of ours the loop knows nothing of. Six variables are history: `foreign`, `lost`
and `reply` say what really happened at the server, `unseen` and `blind` how long a
raised flag was slept through and connected through, and `answers` counts busy
answers since the last unrelated failure and serves only the premise of
`ForeignHolderIsFatal`.

**Metrics** is `metrics.rs`: a record and one operator per method, with
`fetch_max` for the positions and the saturation of the clock at 1.
**Process** is one life of the process around it: the command line and where
each part of it is checked (clap, the match on the output, the URL, the order of
the bounds, the last two inside `run`, after the sink is open), then the loop with every
place that touches a counter, and the exit code. A frame is a BEGIN, a change, a
COMMIT or one that is refused; `len` is the length of the assembler's buffer,
which grows before a refusal and is reset only after the pause. `took`, `drops`,
`silence` and `sent` are history: what the sink accepted, how many connections
dropped, how long the reader of the log has waited, and when an acknowledgement
was last sent.

**PgOutput** is the decoder: a cursor over real bytes, one action per loop
iteration or group of fields at fixed distances, `todo` in the place of the call
stack. `Encoded` is the reference, what PostgreSQL writes for a message, and
`Message` is the set of all of them: any number of columns, values and relations
that its counts can hold. The module keeps numbers of 16 and 32 bits with their signs; identifiers, positions
and timestamps stay the bytes they are.

**FileSink** opens the box `buf`/`disk`: BufWriter, file and the synced part of
it, written piece by piece (`writeln!` hands over a line and its newline
separately), the barrier in its two halves, the end of the process with any
prefix of the data in hand reaching the file, and the end of the machine with
any unsynced suffix of the file lost. A sync may fail: the error is fatal, and
the kernel has dropped the pages it could not write, all of those since the last
sync, while it goes on showing them (`holes`). The next process appends behind
them and its syncs succeed.

**Assembler** is `Assembler::handle`, `RelationCache` and the row builders,
between a server that runs transactions over two tables and a consumer that
follows the published rules (README "Output", DECISIONS.md section 3). The
walsender repeats transactions the slot has not passed. What a transaction
contains is chosen when the walsender first gets there; no receiver can tell.
`open` and `announced` are options, as in the code; the consumer and the count of
events are recursive functions, so that they can be reasoned about.

**Recursion** holds lemmas about such functions and about `FoldSeq` and
`FlattenSeq`, for the proofs alone.

**ReplicationInv** and the seven **…Proofs**: see [proofs](#proofs).
**MC…** modules only give constants their values.

## Runs

| run | checks | bounds | shows |
|---|---|---|---|
| `safety` | TypeOK, NoLoss, NoFalseClaim, NoGap, OrderlyStopDrains | 4 WAL positions, 3 faults of any kinds, server may move the slot back | every order of three faults around two or three transactions keeps what is released stored |
| `live` | NoFalseAlarm, ImplementsDelivery, EventuallyStored, EventuallyReleased, SlotKeepsUp, SignalStops | 3 positions, 2 drops/kills/signals/server crashes, monotone server | the guard never refuses a healthy slot; the engine implements Delivery; delivery, release and an orderly exit happen under fairness |
| `loop` | BackoffMatchesAttempt, BusyIsAccountedFor, RefusalsEndRacesRetry, SignalSeenInTime, GaugeIsHonest, ForeignHolderIsFatal | pause 1 to 6, budget 16, poll 2, connecting takes up to 2, the end of an own session noticed within 13, two answers lost; every error at every place | the loop's two counters, its patience, its reaction time and its gauge, whatever words the answers come in; a consumer that never lets go is fatal in the end, if two busy answers come in a row now and then |
| `process` | TypeOK, CountsWhatTheSinkTook, GaugeFollowsTheBuffer, ReconnectsAreExplained, ReportsKeepComing, ClockTellsOfSends, AgeIsTrue | 9 command lines, 4 frames, 2 reconnects, 4 units of time, report every 2 | what an operator reads is what happened, at every error path |
| `decoder` | TypeOK, AcceptedMeansExact, AcceptsEveryMessage, MemoryFollowsTheBytes, WorkFollowsTheBytes | messages of every kind with up to two columns, values or relations; every prefix, every one with a byte behind it, every one with one of 15 telling bytes at any place | accepts exactly the images of messages, within the payload |
| `theft` | TheftIsCaught | 4 positions, 3 faults of any kind but a crash of the server | what was acknowledged by somebody else before the preflight is caught |
| `sink` | TypeOK, ReleasedIsOnDevice, NoGapInFile, UnreadableOnlyAfterAnEnd, StoresForDelivery | 2 transactions of a short and a long line, buffer 2, 2 ends or failed syncs, 1 reconnect | acknowledged means on the device, at every byte a crash can hit and after a sync that failed |
| `assembler` | TypeOK, ReplicaFollows, EventsAreTrue, EmptyBetweenTransactions, LimitIsExact | 2 tables (default and full identity), 2 keys, 2 transactions, 3 changes, limit 2, 1 failure | a consumer that follows the rules has the server's tables |
| `catch_up`, `theft_gap`, `slot_created`, `sink_lines` | one statement of a document or comment each | the smallest that show it | [where code and documentation disagree](#where-code-and-documentation-disagree) |

Why the bounds are enough to be interesting. In `safety` four positions allow
three transactions, hence one that is durable, one in the sink and one half
read at the same time, and three faults allow a drop, a redelivery over the
undrained sink, and a kill or server crash after it. The proofs remove these
bounds for the safety properties. `live` has two transactions and two faults,
so a second failure can hit the recovery from the first. In `loop` the pause
doubles three times and reaches its ceiling, and our own session is held longer
than two full pauses but shorter than the budget: busy answers form chains, one
dead session alone never exhausts the patience, two do. In `process` four frames
are a transaction and the next one's beginning, or one that is over the limit,
and the two reconnects let a failure hit the session after a failure; two of the
command lines are good, and each other is wrong in one place. In `decoder` the
payloads are not all byte strings: they are the ones a single fault of transport
or a single wrong count makes of a message, which reach every early return of
the decoder. In `sink` one line
just fits the buffer with its newline and one is as long as the buffer, so every
path of `BufWriter` (copy, flush first, write past it) is taken. In `assembler` the
limit of two is exceeded by three changes, and by a TRUNCATE of two tables
behind another change; the key symmetry is sound because keys are only compared
with each other.

Runs set `CHECK_DEADLOCK FALSE` where the modelled system really stops: the
loop's process and the one in `process` end and are not started again, the sink
and the assembler have no more transactions, the decoder has decoded. Replication never stops, and its runs do check deadlock.

## Fairness

Only `live`, `catch_up` and `loop` (for its last property) assume any. The
properties of `process`, `decoder`, `sink`, `theft` and `assembler` are safety
properties and are checked without.

* Weak fairness of the process's own steps (`OwnStep`, `Pass`): the runtime
  runs the one task there is. Every wait inside them has a timeout.
* Weak fairness of `Launch`: a supervisor restarts the process (README "Exit
  codes" asks for one). Without it a killed process delivers nothing.
* Weak fairness of `DeliverFeedback` and `ReleaseStale` (`SlotFreed` of our own
  dead session): the walsender reads its socket, and notices that its client is
  gone.
* Strong fairness of `ReadFrame` and of a keepalive at the end of the WAL: the
  loop leaves and re-enters `read` with every tick, data that is in the socket
  is read before the 200 ms timeout for ever wins, and the server repeats its
  keepalives.
* Strong fairness of `Flush`: turns take time, so the barrier's interval has
  elapsed on one of them.
* Strong fairness of a read error on a connection whose walsender is gone: TCP
  reports it some day. (How soon is outside the model.)

No fairness is assumed of faults, commits, signals or foreign consumers.

## Proofs

Each proof module extends the module it is about, and assumes of the constants
only the named assumption there, which TLC evaluates on every run.

| module | for every | theorems |
|---|---|---|
| ReplicationProofs | `MaxLsn`, `MaxFaults`, set of `Faults`, value of `ForwardOnly` | `Inductive`; `TypeCorrect`, `Lossless`, `ClaimsAreTrue`, `Gapless`, `StopDrains` (the invariants of `safety`); `SlotNeverAhead` (`AlarmInv`); `NoHealthySlotRefused` (`NoFalseAlarm`); `Refinement` (`ImplementsDelivery`) |
| SharedSlotProofs | `MaxLsn`, `MaxFaults`, set of `Faults` without a server crash, `ForwardOnly` | `TheftStopsTheProcess` (`TheftIsCaught`) |
| ReconnectProofs | bounds of the pause, budget, poll interval, latency, release time, number of lost answers | `Invariance`; `TypeCorrect`; `BackoffIsExact`, `PatienceIsAccountedFor`, `AnswersAreUnderstood`, `SignalIsSeen`, `GaugeNeverLies` (invariants of `loop`) |
| ProcessProofs | set of command lines, limit, interval, poll, latency, length of the behaviour | `Invariance`; `TypeCorrect`, `CountsAreExact`, `GaugeIsExact`, `ReconnectsAddUp`, `ReportsComeInTime`, `ClockIsHonest`, `AgeIsRight` (invariants of `process`); `ConfigIsSound`, `ExitIsExplained`, `PositionsAreMonotone` |
| AssemblerProofs | set of tables, replica identity of each, keys, values, limit, number of transactions, changes and failures | `AssemblerInvariant`; `AssemblerTypes`, `ConsumerKeepsUp`, `EventsTellTheTruth`, `EmptyMeansBetween`, `LimitRefusesTheRightOnes` (the invariants of `assembler`) |
| PgOutputProofs | set of payloads, of any length and content; set of messages, of any size | `DecoderInvariant`; `DecoderTypes`, `AcceptedIsWhatWasSent`, `MemoryIsBounded`, `WorkIsBounded`, `EveryMessageIsAccepted` (the invariants of `decoder`) |
| FileSinkProofs | number of transactions and ends, length of every line, capacity of the writer | `Invariance`; `TypeCorrect`, `ReleasedOnDevice`, `Gapless`, `UnreadableLinesAreCounted`, `DeliveryIsStored` (properties of `sink`) |

Four statements have a proof and no run: `ReconnectLoop!TypeOK`, and
`RunsSoundConfigsOnly`, `ExitTellsWhy` and `PositionsNeverRetreat` of Process.
So have the inductive invariants themselves.

### The engine

The argument. *NoLoss* alone is not inductive: a step that moves `confirmed`
takes the value from `flight`, which came from `fbk`, which came from the
tracker's `acked`, which came from `target`, which came from the sink's
`pending`. So the invariant follows a position along that chain backwards:

1. what is on the wire, in the crate, and in the tracker claims only stored
   transactions (`NoFalseClaim`, `TargetIsStored`);
2. the position the next barrier returns covers everything before it, because
   reading never skips a transaction (`PendingCoversItsPast`, `NoGap`, and
   `StreamShape` for the transaction the walsender is in the middle of);
3. the keepalive advance is safe because with an empty assembler and
   `processed <= durable` the sink holds nothing that is not stored: what it has
   not carried through a barrier is at or below `processed`, and what is at or
   below `durable` is stored (`SinkHolds`);
4. no position anywhere is beyond the WAL, so a commit in the future is not
   covered by a claim made today (`NothingAhead`, `WalShape`).

`IInv` is the conjunction; `NextIInv` proves each action preserves it, with one
lemma per group of actions (`ServerIInv`, `DieIInv`, `ConnectIInv`, `TurnIInv`,
`ReadIInv`, `KeepaliveIInv`, `AcknowledgeIInv`, `LeaveIInv`).

*NoFalseAlarm* needs a second invariant relative to the first: `SlotBehind`,
the slot is at or behind the durable position of a process that has one, and a
process that has none cannot have moved the slot. It needs the server to keep
`confirmed_flush_lsn` monotone (`ForwardOnly`): with a server that takes the
position back and forth the slot can end up ahead of a young process through
feedback of an old one.

*Refinement* shows that every step is a `Commit`, `Store`, `Release` or a
stutter of Delivery, from the same invariant.

### The shared slot

Another consumer breaks `IInv` by design: what it has acknowledged is released
and stored nowhere. What is left of the invariant is the part beyond the slot
(`EngineInv`): every transaction between the slot and a position the process
claims is on the medium, and nothing the process holds is beyond what it has
read. That is enough to know what the guard compares. `TheftIsVisible`: a theft
the preflight has yet to see lies above `durable` and at or below the slot, so
the slot is ahead of `durable` and `check_reconnect` refuses it.

The two hypotheses are needed, TLC shows. A crash of the server may take the slot
back below what a thief took too late for the preflight, and which `durable` has
since passed with a keepalive; taken a second time it lies below `durable`, where
the guard does not look, and rightly so, since a slot behind `durable` is healthy.
A crash also frees the slot before the session knows that it is over. A server
that moves the slot backwards on old feedback (`ForwardOnly` false) does the same
without a crash.

### The outer loop

`BusyIsAccountedFor` is about a sum of intervals over many attempts: which time
can have gone into it when nobody else has held the slot since our last session
started. That session is one source. The other are sessions the loop never knew
of: the server accepts START_REPLICATION, the answer is lost (`StartLost`), the
loop sees a transport failure, and the patience keeps its total while a dead
session of ours has the slot again. Hence the bound of `(lost + 1) * ReleaseTime`.
In `loop` one lost answer is enough to reach the error; when none is lost and the
server notices within the budget, it is never raised, however many sessions there
have been, because each that started has cleared the total.
The property is inductive together with `PatienceKnowsTheHolder`: while our own
dead session is the reason for the busy answers, the patience has counted no more
than this one has been held and the earlier ones were allowed to
(`Excused + held`), and when the slot is free, no more than `Excused` and one
release time.

`SignalSeenInTime` needs `OverlookedOnce`: whoever has slept or connected through
a raised flag is at a place from which every path meets a check before the next
wait, and has not overlooked it before. The time an attempt to connect takes is a
constant here (`MaxLatency`); the code sets no limit of its own. `BackoffMatchesAttempt` says that the pause in the code, which
is doubled and cut off step by step, is what a power of two would give, cut off
once: the ceiling is never undershot by an early cut (`Doubled` is the recursive
function it is compared with). The liveness of the patience stays with TLC.

### The process

`ReportsKeepComing` rests on `SilenceIsMeasured`: how much of the interval may
have gone by is known at each place of the loop, because `last_report` outlives
sessions and pauses and is looked at before each wait. `ChecksSoFar` collects
which part of the command line has been checked where, and `SentBefore` is what
`AgeIsTrue` needs to say that no age is negative.

### The assembler and its consumer

`ReplicaFollows` is a statement about a history of redeliveries, so the invariant
says what any event the consumer has seen came from:

1. an LSN belongs to one change, or to several that share a record inside one
   transaction, so events of different transactions never have the same key
   (`lsn` of a later transaction is higher);
2. the `event_index` of the k-th change's t-th table is fixed by the changes
   before it (`EventsUpTo`), hence a redelivered transaction produces the same
   keys again, and inside a transaction no two are equal;
3. therefore COMMIT either delivers a transaction for the first time, no event
   of it is known and all are applied in order, or again, all are known and none
   is applied. The half-known case, which would apply an old change to a newer
   row, does not exist;
4. applying the events of a change to the tables before it gives the tables
   after it, for each replica identity, with an unchanged TOAST marker, a moved
   key, or a TRUNCATE of several tables, because the buffer holds exactly the
   images of the changes sent so far under the columns of their moment (the
   cache has the announced columns, and the server announces a change of them
   before it sends a row).

`LimitIsExact` follows from the same count: the buffer holds as many events as
`EventsUpTo` says, and the limit is looked at before each one.

### The decoder

Both directions are proved, for every payload.

*Accepted means exact.* `Wrote(e)` says that the bytes up to the cursor are those
of `e`, but for the ignored ones. The invariant (`Somewhere`) has one case per
state of `todo`: which part of which message has been written up to here, for
instance the head of an UPDATE, its old tuple's first values and nothing else,
with `left` what the count said less what has been read. Each action extends the
image by what it takes (`Laid`). `finish` demands the end of the payload, and the
image is then the whole of it. Counts never make the cursor leave the payload or
the decoder reserve more, because they are compared with it before they are used.

*Every message is accepted.* `Toward(m)` is the converse: if the payload is the
encoding of `m`, then at each place `msg` is `m` as far as it has been read, and
the bytes ahead begin with the encoding of the next part (`Part`). Hence every
check passes: the terminator of a string is the first zero because names contain
none, counts read back as what was written (two and four bytes, with their
sign), and the last part ends where the payload does. Together: on the images of
messages the decoder is the inverse of the encoding, and it accepts nothing else.

Numbers are written by division and read by multiplication of literal powers of
256, which the provers know; the lists need induction, see below.

### The file sink

Positions of bytes are what the invariant must not talk about, since a
redelivery, a cut or a hole moves or hides them. It talks about three sequences
instead: `Device`, what is synced; `Written`, the file as a sync would leave it
followed by the buffer; `Shown`, the file as the kernel shows it followed by the
buffer. Then:

1. every event up to the durable and the released position stands somewhere in
   `Device` (`Durably`);
2. every event up to the pending position, and of the transactions and lines
   before the place of the writer, stands somewhere in `Written`
   (`PendingCoversItsPast`, `CurrentFollows`), so that a sync, which makes
   `Device` equal to `Written`, may claim it;
3. `Written` and `Shown` have no gap (`NoGapAnywhere`).

`Device` is only ever extended, which gives `StoresForDelivery` too. A piece
passes the BufWriter in order on each of its four paths (`ThroughTheWriter`). A
line opens no gap because the event before it stands in what is already there
(`AppendGapFree`), a cut opens none because copies of different events never
overlap (`CopiesApart`, `CutGapFree`), and holes open none because they lie
behind the synced part (`HolesGapFree`). Were the error of a sync not fatal, the
last two lines of that argument would fail, and `ReleasedIsOnDevice` with them.

`UnreadableOnlyAfterAnEnd` counts lines, and the count is not inductive: whether
the open line at the end is one more depends on what is written behind it, and
several ends may share a line. What is inductive is a set of places, one where the
file stopped at each end, that accounts for every line (`EndsAccount`): a complete line is empty, is an event, or contains such a place
(`Explained`), and the open line at the end is empty or contains one (`Fresh`), or
is the event whose newline comes next (`Ready`). It holds of `Written` and of
`Shown`; a cut keeps it (`CutExplained`), holes keep it because they complete no
line (`OpenExplained`), and a place at the very end of the file accounts for
whatever was left open there (`MarkedFresh`). Lines do not share a place
(`LinesApart`), so there are no more of them than ends (`LinesCounted`).

### Induction over data

The library's induction theorems take an operator as a parameter, which the
installed provers cannot instantiate. **Recursion** goes round them: the set of
numbers (or of positions in a sequence) at which a statement fails has a least
element, by `WFMin` and `NatLessThanWellFounded`, which are first-order, and what
is to be shown is that it can have none. From this come the existence of
recursive functions (`IsRecursive`), what a function of the form
`f[k \in 0..n] == IF k = 0 THEN c ELSE step(f[k - 1])` keeps invariant, that two
of them agree on a common prefix, and that `FlattenSeq` concatenates. The consumer's
fold, `EventsUpTo`, `Doubled` and the decoder's lists rest on these.

### Only model-checked

Liveness: the prover has no ENABLED, so `EventuallyStored`, `EventuallyReleased`,
`SlotKeepsUp`, `SignalStops`, `ForeignHolderIsFatal` and that the decoder gets to
its end are what TLC shows on the bounds above. Every invariant that a passing run
checks is stated by a theorem; `TheftIsCaught` and the action property
`NoFalseAlarm` under hypotheses that name what the server must not do (move the
slot backwards, and for the former crash).

## Where code and documentation disagree

Each is a run of kind "violation" with one property quoting the statement; TLC
prints the behaviour.

* `catch_up` – README:327 "An idle publication still advances the slot". The
  advance compares the server's position with the tracker's own `acked`
  (replication.rs:1085), which survives a reconnect. If the connection that
  carried the last acknowledgement dies before the server has read it and the WAL
  is idle afterwards, nothing more is sent. `SlotKeepsUp` is the weaker claim
  that holds: the slot trails only inside what this process has acknowledged.
* `theft_gap` – README:275 "a violation of the first assumption is caught".
  Not between the preflight and `START_REPLICATION`. `TheftIsCaught` is what
  holds.
* `slot_created` – README:81 "pgcdc will not create the slot for you".
  `start()` does when the slot vanishes after the preflight.
* `sink_lines` – README:313 and DECISIONS.md:578. A process that dies inside a
  line leaves its beginning; the next process appends to it, so the first event
  it redelivers is glued to the rest and acknowledged, and has no line of its
  own. Its bytes are there (`ReleasedIsOnDevice` holds).

Some smaller ones have no run of their own. sink/mod.rs:31 and file.rs:34 speak
of the highest position made durable; the code keeps the last one accepted
(file.rs:61), which is lower after a redelivery. That is harmless, because the
tracker is monotone: `NoLoss` is checked and proved with the code's behaviour.
config.rs:242 says the busy counter "accumulates only genuinely continuous race
time"; `observe_busy` charges the whole interval between two busy answers, in
which the slot may have been free. error.rs:39-41 says
"Exceeding the budget means this is not a race with ourselves", and a test wants
that "unrelated episodes must not sum into a fatal exit" (replication.rs:1554). The
total is cleared only when `start()` answers Ok (replication.rs:400). If the server
accepts START_REPLICATION and the answer is lost, the loop takes it for a transport
failure and keeps the total (:424, :369-371), and the next episode, with a dead
session of its own, adds to it. Two sessions that are each noticed within the
budget can then end in SlotBusyTimedOut with nobody else at the slot: TLC finds
`cause = "SlotBusyTimedOut"` with `foreign` false under the constants of `loop`.
This takes a server that needs longer than a pause to notice, not the milliseconds
measured. `BusyIsAccountedFor` is what holds.
metrics.rs:123 resets the clock "after a position has actually been acknowledged
to the server"; a barrier in a reconnected session before its first message
resets it (replication.rs:593) though the crate's `send_feedback` has sent
nothing. Process takes a call that answers Ok for a send, so `ClockTellsOfSends`
holds of what pgcdc can know. event.rs:63 panics on a commit timestamp beyond the
calendar of its library, where pgoutput.rs:4-6 promises an error for any input.

## Assumptions about the environment

* The transport crate behaves as the repository's spike notes quote it; it is
  not part of `src/`.
* A walsender streams transactions in commit order from `confirmed_flush_lsn`
  on and sends a keepalive position only when everything of the publication up
  to it has been sent. The slot is exclusive. A crash of the server takes it
  back to its last checkpoint.
* The file system keeps what `sync_data` confirmed and loses at most a suffix of
  the rest; when `sync_data` fails, all of the rest is lost on the device. It
  does not lose the directory entry (listed as a hazard).
* Attempts to connect end within a bounded time. The server accepts a
  START_REPLICATION, if it does, before the attempt that sent it has ended.
* A malformed message in Assembler is one that one check refuses; PostgreSQL
  sends none.

## What is not modelled, and why

* `Lsn` as text, `parse_lsn`, redaction of the URL, default values: string
  processing without state. Of the URL only its form matters to Process.
* UTF-8 beyond ASCII in the decoder: a byte from 128 on stands for invalid text.
* JSON text, timestamps, log lines, error wording: nothing but unit tests depends
  on their form.
* StdoutSink's barrier: it flushes without syncing and promises nothing.
* `safe_wal_size`, `catalog_xmin`, `active`: read by the guard only to be logged.
* The wrap-around of counters of 64 bits, and of the attempt counter of 32.
* Docker files, scripts, CI.

The hazards the code is exposed to are in `PROJECT.json`, with the property that
would notice each, or the reason none does. Those without a property that a run
checks: the panic at event.rs:63 (arithmetic beyond TLC's integers), the overflow
of `attempt` at replication.rs:759, a half-open connection (replication.rs:1033:
the time belongs to TCP and the crate), the directory entry of a new file
(file.rs:41), and two that are proved rather than run (config.rs:269,
metrics.rs:107).

## Plan

The order is by what an operator of pgcdc would miss most.

1. *Done.* Delivery, LsnTracker, Replication: the promise and the engine;
   `safety`, `live`; their theorems.
2. *Done.* ReconnectLoop with Errors (the clock and the failures), SharedSlot
   (composes Replication with another user of the slot), FileSink (the two sets of
   the sink as bytes, with failed syncs, tied to Delivery), Assembler (the one
   position of the assembler as a state machine).
3. *Done.* PgOutput, Metrics and Process: the decoder, and what an operator sees.
4. *Done.* Proofs of ReconnectLoop, Process, FileSink, Assembler, PgOutput and,
   under its hypotheses, SharedSlot.
5. *Left, modelling.* FileSink as an implementation of the sink of Replication
   itself, with the end of a process as the step where the two differ; a decoder
   that feeds Assembler; `Lsn` as text.
