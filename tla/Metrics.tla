------------------------------- MODULE Metrics -------------------------------
(***************************************************************************)
(* src/metrics.rs: the counters, gauges and positions of a process, as a   *)
(* record with one operator per method.  Every field is an atomic of its   *)
(* own; the counters do not reach their 2^64.                              *)
(***************************************************************************)
EXTENDS Integers

Metrics == [events : Nat, transactions : Nat, bytes : Nat, reconnects : Nat,
            errors : Nat, received : Nat, acknowledged : Nat, buffer : Nat,
            streaming : BOOLEAN,
            ackAt : Nat]   \* time of the last acknowledgement, 0 for "never"

NewMetrics ==
    [events |-> 0, transactions |-> 0, bytes |-> 0, reconnects |-> 0, errors |-> 0,
     received |-> 0, acknowledged |-> 0, buffer |-> 0, streaming |-> FALSE, ackAt |-> 0]

AddEvents(m, n) == [m EXCEPT !.events = @ + n]
AddTransaction(m) == [m EXCEPT !.transactions = @ + 1]
AddBytes(m, n) == [m EXCEPT !.bytes = @ + n]
AddReconnect(m) == [m EXCEPT !.reconnects = @ + 1]
AddError(m) == [m EXCEPT !.errors = @ + 1]
SetBuffer(m, n) == [m EXCEPT !.buffer = n]
SetStreaming(m, on) == [m EXCEPT !.streaming = on]

\* fetch_max: a redelivery must not roll back observed progress.
SetLastReceived(m, lsn) == [m EXCEPT !.received = IF lsn > @ THEN lsn ELSE @]
SetLastAcknowledged(m, lsn) == [m EXCEPT !.acknowledged = IF lsn > @ THEN lsn ELSE @]

\* An acknowledgement at time 0 is recorded as one at time 1.
NoteAcknowledgedNow(m, now) == [m EXCEPT !.ackAt = IF now > 0 THEN now ELSE 1]

\* Variant: plain subtraction.
AgePlain(at, now) == now - at

\* The age of the last acknowledgement in snapshot(), where at # 0.
Age(at, now) == IF now > at THEN now - at ELSE 0
=============================================================================
