------------------------------ MODULE FileSink ------------------------------
(***************************************************************************)
(* The JSONL file sink (src/sink/file.rs, write_changes in                 *)
(* src/sink/stdout.rs), byte by byte where that matters: a user space      *)
(* BufWriter in front of a file opened for appending, in front of the      *)
(* device.  Replication sees the sink as two sets, accepted and stored;    *)
(* here they are a buffer, a file and the part of the file that is synced. *)
(*                                                                         *)
(* A transaction is its number in commit order and has one event per entry *)
(* of LineLengths.  A byte is <<transaction, event, index>>, the newline   *)
(* is <<>>.  The loop around the sink is reduced to what it does to it:    *)
(* write, barrier, redelivery after a reconnect or a restart from a slot   *)
(* that trails what was made durable.                                      *)
(***************************************************************************)
EXTENDS Naturals, FiniteSets, SequencesExt

CONSTANTS
    MaxTx,        \* bound: transactions committed
    LineLengths,  \* the length of each event of a transaction as JSON
    Capacity,     \* of the BufWriter
    MaxEnds,      \* bound: how often the process or the machine goes down
    MaxDrops      \* bound: how often the connection is lost

ASSUME SinkAssumption ==
    /\ MaxTx \in Nat \ {0} /\ MaxEnds \in Nat /\ MaxDrops \in Nat
    /\ Capacity \in Nat \ {0}
    /\ LineLengths \in Seq(Nat \ {0}) /\ LineLengths # <<>>

VARIABLES
    buffer,    \* what the BufWriter holds
    file,      \* the file as the kernel shows it
    synced,    \* how much of it was written back to the device
    holes,     \* the bytes of it that a failed write-back dropped
    phase,     \* "ready", "writing", "syncing" or "down"
    current,   \* the next transaction, or the one that is being written
    piece,     \* the piece of it that is written next
    pending,   \* FileSink.pending, 0 for None
    durable,   \* LsnTracker.durable
    confirmed, \* the slot: every transaction up to here is released
    ends, drops

counters == <<ends, drops>>
vars == <<buffer, file, synced, holes, phase, current, piece, pending, durable, confirmed,
          counters>>

Tx == 1..MaxTx
Newline == <<>>
Text(t, i) == [k \in 1..LineLengths[i] |-> <<t, i, k>>]
Events == Tx \X DOMAIN LineLengths

\* Variant: one line for the whole transaction.
PiecesOfOneLine(t) ==
    [n \in 1..(2 * Len(LineLengths)) |->
        IF n % 2 = 1 THEN Text(t, (n + 1) \div 2)
                     ELSE IF n = 2 * Len(LineLengths) THEN <<Newline>> ELSE <<>>]

\* write_changes formats every event with `writeln!("{line}")`, which hands
\* the writer the line and the newline separately.
Pieces(t) ==
    [n \in 1..(2 * Len(LineLengths)) |->
        IF n % 2 = 1 THEN Text(t, (n + 1) \div 2) ELSE <<Newline>>]

Init ==
    /\ buffer = <<>> /\ file = <<>> /\ synced = 0 /\ holes = {}
    /\ phase = "down" /\ current = 1 /\ piece = 1
    /\ pending = 0 /\ durable = 0 /\ confirmed = 0
    /\ ends = 0 /\ drops = 0

-----------------------------------------------------------------------------
(* The sink.                                                               *)

\* Variant: the file is truncated.
OpenTruncating ==
    /\ phase = "down"
    /\ file' = <<>> /\ synced' = 0
    /\ phase' = "ready" /\ current' = confirmed + 1
    /\ UNCHANGED <<buffer, holes, piece, pending, durable, confirmed, counters>>

\* FileSink::open appends; the stream starts behind the slot's position.
Open ==
    /\ phase = "down"
    /\ phase' = "ready" /\ current' = confirmed + 1
    /\ UNCHANGED <<buffer, file, synced, holes, piece, pending, durable, confirmed, counters>>

\* write_transaction is called.
Accept ==
    /\ phase = "ready" /\ current \in Tx
    /\ phase' = "writing" /\ piece' = 1
    /\ UNCHANGED <<buffer, file, synced, holes, current, pending, durable, confirmed, counters>>

\* BufWriter::write_all: a piece that does not fit flushes the buffer first,
\* and one that would fill it alone goes to the file past it.
Fits(p) == Len(p) <= Capacity - Len(buffer)
Bypasses(p) == Len(p) >= Capacity

WritePiece ==
    /\ phase = "writing" /\ piece <= Len(Pieces(current))
    /\ LET p == Pieces(current)[piece]
           spilled == IF Fits(p) THEN <<>> ELSE buffer
           kept == IF Fits(p) THEN buffer ELSE <<>>
       IN  /\ file' = file \o spilled \o (IF Bypasses(p) THEN p ELSE <<>>)
           /\ buffer' = IF Bypasses(p) THEN kept ELSE kept \o p
    /\ piece' = piece + 1
    /\ UNCHANGED <<synced, holes, phase, current, pending, durable, confirmed, counters>>

\* Variant: the position of the next transaction.
AcceptedNextPosition ==
    /\ phase = "writing" /\ piece > Len(Pieces(current))
    /\ pending' = current + 1
    /\ phase' = "ready" /\ current' = current + 1
    /\ UNCHANGED <<buffer, file, synced, holes, piece, durable, confirmed, counters>>

\* write_transaction answers Ok.
Accepted ==
    /\ phase = "writing" /\ piece > Len(Pieces(current))
    /\ pending' = current
    /\ phase' = "ready" /\ current' = current + 1
    /\ UNCHANGED <<buffer, file, synced, holes, piece, durable, confirmed, counters>>

\* flush_durable, first half.
Flush ==
    /\ phase = "ready" /\ pending # 0
    /\ file' = file \o buffer /\ buffer' = <<>>
    /\ phase' = "syncing"
    /\ UNCHANGED <<synced, holes, current, piece, pending, durable, confirmed, counters>>

\* Variant: the position is returned and the file is not synced.
SyncNothing ==
    /\ phase = "syncing"
    /\ durable' = IF pending > durable THEN pending ELSE durable
    /\ pending' = 0 /\ phase' = "ready"
    /\ UNCHANGED <<synced, holes, buffer, file, current, piece, confirmed, counters>>

\* Second half: sync_data, and the loop marks the position durable.
Sync ==
    /\ phase = "syncing"
    /\ synced' = Len(file)
    /\ durable' = IF pending > durable THEN pending ELSE durable
    /\ pending' = 0 /\ phase' = "ready"
    /\ UNCHANGED <<buffer, file, holes, current, piece, confirmed, counters>>

-----------------------------------------------------------------------------
(* The loop and the server around it.                                      *)

\* An acknowledgement reaches the slot.
Confirm ==
    /\ confirmed < durable
    /\ confirmed' = durable
    /\ UNCHANGED <<buffer, file, synced, holes, phase, current, piece, pending, durable, counters>>

\* The connection is lost: redelivery from the slot, into the same sink.
Reconnect ==
    /\ phase = "ready" /\ drops < MaxDrops
    /\ current' = confirmed + 1
    /\ drops' = drops + 1
    /\ UNCHANGED <<buffer, file, synced, holes, phase, piece, pending, durable, confirmed, ends>>

\* What may still be on its way to the file when the process ends: the buffer,
\* and a long line that is being written past it.
InHand ==
    IF /\ phase = "writing" /\ piece <= Len(Pieces(current))
       /\ Bypasses(Pieces(current)[piece])
      THEN buffer \o Pieces(current)[piece]
      ELSE buffer

EndProcess ==
    /\ ends < MaxEnds /\ ends' = ends + 1
    /\ phase' = "down"
    /\ buffer' = <<>> /\ piece' = 1 /\ pending' = 0 /\ durable' = 0
    /\ UNCHANGED <<current, confirmed, drops>>

\* SIGKILL, a failed write or barrier, an orderly exit: the file has got any
\* part of what was in hand (BufWriter flushes on drop, a killed process does
\* not, a write may end half way).
ProcessEnds ==
    /\ phase # "down"
    /\ EndProcess
    /\ \E n \in 0..Len(InHand) : file' = file \o SubSeq(InHand, 1, n)
    /\ UNCHANGED <<synced, holes>>

\* Variant: the error of a failed sync is worth another attempt.
SyncFailsRecoverably ==
    /\ phase = "syncing" /\ ends < MaxEnds /\ ends' = ends + 1
    /\ holes' = holes \cup (synced + 1)..Len(file)
    /\ phase' = "ready" /\ current' = confirmed + 1
    /\ UNCHANGED <<buffer, file, synced, piece, pending, durable, confirmed, drops>>

\* sync_data fails, which is fatal.  The kernel drops what it could not write;
\* it still shows it, and the next sync succeeds.
SyncFails ==
    /\ phase = "syncing"
    /\ EndProcess
    /\ holes' = holes \cup (synced + 1)..Len(file)
    /\ UNCHANGED <<file, synced>>

\* The file without what the kernel dropped.
Hole == <<0>>
OnDevice == [k \in DOMAIN file |-> IF k \in holes THEN Hole ELSE file[k]]
Device == SubSeq(OnDevice, 1, synced)

\* The machine goes down, with pgcdc running or not: any part of the file that
\* was not synced is lost from its end on.
MachineFails ==
    /\ EndProcess
    /\ \E n \in synced..Len(file) : file' = SubSeq(OnDevice, 1, n) /\ synced' = n
    /\ holes' = {k \in holes : k <= synced'}

Next ==
    \/ Open \/ Accept \/ WritePiece \/ Accepted \/ Flush \/ Sync
    \/ Confirm \/ Reconnect \/ ProcessEnds \/ SyncFails \/ MachineFails

Spec == Init /\ [][Next]_vars

-----------------------------------------------------------------------------
(* What a reader finds in the file.                                        *)

\* The text of e stands in s at position a.
StandsAt(s, e, a) ==
    /\ a + LineLengths[e[2]] - 1 <= Len(s)
    /\ \A k \in 1..LineLengths[e[2]] : s[a + k - 1] = <<e[1], e[2], k>>

\* Where a line may begin: after a newline, and at the start.
Starts(s) == {1} \cup {a \in 2..(Len(s) + 1) : s[a - 1] = Newline}

\* The line of s that begins at a, without its newline.
LineAt(s, a) ==
    LET stops == {b \in a..Len(s) : s[b] = Newline}
    IN  IF stops = {} THEN SubSeq(s, a, Len(s))
                      ELSE SubSeq(s, a, Min(stops) - 1)

Lines(s) == {LineAt(s, a) : a \in Starts(s)}
Readable == {Text(e[1], e[2]) : e \in Events}
Unreadable(s) == {a \in Starts(s) : LineAt(s, a) \notin Readable \cup {<<>>}}

\* d is the event just before e.
Precedes(d, e) ==
    \/ d[1] = e[1] /\ d[2] + 1 = e[2]
    \/ d[1] + 1 = e[1] /\ d[2] = Len(LineLengths) /\ e[2] = 1

-----------------------------------------------------------------------------
(* Properties.                                                             *)

\* Every variable stays in its domain, and the buffer within its capacity.
TypeOK ==
    /\ Len(buffer) <= Capacity
    /\ synced \in 0..Len(file) /\ holes \subseteq DOMAIN file
    /\ phase \in {"ready", "writing", "syncing", "down"}
    /\ current \in 1..(MaxTx + 1) /\ piece \in 1..(2 * Len(LineLengths) + 1)
    /\ pending \in 0..MaxTx /\ durable \in 0..MaxTx /\ confirmed \in 0..MaxTx
    /\ ends \in 0..MaxEnds /\ drops \in 0..MaxDrops

\* README "Guarantees": no position is acknowledged before its events are on
\* the device, every byte of them, wherever the writer had spilled and whatever
\* a sync that failed before has dropped.
ReleasedIsOnDevice ==
    LET device == Device
    IN  \A e \in Events : e[1] <= confirmed => \E a \in 1..synced : StandsAt(device, e, a)

\* The file implements the storing and releasing of Delivery, every event of
\* every transaction counted: what is on the device is never taken back, and the
\* slot moves only to a position below which everything is on the device.
Stored ==
    LET device == Device
    IN  {t \in Tx : \A i \in DOMAIN LineLengths :
            \E a \in 1..synced : StandsAt(device, <<t, i>>, a)}

Promise == INSTANCE Delivery WITH committed <- Tx, stored <- Stored, released <- confirmed

StoresForDelivery == [][Promise!Store \/ Promise!Release]_<<Stored, confirmed>>

\* A reader that stops anywhere has seen a prefix of the history: before every
\* copy of an event stands a copy of the one before it, hence of all before.
NoGapInFile ==
    \A d, e \in Events : Precedes(d, e) =>
        \A b \in 1..Len(file) : StandsAt(file, e, b) =>
            \E a \in 1..(b - 1) : StandsAt(file, d, a)

\* Lines that are not an event come from ends of the process or the machine,
\* at most one from each; a reconnect leaves none, whatever the buffer held.
\* The last line counts only once another process writes on.
UnreadableOnlyAfterAnEnd ==
    Cardinality({a \in Unreadable(file) : a + Len(LineAt(file, a)) <= Len(file)}) <= ends

\* README:313: "a failure may produce duplicates, it does not produce gaps",
\* for a reader of lines (DECISIONS.md:578 "one change = one line").
ReleasedIsReadable ==
    \A e \in Events : e[1] <= confirmed => Text(e[1], e[2]) \in Lines(file)
=============================================================================
