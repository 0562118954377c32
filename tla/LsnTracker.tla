----------------------------- MODULE LsnTracker -----------------------------
(***************************************************************************)
(* The four WAL positions a run of pgcdc keeps in memory (src/lsn.rs).     *)
(* `LsnTracker` is a plain struct behind `&mut`, so it is modelled as a    *)
(* record and one operator per method; the modules that own a tracker keep *)
(* it in a variable.  A position is a natural number, 0 is `Lsn(0)`.       *)
(*                                                                         *)
(* Here and in the other modules a definition marked "Variant" is not part *)
(* of the model: it is the definition after it with a plausible bug, which *)
(* a property must tell apart from the code (PROJECT.json, mutants).       *)
(***************************************************************************)
EXTENDS Naturals

Tracker(Positions) ==
    [received : Positions, durable : Positions,
     acked : Positions, processed : Positions]

NewTracker == [received |-> 0, durable |-> 0, acked |-> 0, processed |-> 0]

\* `if lsn > self.x { self.x = lsn }`
Raise(old, lsn) == IF lsn > old THEN lsn ELSE old

\* Variant: one past the end of the message.
NoteReceivedPastEnd(trk, lsn) ==
    [trk EXCEPT !.received = Raise(trk.received, lsn + 1)]

NoteReceived(trk, lsn) == [trk EXCEPT !.received = Raise(trk.received, lsn)]

NoteDurable(trk, lsn) == [trk EXCEPT !.durable = Raise(trk.durable, lsn)]

NoteProcessed(trk, lsn) == [trk EXCEPT !.processed = Raise(trk.processed, lsn)]

\* try_ack answers Err(AckBeyondDurable) exactly when this is false.
AckAllowed(trk, lsn) == lsn <= trk.durable

\* The tracker after try_ack, whether it refused or not.
TryAck(trk, lsn) ==
    IF AckAllowed(trk, lsn)
      THEN [trk EXCEPT !.acked = Raise(trk.acked, lsn)]
      ELSE trk
=============================================================================
