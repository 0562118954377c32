------------------------------- MODULE Errors -------------------------------
(***************************************************************************)
(* PgcdcError (src/error.rs) and the functions of                          *)
(* src/postgres/replication.rs that decide from an error whether the       *)
(* process goes on: classify_start_error, handle_session_outcome and the   *)
(* exit code of src/main.rs.  What an error says is left out.              *)
(***************************************************************************)
EXTENDS Naturals

\* The variants, by where they come from.
SlotErrors == {"SlotMissing", "SlotAhead", "SlotUnusable"}
StreamErrors == {"Decode", "UnsupportedMessage", "UnknownRelation",
                 "TransactionTooLarge", "AckBeyondDurable", "Sink"}
ConfigErrors == {"InvalidDatabaseUrl", "InvalidReconnectBounds", "OutputPathRequired"}
PgcdcError == SlotErrors \cup StreamErrors \cup ConfigErrors
           \cup {"SlotBusyTimedOut", "Connection"}

IsFatal(e) == e # "Connection"

-----------------------------------------------------------------------------
(* The failure of start(), as the transport crate reports it: whether the  *)
(* crate calls it transient, the SQLSTATE its message carries, and whether *)
(* the message contains "is active for PID", which servers translate.      *)

Codes == {"55006", "55000", "22023"}
StartFailure == [transient : BOOLEAN, code : Codes \cup {"garbled", "absent"}, text : BOOLEAN]

\* A code is five characters between the marker and the parenthesis.
ExtractSqlstate(f) == IF f.code \in Codes THEN f.code ELSE "none"

\* Variant: the text is asked, whatever the code.
IsBusyRaceByText(f) == f.text

\* is_busy_race_reason: the text counts only if there is no code.
IsBusyRace(f) ==
    LET code == ExtractSqlstate(f)
    IN  IF code = "none" THEN f.text ELSE code = "55006"

ClassifyStartError(f) ==
    IF f.transient \/ IsBusyRace(f) THEN "Connection" ELSE "SlotUnusable"

-----------------------------------------------------------------------------
(* What follows from the way a session ended: "ShutdownRequested",         *)
(* "Disconnected", or an error.                                            *)

Outcomes == {"ShutdownRequested", "Disconnected"} \cup PgcdcError

\* handle_session_outcome.
LoopAction(outcome) ==
    IF outcome = "ShutdownRequested" THEN "Stop"
      ELSE IF outcome = "Disconnected" \/ ~IsFatal(outcome) THEN "Reconnect"
      ELSE "Abort"

\* Variant: every reconnect counts as an error.
CountsAsErrorAlways(outcome) == LoopAction(outcome) = "Reconnect"

\* A recoverable error counts, a dropped connection does not.
CountsAsError(outcome) == outcome # "Disconnected" /\ LoopAction(outcome) = "Reconnect"
=============================================================================
