---------------------------- MODULE MCSharedSlot ----------------------------
(* Small instances of SharedSlot for TLC.                                  *)
EXTENDS SharedSlot

\* Everything but a crash of the server, which may take the slot back behind what
\* the process has stored: a theft there is not for the guard to see.
SharedFaults == {"foreign", "net", "kill", "signal", "lost", "fatal"}
=============================================================================
