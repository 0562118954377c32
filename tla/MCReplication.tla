--------------------------- MODULE MCReplication ---------------------------
(* Small instances of Replication for TLC.                                 *)
EXTENDS ReplicationInv

\* Everything that can go wrong.
AllFaults == FaultKinds

\* What the process is expected to recover from, for the liveness run.
RecoverableFaults == {"net", "kill", "signal", "server"}

\* Only dropped connections.
NetworkFaults == {"net"}
=============================================================================
