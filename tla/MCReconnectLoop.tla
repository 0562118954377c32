-------------------------- MODULE MCReconnectLoop --------------------------
(* Small instances of ReconnectLoop for TLC: the unit is 100 ms, so Poll is *)
(* 2, and the longest pause and the budget are a few units.                 *)
EXTENDS ReconnectLoop
=============================================================================
