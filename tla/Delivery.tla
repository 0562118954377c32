------------------------------ MODULE Delivery ------------------------------
(***************************************************************************)
(* What pgcdc promises its operator, without saying how: at-least-once     *)
(* delivery of every committed transaction into durable output.  The slot  *)
(* may let go of WAL only up to a position below which everything the      *)
(* publication committed is already stored, and what is stored stays       *)
(* stored (README.md "Guarantees", DECISIONS.md invariants 1 and 2).       *)
(*                                                                         *)
(* Replication.tla is the detailed specification; it implements this one.  *)
(***************************************************************************)
EXTENDS Naturals

VARIABLES
    committed,  \* end positions of the published transactions committed so far
    stored,     \* the transactions whose every event is on the medium
    released    \* the position up to which the server may discard WAL

vars == <<committed, stored, released>>

Covered(position) == \A t \in committed : t <= position => t \in stored

Init ==
    /\ committed = {}
    /\ stored = {}
    /\ released \in Nat

\* The database commits: new transactions end beyond what was released.
Commit ==
    /\ committed \subseteq committed'
    /\ \A t \in committed' \ committed : t \in Nat /\ t > released
    /\ UNCHANGED <<stored, released>>

\* Output becomes durable; nothing uncommitted is ever stored.
Store ==
    /\ stored \subseteq stored'
    /\ stored' \subseteq committed
    /\ UNCHANGED <<committed, released>>

\* The released position moves, forward by an acknowledgement or backward by a
\* crash of the server, but only to a position whose past is stored.
Release ==
    /\ released' \in Nat
    /\ Covered(released')
    /\ UNCHANGED <<committed, stored>>

Next == Commit \/ Store \/ Release

Spec == Init /\ [][Next]_vars
=============================================================================
