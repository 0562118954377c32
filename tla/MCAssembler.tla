---------------------------- MODULE MCAssembler -----------------------------
(* A small instance of Assembler for TLC: one table of each identity, two  *)
(* interchangeable keys.                                                   *)
EXTENDS Assembler

CONSTANTS k1, k2

TwoIds == {k1, k2}
AnyId == Permutations(TwoIds)

MixedIdentity == [t \in Tables |-> IF t = "items" THEN "default" ELSE "full"]
=============================================================================
