--------------------------- MODULE MCIdempotency ----------------------------
(***************************************************************************)
(* Small instances of Idempotency for TLC: two bodies, and a duplicate of  *)
(* a duplicate, under one key whose handlers are prompt and one whose      *)
(* handlers may outlive their claims.                                      *)
(***************************************************************************)
EXTENDS Idempotency, TLC

MCSymmetry == Permutations(Requests) \union Permutations(Bodies)
=============================================================================
