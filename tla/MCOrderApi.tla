----------------------------- MODULE MCOrderApi -----------------------------
(***************************************************************************)
(* A small instance of OrderApi for TLC: two requests with one key, whose  *)
(* bodies are equal or not, and one without compete for one unit.  Keyed   *)
(* requests are not named by the specification, so they may be permuted.   *)
(***************************************************************************)
EXTENDS OrderApi, TLC

MCProducts == {1}

MCCarts == {<<1>>}

MCInitialStock == [w \in Warehouses |-> <<1>>]

MCSymmetry == Permutations(Keyed)
=============================================================================
