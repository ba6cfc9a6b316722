---------------------------- MODULE MCFulfilment ----------------------------
(***************************************************************************)
(* A small instance of Fulfilment for TLC: two products, of which every    *)
(* warehouse holds <<2, 1>> units, and carts that compete for both.        *)
(***************************************************************************)
EXTENDS Fulfilment, TLC

MCProducts == {1, 2}

\* <<units of product 1, units of product 2>>
MCCarts == {<<1, 1>>, <<2, 0>>}

MCInitialStock == [w \in Warehouses |-> <<2, 1>>]

MCSymmetry == Permutations(Requests) \union Permutations(Warehouses)
=============================================================================
