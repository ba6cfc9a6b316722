--------------------------- MODULE MCOrderService ---------------------------
(***************************************************************************)
(* Small instances of OrderService for TLC.  Every warehouse has two units *)
(* of product 1 and one of product 2; the carts compete for both products, *)
(* for two units of one row, and for a row that another cart takes last.   *)
(***************************************************************************)
EXTENDS OrderService, TLC

MCProducts == {1, 2}

\* <<units of product 1, units of product 2>>
MCCarts == {<<1, 1>>, <<2, 0>>}

MCInitialStock == [w \in Warehouses |-> <<2, 1>>]

\* Enough for two orders of both products, whose returns then meet.
MCStockForTwo == [w \in Warehouses |-> <<2, 2>>]

\* The specification names no request (Init does single out a warehouse).
MCSymmetry == Permutations(Requests)
=============================================================================
