----------------------------- MODULE Fulfilment -----------------------------
(***************************************************************************)
(* What order processing promises about stock, with every transaction of   *)
(* the code collapsed into one step: an order takes all its items from one *)
(* warehouse at once or takes nothing, and a declined order gives exactly  *)
(* these items back.  There is no lock, no statement, no crash here;       *)
(* OrderService is the detailed specification that implements this one.    *)
(***************************************************************************)
EXTENDS Naturals, FiniteSets

CONSTANTS
  Requests,      \* POST /orders calls; each creates at most one order
  Warehouses,
  Products,      \* product ids, which are numbers: row locks follow their order
  Carts,         \* what may be ordered: Products -> units, 0 for a product not ordered
  InitialStock,  \* inventory before the first call
  NoOrder        \* the call has no row in table orders

ASSUME FiniteAssumption == IsFiniteSet(Requests)
ASSUME ProductsAssumption == Products \subseteq Nat
ASSUME CartsAssumption == Carts \subseteq [Products -> Nat]
ASSUME StockAssumption == InitialStock \in [Warehouses -> [Products -> Nat]]

VARIABLES
  stock,    \* table inventory
  orders    \* table orders with its order_items, by the call that created the row

vars == <<stock, orders>>

\* The statuses the code writes ('cancelled' is allowed by the schema and never written).
Statuses == {"pending_payment", "paid", "payment_failed"}

Order == [status : Statuses, warehouse : Warehouses, items : Carts]

ASSUME NoOrderAssumption == NoOrder \notin Order

TypeOK ==
  /\ stock \in [Warehouses -> [Products -> Nat]]
  /\ orders \in [Requests -> Order \union {NoOrder}]

-----------------------------------------------------------------------------
Init ==
  /\ stock = InitialStock
  /\ orders = [r \in Requests |-> NoOrder]

\* A bug to detect: availability is added up over all warehouses.
StockAnywhere(w, items) ==
  \A p \in Products : \E v \in Warehouses : stock[v][p] >= items[p]

\* Warehouse w has every unit of the cart on its own shelves.
InStock(w, items) == \A p \in Products : stock[w][p] >= items[p]

\* Reserve: all items leave one warehouse together with the new order row.
Place(r) ==
  /\ orders[r] = NoOrder
  /\ \E w \in Warehouses, items \in Carts :
       /\ InStock(w, items)
       /\ stock' = [stock EXCEPT ![w] = [p \in Products |-> @[p] - items[p]]]
       /\ orders' = [orders EXCEPT ![r] =
            [status |-> "pending_payment", warehouse |-> w, items |-> items]]

\* The charge went through: the units are sold.
Settle(r) ==
  /\ orders[r] # NoOrder
  /\ orders[r].status = "pending_payment"
  /\ orders' = [orders EXCEPT ![r].status = "paid"]
  /\ UNCHANGED stock

\* A bug to detect: the warehouse is looked up again when the units go back.
RefundAnywhere(r) ==
  /\ orders[r] # NoOrder
  /\ orders[r].status = "pending_payment"
  /\ orders' = [orders EXCEPT ![r].status = "payment_failed"]
  /\ \E w \in Warehouses :
       stock' = [stock EXCEPT ![w] = [p \in Products |-> @[p] + orders[r].items[p]]]

\* The card was declined: every unit goes back to the shelf it came from.
Refund(r) ==
  /\ orders[r] # NoOrder
  /\ orders[r].status = "pending_payment"
  /\ orders' = [orders EXCEPT ![r].status = "payment_failed"]
  /\ stock' = [stock EXCEPT ![orders[r].warehouse] =
                 [p \in Products |-> @[p] + orders[r].items[p]]]

Next == \E r \in Requests : Place(r) \/ Settle(r) \/ Refund(r)

Spec == Init /\ [][Next]_vars

-----------------------------------------------------------------------------
\* The orders whose units are off the shelves of warehouse w: reserved or sold.
Holders(w) ==
  {r \in Requests :
     /\ orders[r] # NoOrder
     /\ orders[r].warehouse = w
     /\ orders[r].status # "payment_failed"}

\* Those units of product p, one pair <<order, i>> for each.
HeldUnits(w, p) == UNION {{r} \X (1 .. orders[r].items[p]) : r \in Holders(w)}

(***************************************************************************)
(* No unit is lost or sold twice: what is on the shelf and what orders     *)
(* hold always add up to what was there at the start, row by row.          *)
(***************************************************************************)
Conserved ==
  \A w \in Warehouses, p \in Products :
    stock[w][p] + Cardinality(HeldUnits(w, p)) = InitialStock[w][p]
=============================================================================
