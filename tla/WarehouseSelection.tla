------------------------- MODULE WarehouseSelection -------------------------
(***************************************************************************)
(* find_best_warehouse (src/app/services/warehouse_selector.py).           *)
(*                                                                         *)
(* A table inventory is a function on the pairs <<warehouse, product>> it  *)
(* has a row for; a distance is a number for each warehouse: haversine_km  *)
(* only has to rank them.  Items are the validated lines of one order.     *)
(***************************************************************************)
EXTENDS Naturals, Sequences

ProductIds(items) == {items[i].product_id : i \in DOMAIN items}

\* The rows of the first SELECT, one function from products to units per warehouse.
StockByWarehouse(inventory, ids) ==
  LET rows == {row \in DOMAIN inventory : row[2] \in ids}
  IN [w \in {row[1] : row \in rows} |->
       [p \in {row[2] : row \in {r \in rows : r[1] = w}} |-> inventory[<<w, p>>]]]

Units(stock, p) == IF p \in DOMAIN stock THEN stock[p] ELSE 0

\* A bug to detect: products the warehouse has no row for are not looked at.
FillsRowsOnly(stock, items) ==
  \A i \in DOMAIN items :
    items[i].product_id \in DOMAIN stock => stock[items[i].product_id] >= items[i].quantity

Fills(stock, items) ==
  \A i \in DOMAIN items : Units(stock, items[i].product_id) >= items[i].quantity

EligibleIds(inventory, items) ==
  LET stock == StockByWarehouse(inventory, ProductIds(items))
  IN {w \in DOMAIN stock : Fills(stock[w], items)}

(***************************************************************************)
(* What it may return: min() takes the first of several nearest, and the   *)
(* second SELECT has no ORDER BY.  Empty: NoWarehouseAvailable.            *)
(***************************************************************************)
find_best_warehouse(inventory, items, distance) ==
  LET ids == EligibleIds(inventory, items)
  IN {w \in ids : \A v \in ids : distance[w] <= distance[v]}
=============================================================================
