-------------------------- MODULE FulfilmentProofs --------------------------
(***************************************************************************)
(* Fulfilment keeps its types and conserves stock, for any number of       *)
(* requests, warehouses, products and units.                               *)
(***************************************************************************)
EXTENDS Fulfilment, FiniteSetTheorems, TLAPS

-----------------------------------------------------------------------------
(* Facts about the state functions *)

\* The units one order holds: as many pairs as units.
LEMMA UnitsOfOne ==
  ASSUME NEW r, NEW n \in Nat
  PROVE  IsFiniteSet({r} \X (1 .. n)) /\ Cardinality({r} \X (1 .. n)) = n
<1> DEFINE S == {r}
           T == 1 .. n
<1>1. IsFiniteSet(S) /\ Cardinality(S) = 1
  BY FS_Singleton
<1>2. IsFiniteSet(T) /\ Cardinality(T) = n
  BY FS_Interval
<1> HIDE DEF S, T
<1>3. IsFiniteSet(S \X T) /\ Cardinality(S \X T) = Cardinality(S) * Cardinality(T)
  BY <1>1, <1>2, FS_Product
<1>4. Cardinality(S \X T) = n
  BY <1>1, <1>2, <1>3
<1> QED
  BY <1>3, <1>4 DEF S, T

\* Adding the units of an order that held none adds exactly their number.
LEMMA AddUnits ==
  ASSUME NEW S, IsFiniteSet(S), NEW r, NEW n \in Nat, \A u \in S : u[1] # r
  PROVE  /\ IsFiniteSet(S \union ({r} \X (1 .. n)))
         /\ Cardinality(S \union ({r} \X (1 .. n))) = Cardinality(S) + n
<1> DEFINE U == {r} \X (1 .. n)
<1>1. IsFiniteSet(U) /\ Cardinality(U) = n
  BY UnitsOfOne
<1>2. S \intersect U = {}
  OBVIOUS
<1>3. Cardinality(S \intersect U) = 0
  BY <1>2, FS_EmptySet
<1>4. /\ IsFiniteSet(S \union U)
      /\ Cardinality(S \union U) = Cardinality(S) + n - Cardinality(S \intersect U)
  BY <1>1, FS_Union
<1>5. Cardinality(S) \in Nat
  BY FS_CardinalityType
<1> QED
  BY <1>3, <1>4, <1>5

LEMMA OrderFields ==
  ASSUME TypeOK, NEW r \in Requests, orders[r] # NoOrder
  PROVE  /\ orders[r].status \in Statuses
         /\ orders[r].warehouse \in Warehouses
         /\ orders[r].items \in Carts
         /\ orders[r].items \in [Products -> Nat]
BY CartsAssumption DEF TypeOK, Order

-----------------------------------------------------------------------------
(***************************************************************************)
(* Stock never drops below zero and every order is a well-formed row       *)
(* (CHECK (quantity >= 0) of table inventory never has to fire).           *)
(***************************************************************************)
THEOREM Types == Spec => []TypeOK
<1>1. Init => TypeOK
  BY StockAssumption DEF Init, TypeOK
<1>2. TypeOK /\ [Next]_vars => TypeOK'
  <2> SUFFICES ASSUME TypeOK, [Next]_vars PROVE TypeOK'
    OBVIOUS
  <2>1. ASSUME NEW r \in Requests, Place(r) PROVE TypeOK'
    <3>1. PICK w \in Warehouses, items \in Carts :
            /\ InStock(w, items)
            /\ stock' = [stock EXCEPT ![w] = [p \in Products |-> @[p] - items[p]]]
            /\ orders' = [orders EXCEPT ![r] =
                 [status |-> "pending_payment", warehouse |-> w, items |-> items]]
      BY <2>1 DEF Place
    <3>2. items \in [Products -> Nat]
      BY CartsAssumption
    <3>3. [p \in Products |-> stock[w][p] - items[p]] \in [Products -> Nat]
      <4>1. ASSUME NEW p \in Products PROVE stock[w][p] - items[p] \in Nat
        BY <3>1, <3>2 DEF InStock, TypeOK
      <4> QED
        BY <4>1
    <3>4. stock' \in [Warehouses -> [Products -> Nat]]
      BY <3>1, <3>3 DEF TypeOK
    <3>5. orders' \in [Requests -> Order \union {NoOrder}]
      BY <3>1 DEF TypeOK, Order, Statuses
    <3> QED
      BY <3>4, <3>5 DEF TypeOK
  <2>2. ASSUME NEW r \in Requests, Settle(r) PROVE TypeOK'
    <3>1. orders[r] \in Order
      BY <2>2 DEF Settle, TypeOK
    <3>2. [orders[r] EXCEPT !.status = "paid"] \in Order
      BY <3>1 DEF Order, Statuses
    <3> QED
      BY <2>2, <3>2 DEF Settle, TypeOK
  <2>3. ASSUME NEW r \in Requests, Refund(r) PROVE TypeOK'
    <3>1. orders[r] \in Order
      BY <2>3 DEF Refund, TypeOK
    <3>2. [orders[r] EXCEPT !.status = "payment_failed"] \in Order
      BY <3>1 DEF Order, Statuses
    <3>3. /\ orders[r].warehouse \in Warehouses
          /\ orders[r].items \in [Products -> Nat]
      BY <2>3, OrderFields DEF Refund
    <3>4. [p \in Products |-> stock[orders[r].warehouse][p] + orders[r].items[p]]
            \in [Products -> Nat]
      BY <3>3 DEF TypeOK
    <3>5. stock' \in [Warehouses -> [Products -> Nat]]
      BY <2>3, <3>3, <3>4 DEF Refund, TypeOK
    <3> QED
      BY <2>3, <3>2, <3>5 DEF Refund, TypeOK
  <2>4. CASE UNCHANGED vars
    BY <2>4 DEF vars, TypeOK
  <2> QED
    BY <2>1, <2>2, <2>3, <2>4 DEF Next
<1> QED
  BY <1>1, <1>2, PTL DEF Spec

-----------------------------------------------------------------------------
(***************************************************************************)
(* Conserved is inductive only together with the finiteness of the set it  *)
(* counts: Cardinality means nothing for any other set.                    *)
(***************************************************************************)
HeldFinite ==
  \A w \in Warehouses, p \in Products : IsFiniteSet(HeldUnits(w, p))

\* A pair of HeldUnits names the order that holds it.
LEMMA UnitsNameTheirOrder ==
  ASSUME NEW w \in Warehouses, NEW p \in Products
  PROVE  \A u \in HeldUnits(w, p) : u[1] \in Holders(w)
BY DEF HeldUnits

\* The new row of Place(r).
NewOrder(r, w, items) ==
  orders' = [orders EXCEPT ![r] =
    [status |-> "pending_payment", warehouse |-> w, items |-> items]]

\* Place(r) adds the units of r to the rows of its warehouse, and only there.
LEMMA PlaceAddsUnits ==
  ASSUME TypeOK, NEW r \in Requests, NEW w \in Warehouses, NEW items \in Carts,
         orders[r] = NoOrder, NewOrder(r, w, items),
         NEW v \in Warehouses, NEW p \in Products
  PROVE  /\ r \notin Holders(v)
         /\ v # w => HeldUnits(v, p)' = HeldUnits(v, p)
         /\ v = w => HeldUnits(v, p)' = HeldUnits(v, p) \union ({r} \X (1 .. items[p]))
<1>1. r \notin Holders(v)
  BY DEF Holders
<1>2. /\ orders'[r] = [status |-> "pending_payment", warehouse |-> w, items |-> items]
      /\ \A s \in Requests \ {r} : orders'[s] = orders[s]
  BY DEF NewOrder, TypeOK
<1>3. orders'[r] # NoOrder
  BY <1>2, NoOrderAssumption DEF Order, Statuses
<1>4. Holders(v)' = IF v = w THEN Holders(v) \union {r} ELSE Holders(v)
  BY <1>1, <1>2, <1>3 DEF Holders
<1>5. \A s \in Holders(v) : orders'[s] = orders[s]
  BY <1>1, <1>2 DEF Holders
<1>6. CASE v # w
  BY <1>1, <1>4, <1>5, <1>6 DEF HeldUnits
<1>7. CASE v = w
  BY <1>1, <1>2, <1>4, <1>5, <1>7 DEF HeldUnits
<1> QED
  BY <1>1, <1>6, <1>7

\* Refund(r) takes the units of r away from its warehouse, and only there.
LEMMA RefundRemovesUnits ==
  ASSUME TypeOK, NEW r \in Requests, Refund(r),
         NEW v \in Warehouses, NEW p \in Products
  PROVE  /\ r \notin Holders(v)'
         /\ v # orders[r].warehouse => HeldUnits(v, p)' = HeldUnits(v, p)
         /\ v = orders[r].warehouse =>
              HeldUnits(v, p) = HeldUnits(v, p)' \union ({r} \X (1 .. orders[r].items[p]))
<1>1. orders[r] # NoOrder /\ orders[r] \in Order /\ orders[r].status = "pending_payment"
  BY DEF Refund, TypeOK
<1>2. /\ orders'[r].status = "payment_failed"
      /\ \A s \in Requests \ {r} : orders'[s] = orders[s]
  BY <1>1 DEF Refund, TypeOK, Order
<1>3. r \notin Holders(v)'
  BY <1>2 DEF Holders
<1>4. Holders(v) = IF v = orders[r].warehouse THEN Holders(v)' \union {r} ELSE Holders(v)'
  BY <1>1, <1>2 DEF Holders
<1>5. \A s \in Holders(v)' : orders'[s] = orders[s]
  BY <1>2, <1>3 DEF Holders
<1>6. ASSUME v # orders[r].warehouse PROVE HeldUnits(v, p)' = HeldUnits(v, p)
  <2>1. Holders(v)' = Holders(v)
    BY <1>4, <1>6
  <2> QED
    BY <1>5, <2>1 DEF HeldUnits
<1>7. ASSUME v = orders[r].warehouse
      PROVE  HeldUnits(v, p) = HeldUnits(v, p)' \union ({r} \X (1 .. orders[r].items[p]))
  <2>1. Holders(v) = Holders(v)' \union {r}
    BY <1>4, <1>7
  <2>2. HeldUnits(v, p)' = UNION {{s} \X (1 .. orders[s].items[p]) : s \in Holders(v)'}
    BY <1>5 DEF HeldUnits
  <2> QED
    BY <2>1, <2>2 DEF HeldUnits
<1> QED
  BY <1>3, <1>6, <1>7

\* Settle(r), and a step that leaves orders alone, keep every unit where it is.
LEMMA SettleKeepsUnits ==
  ASSUME TypeOK, NEW r \in Requests, Settle(r),
         NEW w \in Warehouses, NEW p \in Products
  PROVE  HeldUnits(w, p)' = HeldUnits(w, p)
<1>1. orders[r] # NoOrder /\ orders[r] \in Order /\ orders[r].status = "pending_payment"
  BY DEF Settle, TypeOK
<1>2. /\ orders'[r] = [orders[r] EXCEPT !.status = "paid"]
      /\ \A s \in Requests \ {r} : orders'[s] = orders[s]
  BY DEF Settle, TypeOK
<1>3. /\ orders'[r].status = "paid"
      /\ orders'[r].warehouse = orders[r].warehouse
      /\ orders'[r].items = orders[r].items
      /\ orders'[r] \in Order
  BY <1>1, <1>2 DEF Order, Statuses
<1>4. orders'[r] # NoOrder
  BY <1>3, NoOrderAssumption
<1>5. Holders(w)' = Holders(w)
  BY <1>1, <1>2, <1>3, <1>4 DEF Holders
<1>6. \A s \in Holders(w) : orders'[s].items = orders[s].items
  BY <1>2, <1>3 DEF Holders
<1> QED
  BY <1>5, <1>6 DEF HeldUnits

-----------------------------------------------------------------------------
IInv == TypeOK /\ HeldFinite /\ Conserved

LEMMA InitConserved == Init => IInv
<1> SUFFICES ASSUME Init PROVE IInv
  OBVIOUS
<1>1. TypeOK
  BY StockAssumption DEF Init, TypeOK
<1>2. ASSUME NEW w \in Warehouses, NEW p \in Products PROVE HeldUnits(w, p) = {}
  BY DEF Init, HeldUnits, Holders
<1>3. HeldFinite
  BY <1>2, FS_EmptySet DEF HeldFinite
<1>4. ASSUME NEW w \in Warehouses, NEW p \in Products
      PROVE  stock[w][p] + Cardinality(HeldUnits(w, p)) = InitialStock[w][p]
  <2>1. Cardinality(HeldUnits(w, p)) = 0
    BY <1>2, FS_EmptySet
  <2>2. stock[w][p] = InitialStock[w][p] /\ stock[w][p] \in Nat
    BY <1>1 DEF Init, TypeOK
  <2> QED
    BY <2>1, <2>2
<1> QED
  BY <1>1, <1>3, <1>4 DEF IInv, Conserved

LEMMA StepConserved == IInv /\ TypeOK' /\ [Next]_vars => IInv'
<1> SUFFICES ASSUME IInv, TypeOK', [Next]_vars,
                    NEW v \in Warehouses, NEW p \in Products
             PROVE  /\ IsFiniteSet(HeldUnits(v, p)')
                    /\ stock'[v][p] + Cardinality(HeldUnits(v, p)') = InitialStock[v][p]
  BY DEF IInv, HeldFinite, Conserved
<1> USE DEF IInv
<1>1. /\ IsFiniteSet(HeldUnits(v, p))
      /\ Cardinality(HeldUnits(v, p)) \in Nat
      /\ stock[v][p] + Cardinality(HeldUnits(v, p)) = InitialStock[v][p]
      /\ stock[v][p] \in Nat
      /\ InitialStock[v][p] \in Nat
  BY FS_CardinalityType, StockAssumption DEF HeldFinite, Conserved, TypeOK
<1>2. ASSUME NEW r \in Requests, Place(r)
      PROVE  /\ IsFiniteSet(HeldUnits(v, p)')
             /\ stock'[v][p] + Cardinality(HeldUnits(v, p)') = InitialStock[v][p]
  <2>1. PICK w \in Warehouses, items \in Carts :
          /\ InStock(w, items)
          /\ stock' = [stock EXCEPT ![w] = [q \in Products |-> @[q] - items[q]]]
          /\ orders' = [orders EXCEPT ![r] =
               [status |-> "pending_payment", warehouse |-> w, items |-> items]]
    BY <1>2 DEF Place
  <2>2. orders[r] = NoOrder
    BY <1>2 DEF Place
  <2>3. /\ r \notin Holders(v)
        /\ v # w => HeldUnits(v, p)' = HeldUnits(v, p)
        /\ v = w => HeldUnits(v, p)' = HeldUnits(v, p) \union ({r} \X (1 .. items[p]))
    <3>1. TypeOK /\ NewOrder(r, w, items)
      BY <2>1 DEF NewOrder
    <3> QED
      BY <2>2, <3>1, PlaceAddsUnits
  <2>4. CASE v # w
    BY <1>1, <2>1, <2>3, <2>4 DEF TypeOK
  <2>5. CASE v = w
    <3>1. items[p] \in Nat
      BY CartsAssumption
    <3>2. \A u \in HeldUnits(v, p) : u[1] # r
      BY <2>3, UnitsNameTheirOrder
    <3> DEFINE n == items[p]
               held == HeldUnits(v, p)
    <3> HIDE DEF n, held
    <3>3. /\ IsFiniteSet(held \union ({r} \X (1 .. n)))
          /\ Cardinality(held \union ({r} \X (1 .. n))) = Cardinality(held) + n
      <4>1. IsFiniteSet(held) /\ (\A u \in held : u[1] # r) /\ n \in Nat
        BY <1>1, <3>1, <3>2 DEF held, n
      <4> QED
        BY <4>1, AddUnits
    <3>4. HeldUnits(v, p)' = held \union ({r} \X (1 .. n))
      BY <2>3, <2>5 DEF held, n
    <3>5. stock'[v][p] = stock[v][p] - items[p]
      BY <2>1, <2>5 DEF TypeOK
    <3> QED
      BY <1>1, <3>1, <3>3, <3>4, <3>5 DEF held, n
  <2> QED
    BY <2>4, <2>5
<1>3. ASSUME NEW r \in Requests, Settle(r)
      PROVE  /\ IsFiniteSet(HeldUnits(v, p)')
             /\ stock'[v][p] + Cardinality(HeldUnits(v, p)') = InitialStock[v][p]
  BY <1>1, <1>3, SettleKeepsUnits DEF Settle
<1>4. ASSUME NEW r \in Requests, Refund(r)
      PROVE  /\ IsFiniteSet(HeldUnits(v, p)')
             /\ stock'[v][p] + Cardinality(HeldUnits(v, p)') = InitialStock[v][p]
  <2>1. /\ orders[r].warehouse \in Warehouses
        /\ orders[r].items \in [Products -> Nat]
    BY <1>4, OrderFields DEF Refund
  <2>2. stock' = [stock EXCEPT ![orders[r].warehouse] =
                    [q \in Products |-> @[q] + orders[r].items[q]]]
    BY <1>4 DEF Refund
  <2>3. /\ r \notin Holders(v)'
        /\ v # orders[r].warehouse => HeldUnits(v, p)' = HeldUnits(v, p)
        /\ v = orders[r].warehouse =>
             HeldUnits(v, p) = HeldUnits(v, p)' \union ({r} \X (1 .. orders[r].items[p]))
    BY <1>4, RefundRemovesUnits
  <2>4. CASE v # orders[r].warehouse
    BY <1>1, <2>1, <2>2, <2>3, <2>4 DEF TypeOK
  <2>5. CASE v = orders[r].warehouse
    <3> DEFINE n == orders[r].items[p]
               left == HeldUnits(v, p)'
    <3>1. n \in Nat
      BY <2>1
    <3>2. \A u \in left : u[1] # r
      BY <2>3 DEF HeldUnits
    <3>3. HeldUnits(v, p) = left \union ({r} \X (1 .. n))
      BY <2>3, <2>5
    <3>4. stock'[v][p] = stock[v][p] + n
      BY <2>1, <2>2, <2>5 DEF TypeOK
    <3>5. IsFiniteSet(left)
      BY <1>1, <3>3, FS_Subset
    <3> HIDE DEF n, left
    <3>6. Cardinality(left) \in Nat
      BY <3>5, FS_CardinalityType
    <3>7. Cardinality(left \union ({r} \X (1 .. n))) = Cardinality(left) + n
      BY <3>1, <3>2, <3>5, AddUnits
    <3>8. stock'[v][p] + Cardinality(left) = InitialStock[v][p]
      BY <1>1, <3>1, <3>3, <3>4, <3>6, <3>7
    <3> QED
      BY <3>5, <3>8 DEF left
  <2> QED
    BY <2>4, <2>5
<1>5. CASE UNCHANGED vars
  <2>1. HeldUnits(v, p)' = HeldUnits(v, p)
    BY <1>5 DEF vars, HeldUnits, Holders
  <2> QED
    BY <1>1, <1>5, <2>1 DEF vars
<1> QED
  BY <1>2, <1>3, <1>4, <1>5 DEF Next

(***************************************************************************)
(* The stock of every row and the units its orders hold always add up to   *)
(* the initial stock: reserve_inventory and release_inventory, seen as     *)
(* whole transactions, neither lose a unit nor sell it twice.              *)
(***************************************************************************)
THEOREM Conservation == Spec => []Conserved
<1>1. Spec => []IInv
  BY InitConserved, StepConserved, Types, PTL DEF Spec
<1>2. IInv => Conserved
  BY DEF IInv
<1> QED
  BY <1>1, <1>2, PTL
=============================================================================
