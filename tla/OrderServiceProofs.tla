------------------------- MODULE OrderServiceProofs -------------------------
(***************************************************************************)
(* What holds of OrderService for any number of requests, warehouses,      *)
(* products and units, whatever fails and whoever is killed.  Row locks    *)
(* never form a cycle, and a 409 is the fault of the stock.                *)
(***************************************************************************)
EXTENDS OrderService, FiniteSetTheorems, WellFoundedInduction, TLAPS

-----------------------------------------------------------------------------
(* The inductive invariant *)

\* The order a request has placed and not settled yet.
Placed(r) == [status |-> "pending_payment", warehouse |-> warehouse[r], items |-> cart[r]]

\* What the tables and the gateway know about a request, by its next step.
PhaseOf(r) ==
  /\ pc[r] \in {"idle", "select", "reserve"} =>
       orders[r] = NoOrder /\ payments[r] = "none" /\ result[r] = "none" /\ answer[r] = 0
  /\ pc[r] = "charge" =>
       orders[r] = Placed(r) /\ payments[r] = "none" /\ result[r] = "none" /\ answer[r] = 0
  /\ pc[r] = "settle" =>
       orders[r] = Placed(r) /\ payments[r] = "none" /\ result[r] # "none" /\ answer[r] = 0
  /\ pc[r] = "respond" =>
       /\ orders[r] # NoOrder
       /\ answer[r] = 0
       /\ \/ result[r] = "success" /\ orders[r].status = "paid"
          \/ result[r] = "declined" /\ orders[r].status = "payment_failed"

PhaseInv == \A r \in Requests : PhaseOf(r)

\* What the writer of a row has written into it.
RowOf(w, p) ==
  /\ rowLock[w][p] = NoOne => pending[w][p] = inventory[w][p]
  /\ \A r \in Requests :
       rowLock[w][p] = r =>
         /\ warehouse[r] = w
         /\ cart[r][p] > 0
         /\ \/ /\ pc[r] = "reserve"
               /\ inventory[w][p] >= cart[r][p]
               /\ pending[w][p] = inventory[w][p] - cart[r][p]
            \/ /\ pc[r] = "settle"
               /\ result[r] = "declined"
               /\ pending[w][p] = inventory[w][p] + cart[r][p]

RowInv == \A w \in Warehouses, p \in Products : RowOf(w, p)

IInv ==
  /\ TypeOK
  /\ PhaseInv
  /\ RowInv
  /\ PaymentMatchesOrder
  /\ AnswerTruthful

-----------------------------------------------------------------------------
(* Types *)

InventoryTypes ==
  /\ inventory \in [Warehouses -> [Products -> Nat]]
  /\ pending \in [Warehouses -> [Products -> Nat]]
  /\ rowLock \in [Warehouses -> [Products -> Requests \union {NoOne}]]

LEMMA RowsKeepTypes ==
  ASSUME TypeOK, NEW r \in Requests,
         CommitRows(r) \/ RollbackRows(r) \/ UNCHANGED <<inventory, pending, rowLock>>
  PROVE  InventoryTypes'
<1>1. CASE CommitRows(r)
  <2>1. inventory' \in [Warehouses -> [Products -> Nat]]
    BY <1>1 DEF CommitRows, TypeOK
  <2>2. rowLock' \in [Warehouses -> [Products -> Requests \union {NoOne}]]
    BY <1>1 DEF CommitRows, TypeOK
  <2> QED
    BY <1>1, <2>1, <2>2 DEF CommitRows, TypeOK, InventoryTypes
<1>2. CASE RollbackRows(r)
  <2>1. pending' \in [Warehouses -> [Products -> Nat]]
    BY <1>2 DEF RollbackRows, TypeOK
  <2>2. rowLock' \in [Warehouses -> [Products -> Requests \union {NoOne}]]
    BY <1>2 DEF RollbackRows, TypeOK
  <2> QED
    BY <1>2, <2>1, <2>2 DEF RollbackRows, TypeOK, InventoryTypes
<1>3. CASE UNCHANGED <<inventory, pending, rowLock>>
  BY <1>3 DEF TypeOK, InventoryTypes
<1> QED
  BY <1>1, <1>2, <1>3

LEMMA WriteKeepsTypes ==
  ASSUME TypeOK, NEW r \in Requests, NEW w \in Warehouses, NEW p \in Products,
         NEW n \in Nat, WriteRow(r, w, p, n)
  PROVE  InventoryTypes'
BY DEF WriteRow, TypeOK, InventoryTypes

\* The quantity that ReserveRow and ReleaseRow write is a natural number.
LEMMA QuantityIsNat ==
  ASSUME TypeOK, NEW r \in Requests, NEW p \in Products
  PROVE  /\ warehouse[r] \in Warehouses
         /\ cart[r][p] \in Nat
         /\ inventory[warehouse[r]][p] \in Nat
         /\ Enough(r, p) => inventory[warehouse[r]][p] - cart[r][p] \in Nat
         /\ inventory[warehouse[r]][p] + cart[r][p] \in Nat
<1>1. cart[r] \in [Products -> Nat] /\ warehouse[r] \in Warehouses
  BY CartsAssumption DEF TypeOK
<1> QED
  BY <1>1 DEF TypeOK, Enough

LEMMA PlacedIsOrder ==
  ASSUME TypeOK, NEW r \in Requests
  PROVE  Placed(r) \in Order
BY DEF TypeOK, Placed, Order, Statuses

\* A settled order is a well-formed row.
LEMMA SettledIsOrder ==
  ASSUME TypeOK, PhaseInv, NEW r \in Requests, pc[r] = "settle",
         NEW status \in Statuses
  PROVE  /\ orders[r] = Placed(r)
         /\ [orders EXCEPT ![r].status = status] \in [Requests -> Order \union {NoOrder}]
<1>1. orders[r] = Placed(r) /\ orders[r] \in Order
  BY PlacedIsOrder DEF PhaseInv, PhaseOf
<1>2. [orders[r] EXCEPT !.status = status] \in Order
  BY <1>1 DEF Order
<1> QED
  BY <1>1, <1>2 DEF TypeOK

LEMMA SettledStatus ==
  ASSUME TypeOK, NEW r \in Requests, orders[r] = Placed(r), NEW status \in Statuses
  PROVE  /\ [orders EXCEPT ![r].status = status][r] # NoOrder
         /\ [orders EXCEPT ![r].status = status][r].status = status
<1>1. orders[r] \in Order
  BY PlacedIsOrder
<1>2. [orders EXCEPT ![r].status = status][r] = [orders[r] EXCEPT !.status = status]
  BY DEF TypeOK
<1>3. /\ [orders[r] EXCEPT !.status = status] \in Order
      /\ [orders[r] EXCEPT !.status = status].status = status
  BY <1>1 DEF Order
<1> QED
  BY <1>2, <1>3, NoOrderAssumption

LEMMA InitTypes == Init => TypeOK
<1>1. (CHOOSE items \in Carts : TRUE) \in Carts
  BY CartsAssumption
<1>2. (CHOOSE w \in Warehouses : TRUE) \in Warehouses
  BY WarehousesAssumption
<1> QED
  BY <1>1, <1>2, StockAssumption DEF Init, TypeOK, Steps

LEMMA StepTypes == TypeOK /\ PhaseInv /\ [Next]_vars => TypeOK'
<1> SUFFICES ASSUME TypeOK, PhaseInv, [Next]_vars PROVE TypeOK'
  OBVIOUS
<1>1. ASSUME NEW r \in Requests, Begin(r) PROVE TypeOK'
  BY <1>1 DEF Begin, TypeOK, Steps, database
<1>2. ASSUME NEW r \in Requests, NotFound(r) PROVE TypeOK'
  BY <1>2 DEF NotFound, Answer, TypeOK, Steps, database, locals
<1>3. ASSUME NEW r \in Requests, SelectWarehouse(r) PROVE TypeOK'
  BY <1>3 DEF SelectWarehouse, TypeOK, Steps, database
<1>4. ASSUME NEW r \in Requests, NoWarehouse(r) PROVE TypeOK'
  BY <1>4 DEF NoWarehouse, Answer, TypeOK, Steps, database, locals
<1>5. ASSUME NEW r \in Requests, ReserveRow(r) PROVE TypeOK'
  <2>1. InventoryTypes'
    <3>1. PICK p \in Products :
            /\ Enough(r, p)
            /\ WriteRow(r, warehouse[r], p, inventory[warehouse[r]][p] - cart[r][p])
      BY <1>5 DEF ReserveRow
    <3> QED
      BY <3>1, QuantityIsNat, WriteKeepsTypes
  <2> QED
    BY <1>5, <2>1 DEF ReserveRow, TypeOK, InventoryTypes, locals
<1>6. ASSUME NEW r \in Requests, LoseRace(r) PROVE TypeOK'
  <2>1. InventoryTypes'
    BY <1>6, RowsKeepTypes DEF LoseRace
  <2> QED
    BY <1>6, <2>1 DEF LoseRace, Answer, TypeOK, InventoryTypes, Steps, locals
<1>7. ASSUME NEW r \in Requests, InsertOrder(r),
             pc' \in [Requests -> Steps],
             answer' \in [Requests -> {0, 201, 402, 404, 409, 500}]
      PROVE  TypeOK'
  <2>1. InventoryTypes'
    BY <1>7, RowsKeepTypes DEF InsertOrder
  <2>2. orders' \in [Requests -> Order \union {NoOrder}]
    BY <1>7, PlacedIsOrder DEF InsertOrder, Placed, TypeOK
  <2> QED
    BY <1>7, <2>1, <2>2 DEF InsertOrder, TypeOK, InventoryTypes, locals
<1>8. ASSUME NEW r \in Requests, Charge(r) PROVE TypeOK'
  BY <1>8 DEF Charge, TypeOK, Steps, database, locals
<1>9. ASSUME NEW r \in Requests, ReleaseRow(r) PROVE TypeOK'
  <2>1. InventoryTypes'
    <3>1. PICK p \in Products :
            WriteRow(r, warehouse[r], p, inventory[warehouse[r]][p] + cart[r][p])
      BY <1>9 DEF ReleaseRow
    <3> QED
      BY <3>1, QuantityIsNat, WriteKeepsTypes
  <2> QED
    BY <1>9, <2>1 DEF ReleaseRow, TypeOK, InventoryTypes, locals
<1>10. ASSUME NEW r \in Requests, SettlePaid(r) \/ SettleDeclined(r),
              pc' \in [Requests -> Steps],
              answer' \in [Requests -> {0, 201, 402, 404, 409, 500}]
       PROVE  TypeOK'
  <2>1. PICK payment \in {"succeeded", "failed"}, status \in Statuses :
          pc[r] = "settle" /\ Settle(r, payment, status)
    BY <1>10 DEF SettlePaid, SettleDeclined, Statuses
  <2>2. InventoryTypes'
    BY <2>1, RowsKeepTypes DEF Settle
  <2>3. orders' \in [Requests -> Order \union {NoOrder}]
    BY <2>1, SettledIsOrder DEF Settle
  <2>4. payments' \in [Requests -> {"none", "succeeded", "failed"}]
    BY <2>1 DEF Settle, TypeOK
  <2> QED
    BY <1>10, <2>1, <2>2, <2>3, <2>4 DEF Settle, TypeOK, InventoryTypes, locals
<1>11. ASSUME NEW r \in Requests, Respond(r) PROVE TypeOK'
  BY <1>11 DEF Respond, Answer, TypeOK, Steps, database, locals
<1>12. ASSUME NEW r \in Requests, Fail(r) PROVE TypeOK'
  <2>1. InventoryTypes'
    BY <1>12, RowsKeepTypes DEF Fail
  <2> QED
    BY <1>12, <2>1 DEF Fail, Answer, TypeOK, InventoryTypes, Steps, locals
<1>13. ASSUME NEW r \in Requests, Crash(r) PROVE TypeOK'
  <2>1. InventoryTypes'
    BY <1>13, RowsKeepTypes DEF Crash
  <2> QED
    BY <1>13, <2>1 DEF Crash, TypeOK, InventoryTypes, Steps, locals
<1>14. ASSUME NEW r \in Requests, PlaceOrder(r) PROVE TypeOK'
  BY <1>7, <1>14 DEF PlaceOrder, TypeOK, Steps
<1>15. ASSUME NEW r \in Requests, RecordPayment(r) PROVE TypeOK'
  BY <1>10, <1>15 DEF RecordPayment, TypeOK, Steps
<1>16. ASSUME NEW r \in Requests, LoseAcknowledgement(r) PROVE TypeOK'
  <2>1. /\ pc' \in [Requests -> Steps]
        /\ answer' \in [Requests -> {0, 201, 402, 404, 409, 500}]
    BY <1>16 DEF LoseAcknowledgement, Answer, TypeOK, Steps
  <2> QED
    BY <1>7, <1>10, <1>16, <2>1 DEF LoseAcknowledgement
<1>17. CASE UNCHANGED vars
  BY <1>17 DEF vars, TypeOK
<1> QED
  BY <1>1, <1>2, <1>3, <1>4, <1>5, <1>6, <1>8, <1>9, <1>11, <1>12, <1>13, <1>14, <1>15,
     <1>16, <1>17
  DEF Next, Proceed, Fault, Terminating

-----------------------------------------------------------------------------
(* What a request may conclude from its own step *)

StepOf(r) == Begin(r) \/ NotFound(r) \/ Proceed(r) \/ Fault(r)

\* The part of the state that belongs to request s, the rows apart.
Untouched(s) ==
  /\ orders'[s] = orders[s]
  /\ payments'[s] = payments[s]
  /\ result'[s] = result[s]
  /\ pc'[s] = pc[s]
  /\ cart'[s] = cart[s]
  /\ warehouse'[s] = warehouse[s]
  /\ answer'[s] = answer[s]

LEMMA OthersUntouched ==
  ASSUME TypeOK, NEW r \in Requests, StepOf(r), NEW s \in Requests, s # r
  PROVE  Untouched(s)
<1> USE DEF TypeOK, Untouched, Answer
<1>1. CASE Begin(r)
  BY <1>1 DEF Begin, database
<1>2. CASE NotFound(r)
  BY <1>2 DEF NotFound, database, locals
<1>3. CASE SelectWarehouse(r)
  BY <1>3 DEF SelectWarehouse, database
<1>4. CASE NoWarehouse(r)
  BY <1>4 DEF NoWarehouse, database, locals
<1>5. CASE ReserveRow(r)
  BY <1>5 DEF ReserveRow, locals
<1>6. CASE LoseRace(r)
  BY <1>6 DEF LoseRace, locals
<1>7. CASE PlaceOrder(r)
  BY <1>7 DEF PlaceOrder, InsertOrder, locals
<1>8. CASE Charge(r)
  BY <1>8 DEF Charge, database, locals
<1>9. CASE ReleaseRow(r)
  BY <1>9 DEF ReleaseRow, locals
<1>10. CASE RecordPayment(r)
  BY <1>10 DEF RecordPayment, SettlePaid, SettleDeclined, Settle, locals
<1>11. CASE Respond(r)
  BY <1>11 DEF Respond, database, locals
<1>12. CASE Fail(r)
  BY <1>12 DEF Fail, locals
<1>13. CASE LoseAcknowledgement(r)
  BY <1>13 DEF LoseAcknowledgement, InsertOrder, SettlePaid, SettleDeclined, Settle, locals
<1>14. CASE Crash(r)
  BY <1>14 DEF Crash, locals
<1> QED
  BY <1>1, <1>2, <1>3, <1>4, <1>5, <1>6, <1>7, <1>8, <1>9, <1>10, <1>11, <1>12, <1>13, <1>14
  DEF StepOf, Proceed, Fault

\* The conjuncts of PhaseInv, PaymentMatchesOrder and AnswerTruthful for one request.
PaymentOf(r) ==
  /\ (orders[r] # NoOrder /\ orders[r].status = "paid") <=> payments[r] = "succeeded"
  /\ (orders[r] # NoOrder /\ orders[r].status = "payment_failed") <=> payments[r] = "failed"
  /\ payments[r] = "succeeded" => result[r] = "success"
  /\ payments[r] = "failed" => result[r] = "declined"

AnswerOf(r) ==
  /\ answer[r] \in {404, 409} => orders[r] = NoOrder /\ result[r] = "none"
  /\ answer[r] = 201 =>
       orders[r] # NoOrder /\ orders[r].status = "paid" /\ result[r] = "success"
  /\ answer[r] = 402 =>
       orders[r] # NoOrder /\ orders[r].status = "payment_failed" /\ result[r] = "declined"

RequestInv(r) == PhaseOf(r) /\ PaymentOf(r) /\ AnswerOf(r)

LEMMA RequestInvIsInv ==
  (\A r \in Requests : RequestInv(r)) <=> PhaseInv /\ PaymentMatchesOrder /\ AnswerTruthful
<1>1. ASSUME NEW r \in Requests
      PROVE  PaymentOf(r) <=>
        LET status == IF orders[r] = NoOrder THEN "no order" ELSE orders[r].status IN
        /\ status = "paid" <=> payments[r] = "succeeded"
        /\ status = "payment_failed" <=> payments[r] = "failed"
        /\ payments[r] = "succeeded" => result[r] = "success"
        /\ payments[r] = "failed" => result[r] = "declined"
  BY DEF PaymentOf
<1>2. (\A r \in Requests : PaymentOf(r)) <=> PaymentMatchesOrder
  BY <1>1 DEF PaymentMatchesOrder
<1>3. (\A r \in Requests : AnswerOf(r)) <=> AnswerTruthful
  BY DEF AnswerOf, AnswerTruthful
<1> QED
  BY <1>2, <1>3 DEF RequestInv, PhaseInv

LEMMA UntouchedInv ==
  ASSUME NEW s \in Requests, RequestInv(s), Untouched(s)
  PROVE  RequestInv(s)'
BY DEF RequestInv, PhaseOf, PaymentOf, AnswerOf, Untouched, Placed

\* The phase a request is in after each of its own steps.
LEMMA OwnStep ==
  ASSUME TypeOK, NEW r \in Requests, RequestInv(r), StepOf(r)
  PROVE  RequestInv(r)'
<1> USE DEF TypeOK, RequestInv, PhaseOf, PaymentOf, AnswerOf, Answer, Placed, Steps
<1>1. CASE Begin(r)
  BY <1>1 DEF Begin, database
<1>2. CASE NotFound(r)
  BY <1>2 DEF NotFound, database, locals
<1>3. CASE SelectWarehouse(r)
  BY <1>3 DEF SelectWarehouse, database
<1>4. CASE NoWarehouse(r)
  BY <1>4 DEF NoWarehouse, database, locals
<1>5. CASE ReserveRow(r)
  BY <1>5 DEF ReserveRow, locals
<1>6. CASE LoseRace(r)
  BY <1>6 DEF LoseRace, locals
<1>7. ASSUME InsertOrder(r)
      PROVE  /\ orders'[r] = Placed(r)' /\ orders'[r] # NoOrder
             /\ orders'[r].status = "pending_payment"
             /\ payments'[r] = "none" /\ result'[r] = "none" /\ answer[r] = 0
  BY <1>7, PlacedIsOrder, NoOrderAssumption DEF InsertOrder, locals
<1>8. CASE PlaceOrder(r)
  BY <1>7, <1>8 DEF PlaceOrder
<1>9. CASE Charge(r)
  BY <1>9 DEF Charge, database, locals
<1>10. CASE ReleaseRow(r)
  BY <1>10 DEF ReleaseRow, locals
<1>11. ASSUME SettlePaid(r)
       PROVE  /\ orders'[r] # NoOrder /\ orders'[r].status = "paid"
              /\ payments'[r] = "succeeded" /\ result'[r] = "success" /\ answer[r] = 0
  BY <1>11, SettledStatus DEF SettlePaid, Settle, Statuses, locals
<1>12. ASSUME SettleDeclined(r)
       PROVE  /\ orders'[r] # NoOrder /\ orders'[r].status = "payment_failed"
              /\ payments'[r] = "failed" /\ result'[r] = "declined" /\ answer[r] = 0
  BY <1>12, SettledStatus DEF SettleDeclined, Settle, Statuses, locals
<1>13. CASE RecordPayment(r)
  BY <1>11, <1>12, <1>13 DEF RecordPayment
<1>14. CASE Respond(r)
  BY <1>14 DEF Respond, database, locals
<1>15. CASE Fail(r)
  BY <1>15 DEF Fail, locals
<1>16. CASE LoseAcknowledgement(r)
  BY <1>7, <1>11, <1>12, <1>16 DEF LoseAcknowledgement
<1>17. CASE Crash(r)
  BY <1>17 DEF Crash, locals
<1> QED
  BY <1>1, <1>2, <1>3, <1>4, <1>5, <1>6, <1>8, <1>9, <1>10, <1>13, <1>14, <1>15, <1>16, <1>17
  DEF StepOf, Proceed, Fault

LEMMA StepRequests ==
  TypeOK /\ PhaseInv /\ PaymentMatchesOrder /\ AnswerTruthful /\ [Next]_vars
    => PhaseInv' /\ PaymentMatchesOrder' /\ AnswerTruthful'
<1> SUFFICES ASSUME TypeOK, \A r \in Requests : RequestInv(r), [Next]_vars
             PROVE  \A s \in Requests : RequestInv(s)'
  <2>1. ((\A r \in Requests : RequestInv(r))
           <=> PhaseInv /\ PaymentMatchesOrder /\ AnswerTruthful)'
    BY RequestInvIsInv, PTL
  <2> QED
    BY <2>1, RequestInvIsInv
<1>1. ASSUME NEW r \in Requests, StepOf(r), NEW s \in Requests PROVE RequestInv(s)'
  <2>1. CASE s = r
    BY <1>1, <2>1, OwnStep
  <2>2. CASE s # r
    BY <1>1, <2>2, OthersUntouched, UntouchedInv
  <2> QED
    BY <2>1, <2>2
<1>2. CASE UNCHANGED vars
  BY <1>2, UntouchedInv DEF vars, Untouched
<1> QED
  BY <1>1, <1>2 DEF Next, StepOf, Terminating

-----------------------------------------------------------------------------
(* Rows: only their writer disturbs them *)

LEMMA EndTransactionRows ==
  ASSUME TypeOK, RowInv, NEW r \in Requests, CommitRows(r) \/ RollbackRows(r),
         \A s \in Requests : s # r => Untouched(s)
  PROVE  RowInv'
<1> SUFFICES ASSUME NEW w \in Warehouses, NEW p \in Products PROVE RowOf(w, p)'
  BY DEF RowInv
<1>1. RowOf(w, p)
  BY DEF RowInv
<1>2. CASE rowLock[w][p] = r
  <2>1. rowLock'[w][p] = NoOne /\ pending'[w][p] = inventory'[w][p]
    BY <1>2 DEF CommitRows, RollbackRows
  <2> QED
    BY <2>1, NoOneAssumption DEF RowOf
<1>3. CASE rowLock[w][p] # r
  <2>1. /\ rowLock'[w][p] = rowLock[w][p]
        /\ pending'[w][p] = pending[w][p]
        /\ inventory'[w][p] = inventory[w][p]
    BY <1>3 DEF CommitRows, RollbackRows
  <2> QED
    BY <1>1, <1>3, <2>1 DEF RowOf, Untouched
<1> QED
  BY <1>2, <1>3

LEMMA NoRowsHeld ==
  ASSUME TypeOK, RowInv, NEW r \in Requests,
         \A w \in Warehouses, p \in Products : rowLock[w][p] # r,
         UNCHANGED <<inventory, pending, rowLock>>,
         \A s \in Requests : s # r => Untouched(s)
  PROVE  RowInv'
BY DEF RowInv, RowOf, Untouched

\* Outside its transactions, and in the second one of a charged order, a request holds no row.
LEMMA HoldsNone ==
  ASSUME RowInv, NEW r \in Requests,
         pc[r] \notin {"reserve", "settle"} \/ (pc[r] = "settle" /\ result[r] # "declined")
  PROVE  \A w \in Warehouses, p \in Products : rowLock[w][p] # r
BY DEF RowInv, RowOf

\* Writing one free row of the request's own warehouse.
LEMMA WriteRows ==
  ASSUME TypeOK, RowInv, NEW r \in Requests, NEW q \in Products, NEW n \in Nat,
         rowLock[warehouse[r]][q] = NoOne,
         cart[r][q] > 0,
         WriteRow(r, warehouse[r], q, n),
         \/ pc[r] = "reserve" /\ Enough(r, q) /\ n = inventory[warehouse[r]][q] - cart[r][q]
         \/ pc[r] = "settle" /\ result[r] = "declined"
              /\ n = inventory[warehouse[r]][q] + cart[r][q],
         \A s \in Requests : Untouched(s)
  PROVE  RowInv'
<1> SUFFICES ASSUME NEW w \in Warehouses, NEW p \in Products PROVE RowOf(w, p)'
  BY DEF RowInv
<1>1. RowOf(w, p)
  BY DEF RowInv
<1>2. warehouse[r] \in Warehouses
  BY DEF TypeOK
<1>3. CASE w = warehouse[r] /\ p = q
  <2>1. /\ rowLock'[w][p] = r
        /\ pending'[w][p] = n
        /\ inventory'[w][p] = inventory[w][p]
    BY <1>3 DEF WriteRow, TypeOK
  <2> QED
    BY <1>3, <2>1, NoOneAssumption DEF RowOf, Untouched, Enough
<1>4. CASE ~(w = warehouse[r] /\ p = q)
  <2>1. /\ rowLock'[w][p] = rowLock[w][p]
        /\ pending'[w][p] = pending[w][p]
        /\ inventory'[w][p] = inventory[w][p]
    BY <1>2, <1>4 DEF WriteRow, TypeOK
  <2> QED
    BY <1>1, <2>1 DEF RowOf, Untouched
<1> QED
  BY <1>3, <1>4

LEMMA StepRows == TypeOK /\ PhaseInv /\ RowInv /\ [Next]_vars => RowInv'
<1> SUFFICES ASSUME TypeOK, PhaseInv, RowInv, [Next]_vars PROVE RowInv'
  OBVIOUS
<1>1. ASSUME NEW r \in Requests, StepOf(r) PROVE RowInv'
  <2>1. \A s \in Requests : s # r => Untouched(s)
    BY <1>1, OthersUntouched
  <2>2. ASSUME CommitRows(r) \/ RollbackRows(r) PROVE RowInv'
    BY <2>1, <2>2, EndTransactionRows
  <2>3. ASSUME UNCHANGED <<inventory, pending, rowLock>>,
               pc[r] \notin {"reserve", "settle"}
        PROVE  RowInv'
    BY <2>1, <2>3, HoldsNone, NoRowsHeld
  <2>4. CASE Begin(r) \/ NotFound(r) \/ SelectWarehouse(r) \/ NoWarehouse(r) \/ Charge(r)
               \/ Respond(r)
    BY <2>3, <2>4
    DEF Begin, NotFound, SelectWarehouse, NoWarehouse, Charge, Respond, database
  <2>5. CASE ReserveRow(r)
    <3>1. PICK q \in Products :
            /\ IsNextRow(r, q)
            /\ rowLock[warehouse[r]][q] = NoOne
            /\ Enough(r, q)
            /\ WriteRow(r, warehouse[r], q, inventory[warehouse[r]][q] - cart[r][q])
      BY <2>5 DEF ReserveRow
    <3>2. cart[r][q] > 0
      BY <3>1 DEF IsNextRow, RowsLeft
    <3>3. Untouched(r)
      BY <2>5 DEF ReserveRow, Untouched, locals
    <3>4. pc[r] = "reserve" /\ \A s \in Requests : Untouched(s)
      BY <2>1, <2>5, <3>3 DEF ReserveRow
    <3> QED
      BY <3>1, <3>2, <3>4, QuantityIsNat, WriteRows
  <2>6. CASE ReleaseRow(r)
    <3>1. PICK q \in Products :
            /\ IsNextRow(r, q)
            /\ rowLock[warehouse[r]][q] = NoOne
            /\ WriteRow(r, warehouse[r], q, inventory[warehouse[r]][q] + cart[r][q])
      BY <2>6 DEF ReleaseRow
    <3>2. cart[r][q] > 0
      BY <3>1 DEF IsNextRow, RowsLeft
    <3>3. Untouched(r)
      BY <2>6 DEF ReleaseRow, Untouched, locals
    <3>4. pc[r] = "settle" /\ result[r] = "declined" /\ \A s \in Requests : Untouched(s)
      BY <2>1, <2>6, <3>3 DEF ReleaseRow
    <3> QED
      BY <3>1, <3>2, <3>4, QuantityIsNat, WriteRows
  <2>7. CASE LoseRace(r) \/ Fail(r) \/ Crash(r)
    BY <2>2, <2>7 DEF LoseRace, Fail, Crash
  <2>8. CASE PlaceOrder(r) \/ RecordPayment(r) \/ LoseAcknowledgement(r)
    BY <2>2, <2>8 DEF PlaceOrder, InsertOrder, RecordPayment, SettlePaid, SettleDeclined,
                      Settle, LoseAcknowledgement
  <2> QED
    BY <1>1, <2>4, <2>5, <2>6, <2>7, <2>8 DEF StepOf, Proceed, Fault
<1>2. CASE UNCHANGED vars
  BY <1>2 DEF vars, RowInv, RowOf
<1> QED
  BY <1>1, <1>2 DEF Next, StepOf, Terminating

-----------------------------------------------------------------------------
(* Theorems *)

LEMMA InitInv == Init => IInv
<1> SUFFICES ASSUME Init PROVE IInv
  OBVIOUS
<1>1. PhaseInv
  BY DEF Init, PhaseInv, PhaseOf
<1>2. RowInv
  BY NoOneAssumption DEF Init, RowInv, RowOf
<1>3. PaymentMatchesOrder /\ AnswerTruthful
  BY DEF Init, PaymentMatchesOrder, AnswerTruthful
<1> QED
  BY <1>1, <1>2, <1>3, InitTypes DEF IInv

LEMMA StepInv == IInv /\ [Next]_vars => IInv'
BY StepTypes, StepRequests, StepRows DEF IInv

THEOREM Invariance == Spec => []IInv
BY InitInv, StepInv, PTL DEF Spec

(***************************************************************************)
(* Every variable keeps its type: above all, no inventory row, committed   *)
(* or not, ever holds a negative quantity.                                 *)
(***************************************************************************)
THEOREM Types == Spec => []TypeOK
<1>1. IInv => TypeOK
  BY DEF IInv
<1> QED
  BY <1>1, Invariance, PTL

(***************************************************************************)
(* orders, payments and the gateway agree on every sale, for any number of *)
(* concurrent requests and through lost commits and killed workers.        *)
(***************************************************************************)
THEOREM PaymentsMatchOrders == Spec => []PaymentMatchesOrder
<1>1. IInv => PaymentMatchesOrder
  BY DEF IInv
<1> QED
  BY <1>1, Invariance, PTL

(***************************************************************************)
(* What a 201, 402, 404 or 409 tells the client is what the database says. *)
(***************************************************************************)
THEOREM AnswersAreTruthful == Spec => []AnswerTruthful
<1>1. IInv => AnswerTruthful
  BY DEF IInv
<1> QED
  BY <1>1, Invariance, PTL

(***************************************************************************)
(* No inventory row stays locked outside the two transactions of           *)
(* create_order, so none is locked while a card is charged.                *)
(***************************************************************************)
THEOREM LocksAreTransactional == Spec => []LocksOnlyInTransactions
<1>1. IInv => LocksOnlyInTransactions
  BY DEF IInv, RowInv, RowOf, LocksOnlyInTransactions
<1> QED
  BY <1>1, Invariance, PTL

-----------------------------------------------------------------------------
(* Refinement of Fulfilment *)

\* The COMMIT of phase 1 takes exactly the cart out of the chosen warehouse.
LEMMA InsertOrderPlaces ==
  ASSUME IInv, NEW r \in Requests, InsertOrder(r)
  PROVE  Ledger!Place(r)
<1> DEFINE w == warehouse[r]
           items == cart[r]
<1>1. TypeOK /\ w \in Warehouses /\ items \in Carts /\ items \in [Products -> Nat]
  BY CartsAssumption DEF IInv, TypeOK
<1>2. orders[r] = NoOrder
  BY DEF IInv, PhaseInv, PhaseOf, InsertOrder
<1>3. ASSUME NEW p \in Products, items[p] > 0
      PROVE  /\ rowLock[w][p] = r
             /\ inventory[w][p] >= items[p]
             /\ pending[w][p] = inventory[w][p] - items[p]
  <2>1. rowLock[w][p] = r
    BY <1>3 DEF InsertOrder, RowsLeft
  <2> QED
    BY <1>1, <2>1 DEF IInv, RowInv, RowOf, InsertOrder
<1>4. ASSUME NEW v \in Warehouses, NEW p \in Products, v # w \/ ~(items[p] > 0)
      PROVE  rowLock[v][p] # r
  BY <1>4 DEF IInv, RowInv, RowOf
<1>5. Ledger!InStock(w, items)
  <2>1. ASSUME NEW p \in Products PROVE inventory[w][p] >= items[p]
    BY <1>1, <1>3 DEF TypeOK
  <2> QED
    BY <2>1 DEF Ledger!InStock
<1>6. inventory' = [inventory EXCEPT ![w] = [p \in Products |-> @[p] - items[p]]]
  <2> DEFINE placed == [inventory EXCEPT ![w] = [p \in Products |-> @[p] - items[p]]]
  <2>1. inventory' = [v \in Warehouses |-> [p \in Products |->
                        IF rowLock[v][p] = r THEN pending[v][p] ELSE inventory[v][p]]]
    BY DEF InsertOrder, CommitRows
  <2>2. ASSUME NEW v \in Warehouses PROVE inventory'[v] = placed[v]
    <3>1. CASE v = w
      <4>1. ASSUME NEW p \in Products
            PROVE  (IF rowLock[v][p] = r THEN pending[v][p] ELSE inventory[v][p])
                     = inventory[w][p] - items[p]
        <5>1. inventory[w][p] \in Nat /\ items[p] \in Nat
          BY <1>1 DEF TypeOK
        <5>2. CASE items[p] > 0
          BY <1>3, <3>1, <5>2
        <5>3. CASE ~(items[p] > 0)
          BY <1>4, <3>1, <5>1, <5>3
        <5> QED
          BY <5>2, <5>3
      <4>2. placed[v] = [p \in Products |-> inventory[w][p] - items[p]]
        BY <1>1, <3>1 DEF TypeOK
      <4>3. inventory'[v] = [p \in Products |->
              IF rowLock[v][p] = r THEN pending[v][p] ELSE inventory[v][p]]
        BY <2>1
      <4> QED
        BY <4>1, <4>2, <4>3
    <3>2. CASE v # w
      <4>1. placed[v] = inventory[v]
        BY <1>1, <3>2 DEF TypeOK
      <4>2. inventory'[v] = [p \in Products |-> inventory[v][p]]
        BY <1>4, <2>1, <3>2
      <4>3. inventory[v] \in [Products -> Nat]
        BY <1>1 DEF TypeOK
      <4> QED
        BY <4>1, <4>2, <4>3
    <3> QED
      BY <3>1, <3>2
  <2>3. placed \in [Warehouses -> {placed[v] : v \in Warehouses}]
    BY <1>1 DEF TypeOK
  <2> HIDE DEF placed
  <2>4. inventory' = placed
    BY <2>1, <2>2, <2>3
  <2> QED
    BY <2>4 DEF placed
<1>7. orders' = [orders EXCEPT ![r] =
        [status |-> "pending_payment", warehouse |-> w, items |-> items]]
  BY DEF InsertOrder
<1> QED
  BY <1>1, <1>2, <1>5, <1>6, <1>7 DEF Ledger!Place

\* The COMMIT of a charged order touches no stock.
LEMMA SettlePaidSettles ==
  ASSUME IInv, NEW r \in Requests, SettlePaid(r)
  PROVE  Ledger!Settle(r)
<1>1. \A w \in Warehouses, p \in Products : rowLock[w][p] # r
  BY HoldsNone DEF IInv, SettlePaid
<1>2. inventory' = [w \in Warehouses |-> [p \in Products |-> inventory[w][p]]]
  BY <1>1 DEF SettlePaid, Settle, CommitRows
<1>3. inventory' = inventory
  BY <1>2 DEF IInv, TypeOK
<1>4. orders[r] = Placed(r)
  BY DEF IInv, PhaseInv, PhaseOf, SettlePaid
<1>5. orders[r] # NoOrder /\ orders[r].status = "pending_payment"
  BY <1>4, PlacedIsOrder, NoOrderAssumption DEF Placed, IInv
<1> QED
  BY <1>3, <1>5 DEF SettlePaid, Settle, Ledger!Settle

\* The COMMIT of a declined order puts back exactly its items.
LEMMA SettleDeclinedRefunds ==
  ASSUME IInv, NEW r \in Requests, SettleDeclined(r)
  PROVE  Ledger!Refund(r)
<1> DEFINE w == warehouse[r]
           items == cart[r]
<1>1. TypeOK /\ w \in Warehouses /\ items \in [Products -> Nat]
  BY CartsAssumption DEF IInv, TypeOK
<1>2. /\ orders[r] = Placed(r)
      /\ orders[r] # NoOrder
      /\ orders[r].status = "pending_payment"
      /\ orders[r].warehouse = w
      /\ orders[r].items = items
  <2>1. orders[r] = Placed(r)
    BY DEF IInv, PhaseInv, PhaseOf, SettleDeclined
  <2> QED
    BY <1>1, <2>1, PlacedIsOrder, NoOrderAssumption DEF Placed
<1>3. ASSUME NEW p \in Products, items[p] > 0
      PROVE  rowLock[w][p] = r /\ pending[w][p] = inventory[w][p] + items[p]
  <2>1. rowLock[w][p] = r
    BY <1>3 DEF SettleDeclined, RowsLeft
  <2> QED
    BY <1>1, <2>1 DEF IInv, RowInv, RowOf, SettleDeclined
<1>4. ASSUME NEW v \in Warehouses, NEW p \in Products, v # w \/ ~(items[p] > 0)
      PROVE  rowLock[v][p] # r
  BY <1>4 DEF IInv, RowInv, RowOf
<1>5. inventory' = [inventory EXCEPT ![w] = [p \in Products |-> @[p] + items[p]]]
  <2> DEFINE refunded == [inventory EXCEPT ![w] = [p \in Products |-> @[p] + items[p]]]
  <2>1. inventory' = [v \in Warehouses |-> [p \in Products |->
                        IF rowLock[v][p] = r THEN pending[v][p] ELSE inventory[v][p]]]
    BY DEF SettleDeclined, Settle, CommitRows
  <2>2. ASSUME NEW v \in Warehouses PROVE inventory'[v] = refunded[v]
    <3>1. CASE v = w
      <4>1. ASSUME NEW p \in Products
            PROVE  (IF rowLock[v][p] = r THEN pending[v][p] ELSE inventory[v][p])
                     = inventory[w][p] + items[p]
        <5>1. inventory[w][p] \in Nat /\ items[p] \in Nat
          BY <1>1 DEF TypeOK
        <5>2. CASE items[p] > 0
          BY <1>3, <3>1, <5>2
        <5>3. CASE ~(items[p] > 0)
          BY <1>4, <3>1, <5>1, <5>3
        <5> QED
          BY <5>2, <5>3
      <4>2. refunded[v] = [p \in Products |-> inventory[w][p] + items[p]]
        BY <1>1, <3>1 DEF TypeOK
      <4>3. inventory'[v] = [p \in Products |->
              IF rowLock[v][p] = r THEN pending[v][p] ELSE inventory[v][p]]
        BY <2>1
      <4> QED
        BY <4>1, <4>2, <4>3
    <3>2. CASE v # w
      <4>1. refunded[v] = inventory[v]
        BY <1>1, <3>2 DEF TypeOK
      <4>2. inventory'[v] = [p \in Products |-> inventory[v][p]]
        BY <1>4, <2>1, <3>2
      <4>3. inventory[v] \in [Products -> Nat]
        BY <1>1 DEF TypeOK
      <4> QED
        BY <4>1, <4>2, <4>3
    <3> QED
      BY <3>1, <3>2
  <2>3. refunded \in [Warehouses -> {refunded[v] : v \in Warehouses}]
    BY <1>1 DEF TypeOK
  <2> HIDE DEF refunded
  <2>4. inventory' = refunded
    BY <2>1, <2>2, <2>3
  <2> QED
    BY <2>4 DEF refunded
<1>6. orders' = [orders EXCEPT ![r].status = "payment_failed"]
  BY DEF SettleDeclined, Settle
<1> QED
  BY <1>2, <1>5, <1>6 DEF Ledger!Refund

LEMMA InitRefines == Init => Ledger!Init
BY DEF Init, Ledger!Init

LEMMA StepRefines == IInv /\ [Next]_vars => [Ledger!Next]_Ledger!vars
<1> SUFFICES ASSUME IInv, [Next]_vars PROVE [Ledger!Next]_Ledger!vars
  OBVIOUS
<1>1. ASSUME NEW r \in Requests, InsertOrder(r) \/ SettlePaid(r) \/ SettleDeclined(r)
      PROVE  Ledger!Next
  BY <1>1, InsertOrderPlaces, SettlePaidSettles, SettleDeclinedRefunds DEF Ledger!Next
<1>2. ASSUME UNCHANGED <<inventory, orders>> PROVE UNCHANGED Ledger!vars
  BY <1>2 DEF Ledger!vars
<1>3. ASSUME NEW r \in Requests, StepOf(r) PROVE [Ledger!Next]_Ledger!vars
  <2>1. CASE PlaceOrder(r) \/ RecordPayment(r) \/ LoseAcknowledgement(r)
    BY <1>1, <2>1 DEF PlaceOrder, RecordPayment, LoseAcknowledgement
  <2>2. CASE Begin(r) \/ NotFound(r) \/ SelectWarehouse(r) \/ NoWarehouse(r) \/ Charge(r)
               \/ Respond(r)
    BY <1>2, <2>2
    DEF Begin, NotFound, SelectWarehouse, NoWarehouse, Charge, Respond, database
  <2>3. CASE ReserveRow(r) \/ ReleaseRow(r)
    BY <1>2, <2>3 DEF ReserveRow, ReleaseRow, WriteRow
  <2>4. CASE LoseRace(r) \/ Fail(r) \/ Crash(r)
    BY <1>2, <2>4 DEF LoseRace, Fail, Crash, RollbackRows
  <2> QED
    BY <1>3, <2>1, <2>2, <2>3, <2>4 DEF StepOf, Proceed, Fault
<1>4. CASE UNCHANGED vars
  BY <1>2, <1>4 DEF vars
<1> QED
  BY <1>3, <1>4 DEF Next, StepOf, Terminating

(***************************************************************************)
(* create_order, with all its interleavings and faults, implements the     *)
(* one-step transactions of Fulfilment.                                    *)
(***************************************************************************)
THEOREM Refinement == Spec => ImplementsLedger
BY InitRefines, StepRefines, Invariance, PTL DEF Spec, ImplementsLedger, Ledger!Spec

-----------------------------------------------------------------------------
(* Conservation, carried over from Fulfilment *)

Proved == INSTANCE FulfilmentProofs WITH stock <- inventory

\* What FulfilmentProofs assumes of the constants holds of these constants.
LEMMA AbstractInit == Ledger!Init => Proved!IInv
<1>1. Proved!Init => Proved!IInv
  BY Zenon, Proved!InitConserved, RequestsAssumption, ProductsAssumption, CartsAssumption,
     StockAssumption, NoOrderAssumption
  DEF Order, Statuses, Proved!Order, Proved!Statuses, Proved!IsFiniteSet, IsFiniteSet
<1> QED
  BY <1>1 DEF Ledger!Init, Proved!Init

LEMMA AbstractStep ==
  Proved!IInv /\ Proved!TypeOK' /\ [Ledger!Next]_Ledger!vars => Proved!IInv'
<1>1. Proved!IInv /\ Proved!TypeOK' /\ [Proved!Next]_Proved!vars => Proved!IInv'
  BY Proved!StepConserved, RequestsAssumption, ProductsAssumption, CartsAssumption,
     StockAssumption, NoOrderAssumption
  DEF Order, Statuses, Proved!Order, Proved!Statuses, Proved!IsFiniteSet, IsFiniteSet
<1>2. Ledger!Next => Proved!Next
  BY DEF Ledger!Next, Proved!Next, Ledger!Place, Proved!Place, Ledger!Settle, Proved!Settle,
         Ledger!Refund, Proved!Refund, Ledger!InStock, Proved!InStock
<1> QED
  BY <1>1, <1>2 DEF Ledger!vars, Proved!vars

LEMMA AbstractTypes == TypeOK => Proved!TypeOK
BY DEF TypeOK, Order, Statuses, Proved!TypeOK, Proved!Order, Proved!Statuses

(***************************************************************************)
(* No interleaving, fault or crash of create_order loses or duplicates a   *)
(* unit of stock.                                                          *)
(***************************************************************************)
THEOREM Conservation == Spec => []StockConserved
<1>1. Init => Proved!IInv
  BY InitRefines, AbstractInit
<1>2. IInv /\ IInv' /\ Proved!IInv /\ [Next]_vars => Proved!IInv'
  <2>1. TypeOK' => Proved!TypeOK'
    BY AbstractTypes, PTL
  <2> QED
    BY <2>1, StepRefines, AbstractStep DEF IInv
<1>3. Proved!IInv => StockConserved
  BY DEF Proved!IInv, Proved!Conserved, StockConserved, Ledger!Conserved,
         Proved!HeldUnits, Ledger!HeldUnits, Proved!Holders, Ledger!Holders,
         Proved!Cardinality, Ledger!Cardinality
<1> QED
  BY <1>1, <1>2, <1>3, Invariance, PTL DEF Spec

-----------------------------------------------------------------------------
(* Rows are locked in the order of the products *)

\* Whatever row a request has written comes before all rows it still has to write.
LockOrder ==
  \A r \in Requests, w \in Warehouses, p \in Products :
    rowLock[w][p] = r => \A q \in RowsLeft(r) : p < q

LEMMA RowsLeftIn == ASSUME NEW r \in Requests PROVE RowsLeft(r) \subseteq Products
BY DEF RowsLeft

\* Writing the next row keeps the order.
LEMMA WriteKeepsOrder ==
  ASSUME IInv, LockOrder, NEW r \in Requests, NEW q \in Products, NEW n \in Nat,
         IsNextRow(r, q),
         rowLock[warehouse[r]][q] = NoOne,
         WriteRow(r, warehouse[r], q, n),
         \A s \in Requests : Untouched(s)
  PROVE  LockOrder'
<1> SUFFICES ASSUME NEW s \in Requests, NEW w \in Warehouses, NEW p \in Products,
                    rowLock'[w][p] = s, NEW t \in RowsLeft(s)'
             PROVE  p < t
  BY DEF LockOrder
<1>1. TypeOK /\ warehouse[r] \in Warehouses /\ warehouse[s] \in Warehouses
  BY DEF IInv, TypeOK
<1>2. /\ cart'[s] = cart[s] /\ warehouse'[s] = warehouse[s]
      /\ \A v \in Warehouses, u \in Products :
           rowLock'[v][u] = IF v = warehouse[r] /\ u = q THEN r ELSE rowLock[v][u]
  BY <1>1 DEF WriteRow, TypeOK, Untouched
<1>3. t \in Products /\ t \in RowsLeft(s)
  BY <1>1, <1>2, NoOneAssumption DEF RowsLeft
<1>4. CASE rowLock[w][p] = s
  BY <1>3, <1>4 DEF LockOrder
<1>5. CASE rowLock[w][p] # s
  <2>1. s = r /\ p = q /\ w = warehouse[r]
    BY <1>2, <1>5
  <2>2. t # q
    BY <1>1, <1>2, <2>1 DEF RowsLeft
  <2>3. q <= t
    BY <1>3, <2>1 DEF IsNextRow
  <2> QED
    BY <1>3, <2>1, <2>2, <2>3, ProductsAssumption
<1> QED
  BY <1>4, <1>5

\* A COMMIT or ROLLBACK gives up all rows of one request.
LEMMA EndKeepsOrder ==
  ASSUME TypeOK, LockOrder, NEW r \in Requests, CommitRows(r) \/ RollbackRows(r),
         \A s \in Requests : s # r => Untouched(s)
  PROVE  LockOrder'
<1> SUFFICES ASSUME NEW s \in Requests, NEW w \in Warehouses, NEW p \in Products,
                    rowLock'[w][p] = s, NEW t \in RowsLeft(s)'
             PROVE  p < t
  BY DEF LockOrder
<1>1. \A v \in Warehouses, u \in Products :
        rowLock'[v][u] = IF rowLock[v][u] = r THEN NoOne ELSE rowLock[v][u]
  BY DEF CommitRows, RollbackRows
<1>2. s # r /\ rowLock[w][p] = s /\ Untouched(s) /\ warehouse[s] \in Warehouses
  BY <1>1, NoOneAssumption DEF TypeOK
<1>3. t \in RowsLeft(s)
  BY <1>1, <1>2, NoOneAssumption DEF RowsLeft, Untouched
<1> QED
  BY <1>2, <1>3 DEF LockOrder

\* A request that holds no row may change its cart and its warehouse.
LEMMA NoRowsKeepOrder ==
  ASSUME LockOrder, NEW r \in Requests, UNCHANGED <<inventory, pending, rowLock>>,
         \A w \in Warehouses, p \in Products : rowLock[w][p] # r,
         \A s \in Requests : s # r => Untouched(s)
  PROVE  LockOrder'
BY DEF LockOrder, RowsLeft, Untouched

LEMMA StepOrder == IInv /\ LockOrder /\ [Next]_vars => LockOrder'
<1> SUFFICES ASSUME IInv, LockOrder, [Next]_vars PROVE LockOrder'
  OBVIOUS
<1>0. TypeOK /\ RowInv
  BY DEF IInv
<1>1. ASSUME NEW r \in Requests, StepOf(r) PROVE LockOrder'
  <2>1. \A s \in Requests : s # r => Untouched(s)
    BY <1>0, <1>1, OthersUntouched
  <2>2. ASSUME CommitRows(r) \/ RollbackRows(r) PROVE LockOrder'
    BY <1>0, <2>1, <2>2, EndKeepsOrder
  <2>3. ASSUME UNCHANGED <<inventory, pending, rowLock>>,
               pc[r] \notin {"reserve", "settle"}
        PROVE  LockOrder'
    BY <1>0, <2>1, <2>3, HoldsNone, NoRowsKeepOrder
  <2>4. CASE Begin(r) \/ NotFound(r) \/ SelectWarehouse(r) \/ NoWarehouse(r) \/ Charge(r)
               \/ Respond(r)
    BY <2>3, <2>4
    DEF Begin, NotFound, SelectWarehouse, NoWarehouse, Charge, Respond, database
  <2>5. CASE ReserveRow(r)
    <3>1. PICK q \in Products :
            /\ IsNextRow(r, q)
            /\ rowLock[warehouse[r]][q] = NoOne
            /\ Enough(r, q)
            /\ WriteRow(r, warehouse[r], q, inventory[warehouse[r]][q] - cart[r][q])
      BY <2>5 DEF ReserveRow
    <3>2. \A s \in Requests : Untouched(s)
      BY <2>1, <2>5 DEF ReserveRow, Untouched, locals
    <3> QED
      BY <1>0, <3>1, <3>2, QuantityIsNat, WriteKeepsOrder
  <2>6. CASE ReleaseRow(r)
    <3>1. PICK q \in Products :
            /\ IsNextRow(r, q)
            /\ rowLock[warehouse[r]][q] = NoOne
            /\ WriteRow(r, warehouse[r], q, inventory[warehouse[r]][q] + cart[r][q])
      BY <2>6 DEF ReleaseRow
    <3>2. \A s \in Requests : Untouched(s)
      BY <2>1, <2>6 DEF ReleaseRow, Untouched, locals
    <3> QED
      BY <1>0, <3>1, <3>2, QuantityIsNat, WriteKeepsOrder
  <2>7. CASE LoseRace(r) \/ Fail(r) \/ Crash(r)
    BY <2>2, <2>7 DEF LoseRace, Fail, Crash
  <2>8. CASE PlaceOrder(r) \/ RecordPayment(r) \/ LoseAcknowledgement(r)
    BY <2>2, <2>8 DEF PlaceOrder, InsertOrder, RecordPayment, SettlePaid, SettleDeclined,
                      Settle, LoseAcknowledgement
  <2> QED
    BY <1>1, <2>4, <2>5, <2>6, <2>7, <2>8 DEF StepOf, Proceed, Fault
<1>2. CASE UNCHANGED vars
  BY <1>2 DEF vars, LockOrder, RowsLeft
<1> QED
  BY <1>1, <1>2 DEF Next, StepOf, Terminating

LEMMA InitOrder == Init => LockOrder
BY NoOneAssumption DEF Init, LockOrder

-----------------------------------------------------------------------------
(* Hence no cycle: among requests that all wait for each other, take one    *)
(* whose next row has the fewest rows beyond it; whoever holds that row     *)
(* waits for a later one.                                                   *)

Beyond(p) == {q \in Products : q > p}

LEMMA OrderExcludesCycles == TypeOK /\ LockOrder => NoWaitCycle
<1> SUFFICES ASSUME TypeOK, LockOrder, NEW S \in (SUBSET Requests) \ {{}},
                    \A r \in S : \E s \in S : WaitsFor(r, s)
             PROVE  FALSE
  BY DEF NoWaitCycle
<1> DEFINE T == {Beyond(p) : p \in {q \in Products : \E r \in S : IsNextRow(r, q)}}
<1>1. IsWellFoundedOn(StrictSubsetOrdering(Products), SUBSET Products)
  BY FS_StrictSubsetOrderingWellFounded, FS_FiniteSubsetsOfFinite, ProductsAssumption
<1>2. T \subseteq SUBSET Products
  BY DEF Beyond
<1>3. T # {}
  BY DEF WaitsFor
<1> HIDE DEF T
<1>4. PICK B \in T : \A C \in T : <<C, B>> \notin StrictSubsetOrdering(Products)
  BY <1>1, <1>2, <1>3, WFMin
<1> USE DEF T
<1>5. PICK p \in Products, r \in S : IsNextRow(r, p) /\ B = Beyond(p)
  BY <1>4
<1>6. PICK s \in S, o \in Products : IsNextRow(r, o) /\ rowLock[warehouse[r]][o] = s
  BY DEF WaitsFor
<1>7. o = p
  <2>1. o \in RowsLeft(r) /\ p \in RowsLeft(r) /\ o <= p /\ p <= o
    BY <1>5, <1>6 DEF IsNextRow
  <2> QED
    BY <2>1, ProductsAssumption
<1>8. PICK q \in Products : IsNextRow(s, q)
  BY DEF WaitsFor
<1>9. p < q
  BY <1>6, <1>7, <1>8 DEF LockOrder, IsNextRow, TypeOK
<1>10. /\ Beyond(q) \in T
       /\ Beyond(q) \subseteq Beyond(p)
       /\ q \in Beyond(p) /\ q \notin Beyond(q)
  <2>1. q \in {o2 \in Products : \E r2 \in S : IsNextRow(r2, o2)}
    BY <1>6, <1>8
  <2>2. p \in Nat /\ q \in Nat
    BY ProductsAssumption
  <2>3. Beyond(q) \subseteq Beyond(p)
    <3> SUFFICES ASSUME NEW x \in Products, x > q
                 PROVE  x > p
      BY DEF Beyond
    <3> QED
      BY <1>9, <2>2, ProductsAssumption
  <2>4. q \in Beyond(p) /\ q \notin Beyond(q)
    BY <1>9, <2>2 DEF Beyond
  <2>5. Beyond(q) \in T
    BY <2>1, Zenon
  <2> QED
    BY <2>3, <2>4, <2>5
<1>11. <<Beyond(q), B>> \in StrictSubsetOrdering(Products)
  BY <1>5, <1>10 DEF StrictSubsetOrdering, Beyond
<1> QED
  BY <1>4, <1>10, <1>11

(***************************************************************************)
(* However many requests reserve and return rows at once, no set of them   *)
(* waits for itself: Postgres never has a deadlock to resolve.             *)
(***************************************************************************)
THEOREM NoDeadlockedTransactions == Spec => []NoWaitCycle
<1>1. Spec => [](IInv /\ LockOrder)
  BY InitInv, StepInv, InitOrder, StepOrder, PTL DEF Spec
<1>2. IInv /\ LockOrder => NoWaitCycle
  BY OrderExcludesCycles DEF IInv
<1> QED
  BY <1>1, <1>2, PTL

-----------------------------------------------------------------------------
(* Conflicts *)

NothingReturned == \A r \in Requests : payments[r] # "failed"

\* Unless units are returned, what a step commits is no more than what was there.
LEMMA StockShrinks ==
  ASSUME IInv, NEW r \in Requests, StepOf(r), NothingReturned',
         NEW w \in Warehouses, NEW p \in Products
  PROVE  inventory'[w][p] <= inventory[w][p]
<1>1. /\ TypeOK /\ RowOf(w, p) /\ inventory[w][p] \in Nat
      /\ \A s \in Requests : cart[s] \in [Products -> Nat]
  BY CartsAssumption DEF IInv, RowInv, TypeOK
<1>2. CASE inventory' = inventory
  BY <1>1, <1>2
<1>3. ASSUME CommitRows(r), ~(pc[r] = "settle" /\ result[r] = "declined")
      PROVE  inventory'[w][p] <= inventory[w][p]
  <2>1. inventory'[w][p] = IF rowLock[w][p] = r THEN pending[w][p] ELSE inventory[w][p]
    BY <1>3 DEF CommitRows
  <2> QED
    BY <1>1, <1>3, <2>1 DEF RowOf
<1>4. ~SettleDeclined(r)
  BY <1>1 DEF SettleDeclined, Settle, NothingReturned, TypeOK
<1>5. CASE PlaceOrder(r) \/ RecordPayment(r) \/ LoseAcknowledgement(r)
  BY <1>3, <1>4, <1>5
  DEF PlaceOrder, InsertOrder, RecordPayment, SettlePaid, Settle, LoseAcknowledgement
<1>6. CASE Begin(r) \/ NotFound(r) \/ SelectWarehouse(r) \/ NoWarehouse(r) \/ Charge(r)
             \/ Respond(r)
  BY <1>2, <1>6 DEF Begin, NotFound, SelectWarehouse, NoWarehouse, Charge, Respond, database
<1>7. CASE ReserveRow(r) \/ ReleaseRow(r)
  BY <1>2, <1>7 DEF ReserveRow, ReleaseRow, WriteRow
<1>8. CASE LoseRace(r) \/ Fail(r) \/ Crash(r)
  BY <1>2, <1>8 DEF LoseRace, Fail, Crash, RollbackRows
<1> QED
  BY <1>5, <1>6, <1>7, <1>8 DEF StepOf, Proceed, Fault

\* A request that is answered 409 was short of stock when it was.
LEMMA ConflictMeansShort ==
  ASSUME IInv, NEW r \in Requests, NEW s \in Requests, StepOf(r),
         answer'[s] = 409, answer[s] # 409
  PROVE  \E w \in Warehouses : ~Eligible(w, cart[s])
<1>1. TypeOK
  BY DEF IInv
<1>2. s = r
  BY <1>1, OthersUntouched DEF Untouched
<1>3. NoWarehouse(r) \/ LoseRace(r)
  BY <1>1, <1>2
  DEF StepOf, Proceed, Fault, Begin, NotFound, SelectWarehouse, ReserveRow, PlaceOrder, Charge,
      ReleaseRow, RecordPayment, Respond, Fail, LoseAcknowledgement, Crash, Answer, TypeOK
<1>4. CASE NoWarehouse(r)
  BY <1>2, <1>4, WarehousesAssumption DEF NoWarehouse
<1>5. CASE LoseRace(r)
  <2>1. PICK p \in Products : ~(inventory[warehouse[r]][p] >= cart[r][p])
    BY <1>5 DEF LoseRace, Enough
  <2> QED
    BY <1>1, <1>2, <2>1 DEF Eligible, TypeOK
<1> QED
  BY <1>3, <1>4, <1>5

LEMMA StepConflicts == IInv /\ ConflictJustified /\ [Next]_vars => ConflictJustified'
<1> SUFFICES ASSUME IInv, ConflictJustified, [Next]_vars, NothingReturned',
                    NEW s \in Requests, answer'[s] = 409
             PROVE  \E w \in Warehouses : ~Eligible(w, cart[s])'
  BY DEF ConflictJustified, NothingReturned
<1>0. TypeOK
  BY DEF IInv
<1>1. ASSUME NEW r \in Requests, StepOf(r)
      PROVE  \E w \in Warehouses : ~Eligible(w, cart[s])'
  <2>1. NothingReturned
    BY <1>0, <1>1, OthersUntouched
    DEF NothingReturned, Untouched, StepOf, Proceed, Fault, Begin, NotFound, SelectWarehouse,
        NoWarehouse, ReserveRow, LoseRace, PlaceOrder, InsertOrder, Charge, ReleaseRow,
        RecordPayment, SettlePaid, SettleDeclined, Settle, Respond, Fail, LoseAcknowledgement,
        Crash, database, IInv, PhaseInv, PhaseOf
  <2>2. PICK w \in Warehouses : ~Eligible(w, cart[s])
    BY <1>1, <2>1, ConflictMeansShort DEF ConflictJustified, NothingReturned
  <2>3. PICK p \in Products : ~(inventory[w][p] >= cart[s][p])
    BY <2>2 DEF Eligible
  <2>4. cart'[s] = cart[s]
    <3>1. CASE s # r
      BY <1>0, <1>1, <3>1, OthersUntouched DEF Untouched
    <3>2. CASE s = r
      BY <1>0, <1>1, <3>2
      DEF StepOf, Proceed, Fault, Begin, NotFound, SelectWarehouse, NoWarehouse, ReserveRow,
          LoseRace, PlaceOrder, InsertOrder, Charge, ReleaseRow, RecordPayment, SettlePaid,
          SettleDeclined, Settle, Respond, Fail, LoseAcknowledgement, Crash, locals,
          IInv, PhaseInv, PhaseOf, TypeOK
    <3> QED
      BY <3>1, <3>2
  <2>5. /\ inventory'[w][p] <= inventory[w][p]
        /\ inventory[w][p] \in Nat /\ inventory'[w][p] \in Nat /\ cart[s][p] \in Nat
    <3>1. TypeOK'
      BY StepInv DEF IInv
    <3> QED
      BY <1>0, <1>1, <3>1, StockShrinks, CartsAssumption DEF TypeOK
  <2> QED
    BY <2>3, <2>4, <2>5 DEF Eligible
<1>2. CASE UNCHANGED vars
  BY <1>2 DEF vars, ConflictJustified, NothingReturned, Eligible
<1> QED
  BY <1>1, <1>2 DEF Next, StepOf, Terminating

(***************************************************************************)
(* As long as nothing has been returned, every 409 is the fault of the     *)
(* stock and not of a transaction that was rolled back.                    *)
(***************************************************************************)
THEOREM ConflictsAreJustified == Spec => []ConflictJustified
<1>1. Init => ConflictJustified
  BY DEF Init, ConflictJustified
<1> QED
  BY <1>1, StepConflicts, Invariance, InitInv, StepInv, PTL DEF Spec
=============================================================================
