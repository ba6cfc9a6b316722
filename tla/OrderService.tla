---------------------------- MODULE OrderService ----------------------------
(***************************************************************************)
(* OrderService.create_order (src/app/services/order_service.py) run by    *)
(* several requests at once, over the tables it writes.                    *)
(*                                                                         *)
(* Every transaction is taken apart at the points where Postgres lets      *)
(* another transaction in: the SELECT that picks a warehouse sees only     *)
(* what is committed, every UPDATE of an inventory row waits for the       *)
(* transaction that wrote the row last, and nothing else is visible before *)
(* COMMIT.  The charge lies between the two transactions and holds no      *)
(* lock.  Any statement may raise, a COMMIT may succeed although the       *)
(* client of the database never learns it, and a worker may be killed.     *)
(***************************************************************************)
EXTENDS Naturals, FiniteSets

CONSTANTS
  Requests,      \* POST /orders calls, each with a database connection of its own
  Warehouses,
  Products,
  Carts,         \* the validated item lists: Products -> units, 0 if not ordered
  InitialStock,
  NoOrder,       \* no row in table orders
  NoOne          \* no open transaction has written the inventory row

ASSUME RequestsAssumption == IsFiniteSet(Requests)
ASSUME ProductsAssumption == Products \subseteq Nat /\ IsFiniteSet(Products)
ASSUME WarehousesAssumption == Warehouses # {}
ASSUME CartsAssumption == Carts \subseteq [Products -> Nat] /\ Carts # {}
ASSUME StockAssumption == InitialStock \in [Warehouses -> [Products -> Nat]]
ASSUME NoOneAssumption == NoOne \notin Requests

VARIABLES
  inventory,   \* committed rows of table inventory
  pending,     \* the version of each row its last writer has written, committed or not
  rowLock,     \* the open transaction that wrote the row, or NoOne
  orders,      \* committed rows of orders and order_items, by request
  payments,    \* committed rows of payments, by request
  result,      \* what PaymentGateway.charge answered the request
  pc,          \* the next step of the request
  cart,        \* local: items
  warehouse,   \* local: the warehouse that was picked
  answer       \* HTTP status sent to the client, 0 before

database == <<inventory, pending, rowLock, orders, payments>>
locals == <<cart, warehouse>>
vars == <<inventory, pending, rowLock, orders, payments, result, pc, cart, warehouse, answer>>

Statuses == {"pending_payment", "paid", "payment_failed"}

Order == [status : Statuses, warehouse : Warehouses, items : Carts]

ASSUME NoOrderAssumption == NoOrder \notin Order

(***************************************************************************)
(* idle     the request has not reached create_order                       *)
(* select   find_best_warehouse runs next                                  *)
(* reserve  inside reserve_inventory, then the INSERT of the order         *)
(* charge   order committed, card not charged yet                          *)
(* settle   inside the second transaction                                  *)
(* respond  everything committed, the order is read back                   *)
(***************************************************************************)
Steps == {"idle", "select", "reserve", "charge", "settle", "respond", "done", "crashed"}

TypeOK ==
  /\ inventory \in [Warehouses -> [Products -> Nat]]
  /\ pending \in [Warehouses -> [Products -> Nat]]
  /\ rowLock \in [Warehouses -> [Products -> Requests \union {NoOne}]]
  /\ orders \in [Requests -> Order \union {NoOrder}]
  /\ payments \in [Requests -> {"none", "succeeded", "failed"}]
  /\ result \in [Requests -> {"none", "success", "declined"}]
  /\ pc \in [Requests -> Steps]
  /\ cart \in [Requests -> Carts]
  /\ warehouse \in [Requests -> Warehouses]
  /\ answer \in [Requests -> {0, 201, 402, 404, 409, 500}]

Init ==
  /\ inventory = InitialStock
  /\ pending = InitialStock
  /\ rowLock = [w \in Warehouses |-> [p \in Products |-> NoOne]]
  /\ orders = [r \in Requests |-> NoOrder]
  /\ payments = [r \in Requests |-> "none"]
  /\ result = [r \in Requests |-> "none"]
  /\ pc = [r \in Requests |-> "idle"]
  /\ cart = [r \in Requests |-> CHOOSE items \in Carts : TRUE]
  /\ warehouse = [r \in Requests |-> CHOOSE w \in Warehouses : TRUE]
  /\ answer = [r \in Requests |-> 0]

-----------------------------------------------------------------------------
(* Transactions: db.transaction() and what Postgres does under it *)

\* The rows the request's transaction has written make it into the table.
CommitRows(r) ==
  /\ inventory' = [w \in Warehouses |-> [p \in Products |->
                     IF rowLock[w][p] = r THEN pending[w][p] ELSE inventory[w][p]]]
  /\ rowLock' = [w \in Warehouses |-> [p \in Products |->
                     IF rowLock[w][p] = r THEN NoOne ELSE rowLock[w][p]]]
  /\ UNCHANGED pending

\* They are forgotten.
RollbackRows(r) ==
  /\ pending' = [w \in Warehouses |-> [p \in Products |->
                     IF rowLock[w][p] = r THEN inventory[w][p] ELSE pending[w][p]]]
  /\ rowLock' = [w \in Warehouses |-> [p \in Products |->
                     IF rowLock[w][p] = r THEN NoOne ELSE rowLock[w][p]]]
  /\ UNCHANGED inventory

\* An UPDATE of row <<w, p>> that sets quantity to the given number.
WriteRow(r, w, p, quantity) ==
  /\ pending' = [pending EXCEPT ![w][p] = quantity]
  /\ rowLock' = [rowLock EXCEPT ![w][p] = r]
  /\ UNCHANGED inventory

\* The request is over: the exception or the response reaches the client.
Answer(r, status) ==
  /\ answer' = [answer EXCEPT ![r] = status]
  /\ pc' = [pc EXCEPT ![r] = "done"]

-----------------------------------------------------------------------------
(* Lookups *)

Begin(r) ==
  /\ pc[r] = "idle"
  /\ \E items \in Carts : cart' = [cart EXCEPT ![r] = items]
  /\ pc' = [pc EXCEPT ![r] = "select"]
  /\ UNCHANGED <<database, result, warehouse, answer>>

\* The customer, or a product of the cart, does not exist.
NotFound(r) ==
  /\ pc[r] = "idle"
  /\ Answer(r, 404)
  /\ UNCHANGED <<database, result, locals>>

-----------------------------------------------------------------------------
(* Phase 1: pick a warehouse and reserve *)

Eligible(w, items) == \A p \in Products : inventory[w][p] >= items[p]

\* The nearest eligible one; which that is depends on the shipping address,
\* so it may be any of them.
SelectWarehouse(r) ==
  /\ pc[r] = "select"
  /\ \E w \in Warehouses :
       /\ Eligible(w, cart[r])
       /\ warehouse' = [warehouse EXCEPT ![r] = w]
  /\ pc' = [pc EXCEPT ![r] = "reserve"]
  /\ UNCHANGED <<database, result, cart, answer>>

NoWarehouse(r) ==
  /\ pc[r] = "select"
  /\ \A w \in Warehouses : ~Eligible(w, cart[r])
  /\ Answer(r, 409)
  /\ UNCHANGED <<database, result, locals>>

\* The rows the loops over sorted(items) still have to update.
RowsLeft(r) == {p \in Products : cart[r][p] > 0 /\ rowLock[warehouse[r]][p] # r}

\* A bug to detect: the loops run over the items in the client's order.
UnsortedNextRow(r, p) == p \in RowsLeft(r)

\* sorted(items, key=product_id): the smallest id goes next.
IsNextRow(r, p) == p \in RowsLeft(r) /\ \A q \in RowsLeft(r) : p <= q

\* Bugs to detect: no WHERE quantity >= n, or the wrong comparison.
UncheckedEnough(r, p) == TRUE
StrictlyEnough(r, p) == inventory[warehouse[r]][p] > cart[r][p]

Enough(r, p) == inventory[warehouse[r]][p] >= cart[r][p]

\* UPDATE ... WHERE quantity >= n: waits while another transaction has the row
\* and looks at the quantity that transaction commits.
ReserveRow(r) ==
  /\ pc[r] = "reserve"
  /\ \E p \in Products :
       /\ IsNextRow(r, p)
       /\ rowLock[warehouse[r]][p] = NoOne
       /\ Enough(r, p)
       /\ WriteRow(r, warehouse[r], p, inventory[warehouse[r]][p] - cart[r][p])
  /\ UNCHANGED <<orders, payments, result, pc, locals, answer>>

\* A bug to detect: the error is raised outside transaction(), which commits.
LoseRaceAndCommit(r) ==
  /\ pc[r] = "reserve"
  /\ \E p \in Products : IsNextRow(r, p) /\ ~Enough(r, p)
  /\ CommitRows(r)
  /\ Answer(r, 409)
  /\ UNCHANGED <<orders, payments, result, locals>>

\* The UPDATE matches no row.  A committed quantity that is too small is seen
\* without waiting for whoever holds the row.
LoseRace(r) ==
  /\ pc[r] = "reserve"
  /\ \E p \in Products : IsNextRow(r, p) /\ ~Enough(r, p)
  /\ RollbackRows(r)
  /\ Answer(r, 409)
  /\ UNCHANGED <<orders, payments, result, locals>>

\* A bug to detect: the transaction stays open until the card is charged.
InsertOrderUncommitted(r) ==
  /\ pc[r] = "reserve"
  /\ RowsLeft(r) = {}
  /\ orders' = [orders EXCEPT ![r] =
       [status |-> "pending_payment", warehouse |-> warehouse[r], items |-> cart[r]]]
  /\ UNCHANGED <<inventory, pending, rowLock, payments, result, locals>>

\* Insert the order with its items and commit, stock and order together.
InsertOrder(r) ==
  /\ pc[r] = "reserve"
  /\ RowsLeft(r) = {}
  /\ orders' = [orders EXCEPT ![r] =
       [status |-> "pending_payment", warehouse |-> warehouse[r], items |-> cart[r]]]
  /\ CommitRows(r)
  /\ UNCHANGED <<payments, result, locals>>

PlaceOrder(r) ==
  /\ InsertOrder(r)
  /\ pc' = [pc EXCEPT ![r] = "charge"]
  /\ UNCHANGED answer

-----------------------------------------------------------------------------
(* Phase 2: charge the card *)

Charge(r) ==
  /\ pc[r] = "charge"
  /\ \E outcome \in {"success", "declined"} : result' = [result EXCEPT ![r] = outcome]
  /\ pc' = [pc EXCEPT ![r] = "settle"]
  /\ UNCHANGED <<database, locals, answer>>

-----------------------------------------------------------------------------
(* Phase 3: record what happened *)

\* record_payment and update_order_status, and COMMIT.
Settle(r, payment, status) ==
  /\ payments' = [payments EXCEPT ![r] = payment]
  /\ orders' = [orders EXCEPT ![r].status = status]
  /\ CommitRows(r)
  /\ UNCHANGED <<result, locals>>

\* A bug to detect: result.success is not looked at.
SettlePaidRegardless(r) ==
  /\ pc[r] = "settle"
  /\ Settle(r, "succeeded", "paid")

SettlePaid(r) ==
  /\ pc[r] = "settle"
  /\ result[r] = "success"
  /\ Settle(r, "succeeded", "paid")

\* release_inventory puts the units back row by row, with no lower bound to
\* check, before the COMMIT of SettleDeclined.
ReleaseRow(r) ==
  /\ pc[r] = "settle"
  /\ result[r] = "declined"
  /\ \E p \in Products :
       /\ IsNextRow(r, p)
       /\ rowLock[warehouse[r]][p] = NoOne
       /\ WriteRow(r, warehouse[r], p, inventory[warehouse[r]][p] + cart[r][p])
  /\ UNCHANGED <<orders, payments, result, pc, locals, answer>>

\* A bug to detect: COMMIT before release_inventory.
SettleDeclinedEarly(r) ==
  /\ pc[r] = "settle"
  /\ result[r] = "declined"
  /\ Settle(r, "failed", "payment_failed")

SettleDeclined(r) ==
  /\ pc[r] = "settle"
  /\ result[r] = "declined"
  /\ RowsLeft(r) = {}
  /\ Settle(r, "failed", "payment_failed")

RecordPayment(r) ==
  /\ SettlePaid(r) \/ SettleDeclined(r)
  /\ pc' = [pc EXCEPT ![r] = "respond"]
  /\ UNCHANGED answer

\* get_order_with_details and the status code.
Respond(r) ==
  /\ pc[r] = "respond"
  /\ Answer(r, IF result[r] = "success" THEN 201 ELSE 402)
  /\ UNCHANGED <<database, result, locals>>

-----------------------------------------------------------------------------
(* What goes wrong *)

\* A bug to detect: nobody rolls back when a statement raises.
FailWithoutRollback(r) ==
  /\ pc[r] \in {"idle", "select", "reserve", "settle", "respond"}
  /\ Answer(r, 500)
  /\ UNCHANGED <<database, result, locals>>

\* A statement raises (connection lost, statement_timeout, a deadlock victim),
\* in a lookup, inside a transaction or in the final reads: whatever the open
\* transaction has written is rolled back and the client gets a 500.  charge()
\* runs no statement.
Fail(r) ==
  /\ pc[r] \in {"idle", "select", "reserve", "settle", "respond"}
  /\ RollbackRows(r)
  /\ Answer(r, 500)
  /\ UNCHANGED <<orders, payments, result, locals>>

\* A bug to detect: any error of the transaction is called a conflict.
LoseAcknowledgementAsConflict(r) ==
  /\ InsertOrder(r) \/ SettlePaid(r) \/ SettleDeclined(r)
  /\ Answer(r, 409)

\* COMMIT takes effect and its acknowledgement is lost: commit() raises, and
\* the rollback() that follows has nothing to undo.
LoseAcknowledgement(r) ==
  /\ InsertOrder(r) \/ SettlePaid(r) \/ SettleDeclined(r)
  /\ Answer(r, 500)

\* The worker is killed; Postgres rolls the open transaction back.
Crash(r) ==
  /\ pc[r] \notin {"idle", "done", "crashed"}
  /\ RollbackRows(r)
  /\ pc' = [pc EXCEPT ![r] = "crashed"]
  /\ UNCHANGED <<orders, payments, result, locals, answer>>

-----------------------------------------------------------------------------
\* The steps a request takes when nothing goes wrong, once it has begun.
Proceed(r) ==
  \/ SelectWarehouse(r) \/ NoWarehouse(r)
  \/ ReserveRow(r) \/ LoseRace(r) \/ PlaceOrder(r)
  \/ Charge(r)
  \/ ReleaseRow(r) \/ RecordPayment(r)
  \/ Respond(r)

Fault(r) == Fail(r) \/ LoseAcknowledgement(r) \/ Crash(r)

Finished == \A r \in Requests : pc[r] \in {"done", "crashed"}

Terminating == Finished /\ UNCHANGED vars

Next ==
  \/ \E r \in Requests : Begin(r) \/ NotFound(r) \/ Proceed(r) \/ Fault(r)
  \/ Terminating

Spec == Init /\ [][Next]_vars

(***************************************************************************)
(* A handler thread that can run does run, and Postgres grants a free row  *)
(* lock to somebody who waits for it; nothing obliges a client to call or  *)
(* a fault to happen.  Weak fairness is enough: there are finitely many    *)
(* requests, and each takes a row at most twice.                           *)
(***************************************************************************)
Fairness == \A r \in Requests : WF_vars(Proceed(r))

FairSpec == Spec /\ Fairness

-----------------------------------------------------------------------------
(* Safety *)

\* The transactions implement one-step transactions on the stock.
Ledger == INSTANCE Fulfilment WITH stock <- inventory

(***************************************************************************)
(* Row by row, the committed stock and the units of committed orders that  *)
(* are pending or paid add up to the initial stock: whatever interleaving, *)
(* failed statement or killed worker, reserve_inventory and                *)
(* release_inventory neither lose a unit nor sell it twice.                *)
(***************************************************************************)
StockConserved == Ledger!Conserved

(***************************************************************************)
(* Every step of the handlers is an all-or-nothing step of Fulfilment or   *)
(* changes neither committed stock nor orders: no order is visible without *)
(* its reservation, a reservation comes from one warehouse, is returned to *)
(* that warehouse, at most once, and a final order status never changes.   *)
(***************************************************************************)
ImplementsLedger == Ledger!Spec

(***************************************************************************)
(* The three records of one sale never contradict each other: an order is  *)
(* paid exactly if a successful payment is recorded, which happens only to *)
(* a charged card, and payment_failed exactly if a failed one is, which    *)
(* never happens to a charged card (record_payment, update_order_status).  *)
(***************************************************************************)
PaymentMatchesOrder ==
  \A r \in Requests :
    LET status == IF orders[r] = NoOrder THEN "no order" ELSE orders[r].status IN
    /\ status = "paid" <=> payments[r] = "succeeded"
    /\ status = "payment_failed" <=> payments[r] = "failed"
    /\ payments[r] = "succeeded" => result[r] = "success"
    /\ payments[r] = "failed" => result[r] = "declined"

(***************************************************************************)
(* The client may rely on the status it gets: 404 and 409 leave no order   *)
(* and no charge behind and may be retried, 201 means sold and charged,    *)
(* 402 means declined and recorded.  Only a 500 leaves the client unsure.  *)
(***************************************************************************)
AnswerTruthful ==
  \A r \in Requests :
    /\ answer[r] \in {404, 409} => orders[r] = NoOrder /\ result[r] = "none"
    /\ answer[r] = 201 =>
         orders[r] # NoOrder /\ orders[r].status = "paid" /\ result[r] = "success"
    /\ answer[r] = 402 =>
         orders[r] # NoOrder /\ orders[r].status = "payment_failed" /\ result[r] = "declined"

(***************************************************************************)
(* Inventory rows are locked only by a transaction that is open: not while *)
(* the card is charged ("no DB lock held"), not after an answer, a raised  *)
(* statement or a killed worker.                                           *)
(***************************************************************************)
LocksOnlyInTransactions ==
  \A w \in Warehouses, p \in Products, r \in Requests :
    rowLock[w][p] = r => pc[r] \in {"reserve", "settle"} /\ warehouse[r] = w

\* The transaction of r is blocked in an UPDATE of a row that s has written.
WaitsFor(r, s) ==
  /\ pc[r] = "reserve" \/ (pc[r] = "settle" /\ result[r] = "declined")
  /\ \E p \in Products :
       /\ IsNextRow(r, p)
       /\ rowLock[warehouse[r]][p] = s
       /\ pc[r] = "reserve" => Enough(r, p)

(***************************************************************************)
(* No set of transactions waits for itself, so Postgres never has to kill  *)
(* one: reservations and returns that share several rows take them in the  *)
(* order of the product ids (docstring of reserve_inventory).              *)
(***************************************************************************)
NoWaitCycle ==
  \A S \in (SUBSET Requests) \ {{}} : \E r \in S : \A s \in S : ~WaitsFor(r, s)

(***************************************************************************)
(* A client is turned away with 409 only for lack of stock: as long as no  *)
(* unit has been returned, some warehouse really is short of a product of  *)
(* its cart -- losing the race for a row to a transaction that is rolled   *)
(* back in the end is not enough.                                          *)
(***************************************************************************)
ConflictJustified ==
  (\A r \in Requests : payments[r] # "failed") =>
     \A r \in Requests :
       answer[r] = 409 => \E w \in Warehouses : ~Eligible(w, cart[r])

(***************************************************************************)
(* Once the handler of a request is gone, a card that was charged can be   *)
(* found in table payments: "fully auditable even if the process crashes   *)
(* between steps" (docstring of OrderService).                             *)
(***************************************************************************)
ChargeReconstructable ==
  \A r \in Requests :
    pc[r] \in {"done", "crashed"} /\ result[r] = "success" => payments[r] = "succeeded"

-----------------------------------------------------------------------------
(* Liveness *)

(***************************************************************************)
(* A request that has begun is answered unless its worker is killed: it    *)
(* never waits for a row lock for ever, whatever happens to the others.    *)
(***************************************************************************)
EveryRequestAnswered ==
  \A r \in Requests : pc[r] = "select" ~> pc[r] \in {"done", "crashed"}

OrderPending(r) == orders[r] # NoOrder /\ orders[r].status = "pending_payment"

(***************************************************************************)
(* Units are not held for ever by an order nobody pays: a pending order is *)
(* settled, either way, unless its own handler was killed or got an error. *)
(***************************************************************************)
PendingOrderSettled ==
  \A r \in Requests :
    OrderPending(r) ~> ~OrderPending(r) \/ pc[r] = "crashed" \/ answer[r] = 500
=============================================================================
