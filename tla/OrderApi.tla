------------------------------ MODULE OrderApi ------------------------------
(***************************************************************************)
(* The routes POST /orders and GET /orders/:id (src/app/routes/orders.py): *)
(* OrderService and Idempotency joined, step by step, for requests with    *)
(* and without an Idempotency-Key, and readers of the orders they place.   *)
(*                                                                         *)
(* A keyed request claims its key, runs create_order and saves what it     *)
(* returned or releases the claim.  The steps of the two modules that are  *)
(* one statement of the code happen together.                              *)
(***************************************************************************)
EXTENDS OrderService

CONSTANTS
  Keyed,      \* the requests that carry an Idempotency-Key
  Keys, PromptKeys, NoRow, NoResponse,
  Malformed,  \* a body that parse_create_order_request refuses
  Readers     \* GET /orders/:id calls

ASSUME KeyedAssumption == Keyed \subseteq Requests /\ NoResponse \notin Keyed
ASSUME KeysAssumption == Keys # {} /\ PromptKeys \subseteq Keys
ASSUME MalformedAssumption == Malformed \notin Carts

VARIABLES
  row, key, body, claim, raised, replayOf,
  route,  \* the next step of a keyed request in the route
  reply,  \* what its client was told; answer is what create_order returned or raised
  get     \* what a reader has read: the request that placed the order, status, payment

service == vars
claims == <<row, key, body, claim, raised, replayOf, route, reply>>
apiVars == <<service, claims, get>>

Bodies == Carts \union {Malformed}

Charged == [r \in Keyed |-> result[r] = "success"]

Idem == INSTANCE Idempotency
          WITH Requests <- Keyed, pc <- route, answer <- reply, charged <- Charged

ASSUME NoRowAssumption == NoRow \notin Idem!Row

View == [of : Requests,
         order : Statuses \union {"unread", "absent"},
         payment : {"unread", "none", "succeeded", "failed"}]

ApiTypeOK ==
  /\ TypeOK
  /\ Idem!TypeOK
  /\ get \in [Readers -> View]

ApiInit ==
  /\ Init
  /\ Idem!Init
  /\ get \in [Readers -> [of : Requests, order : {"unread"}, payment : {"unread"}]]

-----------------------------------------------------------------------------
(* POST /orders with a key *)

\* The claim, or the answer instead of it.
Claim(r) ==
  /\ UNCHANGED service
  /\ \/ Idem!Arrive(r) \/ Idem!FailClaiming(r)
     \/ Idem!InsertClaim(r) \/ Idem!InsertConflict(r)
     \/ Idem!TakeOver(r) \/ Idem!NothingToTakeOver(r)
     \/ Idem!Replay(r) \/ Idem!Refuse(r)

\* parse_create_order_request raises: create_order is not called.
RejectBody(r) ==
  /\ body[r] = Malformed
  /\ pc[r] = "idle"
  /\ UNCHANGED service
  /\ Idem!RaiseBeforeCharge(r)

CallCreateOrder(r) ==
  /\ route[r] = "work"
  /\ Begin(r)
  /\ cart'[r] = body[r]
  /\ UNCHANGED claims

\* A statement of create_order that neither ends it nor charges.
Advance(r) ==
  /\ \/ SelectWarehouse(r)
     \/ ReserveRow(r) \/ PlaceOrder(r)
     \/ ReleaseRow(r) \/ RecordPayment(r)
  /\ UNCHANGED claims

ChargeCard(r) == Charge(r) /\ Idem!Charge(r)

\* create_order raises, before the charge or after it.
Raise(r) ==
  /\ body[r] # Malformed
  /\ \/ NotFound(r) \/ NoWarehouse(r) \/ LoseRace(r)
     \/ Fail(r) \/ LoseAcknowledgement(r)
  /\ Idem!RaiseBeforeCharge(r) \/ Idem!RaiseAfterCharge(r)

Return(r) == Respond(r) /\ Idem!Finish(r)

Store(r) ==
  /\ UNCHANGED service
  /\ \/ Idem!Save(r) \/ Idem!SaveFails(r)
     \/ Idem!Release(r) \/ Idem!ReleaseFails(r)

Kill(r) ==
  /\ \/ Crash(r)
     \/ pc[r] \in {"idle", "done"} /\ UNCHANGED service
  /\ Idem!Crash(r)

KeyedStep(r) ==
  \/ Claim(r)
  \/ RejectBody(r) \/ CallCreateOrder(r) \/ Advance(r) \/ ChargeCard(r) \/ Raise(r) \/ Return(r)
  \/ Store(r)
  \/ Kill(r)

-----------------------------------------------------------------------------
(* POST /orders without one *)

KeylessStep(r) ==
  /\ Begin(r) \/ NotFound(r) \/ Proceed(r) \/ Fault(r)
  /\ UNCHANGED claims

-----------------------------------------------------------------------------
(* GET /orders/:id: get_order_with_details in autocommit mode.  Of its four *)
(* SELECTs two read rows that change after they have been inserted.         *)

StatusOf(r) == IF orders[r] = NoOrder THEN "absent" ELSE orders[r].status

\* A bug to detect: the payment is read before the order.
ReadPaymentFirst(g) ==
  \/ /\ get[g].payment = "unread"
     /\ get' = [get EXCEPT ![g].payment = payments[get[g].of]]
  \/ /\ get[g].payment # "unread"
     /\ get[g].order = "unread"
     /\ get' = [get EXCEPT ![g].order = StatusOf(get[g].of)]

\* The order, None if there is no row, and after it the payment.
GetOrder(g) ==
  \/ /\ get[g].order = "unread"
     /\ get' = [get EXCEPT ![g].order = StatusOf(get[g].of)]
  \/ /\ get[g].order \in Statuses
     /\ get[g].payment = "unread"
     /\ get' = [get EXCEPT ![g].payment = payments[get[g].of]]

-----------------------------------------------------------------------------
ApiTerminating ==
  /\ \A r \in Keyed : route[r] \in {"done", "crashed"}
  /\ \A r \in Requests \ Keyed : pc[r] \in {"done", "crashed"}
  /\ UNCHANGED apiVars

Post ==
  /\ \/ \E r \in Keyed : KeyedStep(r)
     \/ \E r \in Requests \ Keyed : KeylessStep(r)
     \/ \E k \in Keys : UNCHANGED service /\ Idem!GoStale(k)
  /\ UNCHANGED get

Get == (\E g \in Readers : GetOrder(g)) /\ UNCHANGED <<service, claims>>

ApiNext == Post \/ Get \/ ApiTerminating

ApiSpec == ApiInit /\ [][ApiNext]_apiVars

-----------------------------------------------------------------------------
(***************************************************************************)
(* A replay describes a sale that took place as described: the request     *)
(* whose stored response was sent has an order in the tables, for the cart *)
(* that the client sent, settled with the status the response carries.     *)
(***************************************************************************)
ReplayShowsSale ==
  \A r \in Keyed :
    key[r] \in PromptKeys /\ replayOf[r] # NoResponse =>
      LET s == replayOf[r] IN
      /\ orders[s] # NoOrder
      /\ orders[s].items = body[r]
      /\ orders[s].status = IF answer[s] = 201 THEN "paid" ELSE "payment_failed"

OrdersUnder(k) == {r \in Keyed : key[r] = k /\ orders[r] # NoOrder}
FailedAfterPlacing(k) == {r \in OrdersUnder(k) : answer[r] = 500}

(***************************************************************************)
(* What a retry with the same key costs in stock: each order beyond the    *)
(* first is paid for by the takeover of an abandoned claim or by a 500     *)
(* that left an order behind.  Duplicates, 4xx answers, declined cards and *)
(* responses that could not be saved never place a second order.           *)
(***************************************************************************)
OrderBudget ==
  \A k \in Keys :
    Cardinality(OrdersUnder(k)) <=
      1 + Cardinality(Idem!Takeovers(k)) + Cardinality(FailedAfterPlacing(k))

(***************************************************************************)
(* An order that is read as settled is read with the payment that settled  *)
(* it, although the four SELECTs of the read are not one transaction.      *)
(***************************************************************************)
ReadbackCoherent ==
  \A g \in Readers :
    get[g].payment # "unread" =>
      /\ get[g].order = "paid" => get[g].payment = "succeeded"
      /\ get[g].order = "payment_failed" => get[g].payment = "failed"
=============================================================================
