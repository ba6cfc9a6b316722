--------------------------- MODULE OrderApiProofs ---------------------------
(***************************************************************************)
(* What OrderService and Idempotency guarantee together, for any number of *)
(* requests, keys and readers: a read order is coherent, a replay shows a  *)
(* sale, and a retry places no second order without a takeover or a 500.   *)
(* The steps of OrderApi are built from steps of the two modules, so that  *)
(* the invariants of both carry over to it.                                *)
(***************************************************************************)
EXTENDS OrderApi, OrderServiceProofs, DataProofs

\* What the route does to the state of create_order, by the module that says so.
LEMMA KeyedIsService ==
  ASSUME NEW r \in Keyed, KeyedStep(r), ~CallCreateOrder(r)
  PROVE  NotFound(r) \/ Proceed(r) \/ Fault(r) \/ UNCHANGED vars
BY DEF KeyedStep, Claim, RejectBody, Advance, ChargeCard, Raise, Return, Store, Kill, Proceed,
       Fault, service

LEMMA PostIsService ==
  ASSUME Post
  PROVE  (\E r \in Requests : StepOf(r)) \/ UNCHANGED vars
<1>1. ASSUME NEW r \in Keyed, KeyedStep(r)
      PROVE  StepOf(r) \/ UNCHANGED vars
  BY <1>1, KeyedIsService DEF CallCreateOrder, StepOf
<1>2. ASSUME NEW r \in Requests \ Keyed, KeylessStep(r)
      PROVE  StepOf(r)
  BY <1>2 DEF KeylessStep, StepOf
<1> QED
  BY <1>1, <1>2, KeyedAssumption DEF Post, service

LEMMA StepIsService == [ApiNext]_apiVars => [Next]_vars
<1>1. Post => [Next]_vars
  BY PostIsService DEF Next, StepOf
<1>2. Get \/ ApiTerminating \/ UNCHANGED apiVars => UNCHANGED vars
  BY DEF Get, ApiTerminating, apiVars, service
<1> QED
  BY <1>1, <1>2 DEF ApiNext

LEMMA ServiceInvariance == ApiSpec => []IInv
<1>1. ApiSpec => Spec
  BY StepIsService, PTL DEF ApiSpec, ApiInit, Spec
<1> QED
  BY <1>1, Invariance, PTL

-----------------------------------------------------------------------------
(* Only the charge changes what the gateway has answered *)

LEMMA ResultKept ==
  ASSUME NEW r, StepOf(r), ~Charge(r)
  PROVE  result' = result
BY DEF StepOf, Proceed, Fault, Begin, NotFound, SelectWarehouse, NoWarehouse, ReserveRow, LoseRace,
       PlaceOrder, InsertOrder, ReleaseRow, RecordPayment, SettlePaid, SettleDeclined, Settle,
       Respond, Fail, LoseAcknowledgement, Crash, locals, database

LEMMA KeylessKeepsCharged ==
  ASSUME TypeOK, NEW r \in Requests \ Keyed, StepOf(r)
  PROVE  Charged' = Charged
<1>1. \A s \in Keyed : result'[s] = result[s]
  BY OthersUntouched, KeyedAssumption DEF Untouched
<1> QED
  BY <1>1 DEF Charged

LEMMA StepIsIdem == IInv /\ [ApiNext]_apiVars => [Idem!Next]_Idem!vars
<1> SUFFICES ASSUME TypeOK, [ApiNext]_apiVars
             PROVE  [Idem!Next]_Idem!vars
  BY DEF IInv
<1>1. ASSUME UNCHANGED claims, result' = result \/ Charged' = Charged
      PROVE  UNCHANGED Idem!vars
  BY <1>1 DEF claims, Charged, Idem!vars, Idem!locals
<1>2. ASSUME NEW r \in Keyed, KeyedStep(r)
      PROVE  Idem!StepOf(r) \/ UNCHANGED Idem!vars
  <2>1. CASE Claim(r) \/ RejectBody(r) \/ ChargeCard(r) \/ Raise(r) \/ Return(r) \/ Store(r) \/ Kill(r)
    BY <2>1
    DEF Claim, RejectBody, ChargeCard, Raise, Return, Store, Kill, Idem!StepOf
  <2>2. CASE CallCreateOrder(r) \/ Advance(r)
    <3>1. result' = result
      BY <2>2, ResultKept
      DEF CallCreateOrder, Advance, StepOf, Proceed, Begin, SelectWarehouse, ReserveRow, PlaceOrder, InsertOrder, ReleaseRow, RecordPayment, SettlePaid, SettleDeclined, Settle, locals, database
    <3> QED
      BY <1>1, <2>2, <3>1 DEF CallCreateOrder, Advance
  <2> QED
    BY <1>2, <2>1, <2>2 DEF KeyedStep
<1>3. ASSUME NEW r \in Requests \ Keyed, KeylessStep(r)
      PROVE  UNCHANGED Idem!vars
  BY <1>1, <1>3, KeylessKeepsCharged DEF KeylessStep, StepOf
<1>4. ASSUME NEW k \in Keys, UNCHANGED service, Idem!GoStale(k)
      PROVE  Idem!Next
  BY <1>4 DEF Idem!Next
<1>5. CASE Get \/ ApiTerminating \/ UNCHANGED apiVars
  BY <1>1, <1>5 DEF Get, ApiTerminating, apiVars, service, vars
<1> QED
  BY <1>2, <1>3, <1>4, <1>5 DEF ApiNext, Post, Idem!Next

-----------------------------------------------------------------------------
(* Reading an order *)

Final == {"paid", "payment_failed"}

\* A request that has been answered takes no more steps, and what it settled stays.
LEMMA StepIsBeforeAnswer ==
  ASSUME IInv, NEW r \in Requests, StepOf(r)
  PROVE  /\ answer[r] = 0
         /\ orders[r] # NoOrder /\ orders[r].status \in Final => orders'[r] = orders[r]
<1>1. PhaseOf(r) /\ pc[r] \in {"idle", "select", "reserve", "charge", "settle", "respond"}
  BY DEF IInv, PhaseInv, TypeOK, Steps, StepOf, Proceed, Fault, Begin, NotFound, SelectWarehouse,
         NoWarehouse, ReserveRow, LoseRace, PlaceOrder, InsertOrder, Charge, ReleaseRow,
         RecordPayment, SettlePaid, SettleDeclined, Respond, Fail, LoseAcknowledgement, Crash
<1>2. answer[r] = 0
  BY <1>1 DEF PhaseOf
<1>3. CASE PlaceOrder(r) \/ RecordPayment(r) \/ LoseAcknowledgement(r)
  BY <1>1, <1>2, <1>3
  DEF PlaceOrder, InsertOrder, RecordPayment, SettlePaid, SettleDeclined, LoseAcknowledgement,
      PhaseOf, Placed, Final
<1>4. CASE ~(PlaceOrder(r) \/ RecordPayment(r) \/ LoseAcknowledgement(r))
  <2>1. orders' = orders
    BY <1>4
    DEF StepOf, Proceed, Fault, Begin, NotFound, SelectWarehouse, NoWarehouse, ReserveRow, LoseRace,
        Charge, ReleaseRow, Respond, Fail, Crash, database
  <2> QED
    BY <1>2, <2>1
<1> QED
  BY <1>3, <1>4

LEMMA SettledStays ==
  ASSUME IInv, [ApiNext]_apiVars, NEW r \in Requests
  PROVE  /\ orders[r] # NoOrder /\ orders[r].status \in Final => orders'[r] = orders[r]
         /\ answer[r] # 0 => answer'[r] = answer[r]
<1>1. (\E s \in Requests : StepOf(s)) \/ UNCHANGED vars
  BY PostIsService DEF ApiNext, Get, ApiTerminating, apiVars, service
<1>2. ASSUME NEW s \in Requests, StepOf(s), s # r
      PROVE  orders'[r] = orders[r] /\ answer'[r] = answer[r]
  BY <1>2, OthersUntouched DEF IInv, Untouched
<1> QED
  BY <1>1, <1>2, StepIsBeforeAnswer DEF vars

Paid == \A r \in Requests : PaymentOf(r)

LEMMA InvPaid == IInv => Paid
BY RequestInvIsInv DEF IInv, RequestInv, Paid

\* A status that is final when it is read stays the status of the order.
ViewOf(g) ==
  /\ get[g].order = "unread" => get[g].payment = "unread"
  /\ get[g].order \in Final =>
       /\ orders[get[g].of] # NoOrder
       /\ orders[get[g].of].status = get[g].order
       /\ get[g].payment \in {"unread", payments[get[g].of]}

ViewInv == get \in [Readers -> View] /\ \A g \in Readers : ViewOf(g)

LEMMA InitView == ApiInit => ViewInv
BY DEF ApiInit, ViewInv, ViewOf, View, Final

LEMMA StepView == IInv /\ IInv' /\ ViewInv /\ [ApiNext]_apiVars => ViewInv'
<1> SUFFICES ASSUME IInv, IInv', ViewInv, [ApiNext]_apiVars
             PROVE  ViewInv'
  OBVIOUS
<1>0. Paid /\ Paid'
  BY InvPaid, PTL
<1>1. ASSUME UNCHANGED get PROVE ViewInv'
  <2> SUFFICES ASSUME NEW g \in Readers, get[g].order \in Final
               PROVE  ViewOf(g)'
    BY <1>1 DEF ViewInv, ViewOf
  <2>1. PICK r \in Requests : r = get[g].of
    BY DEF ViewInv, View
  <2>2. orders'[r] = orders[r]
    BY <2>1, SettledStays DEF ViewInv, ViewOf
  <2>3. payments'[r] = payments[r]
    <3>1. orders[r] # NoOrder /\ orders[r].status \in Final
      BY <2>1 DEF ViewInv, ViewOf
    <3>2. PaymentOf(r) /\ PaymentOf(r)'
      BY <1>0, <2>1 DEF Paid
    <3> QED
      BY <2>2, <3>1, <3>2 DEF PaymentOf, Final
  <2> QED
    BY <1>1, <2>1, <2>2, <2>3 DEF ViewInv, ViewOf
<1>2. ASSUME NEW g \in Readers, GetOrder(g), UNCHANGED service
      PROVE  ViewInv'
  <2> DEFINE r == get[g].of
  <2>1. r \in Requests /\ get[g] \in View
    BY DEF ViewInv, View
  <2>2. payments[r] \in {"none", "succeeded", "failed"} /\ StatusOf(r) \in Statuses \union {"absent"}
    BY <2>1, SettledStatus DEF IInv, TypeOK, StatusOf, Order
  <2>3. get' \in [Readers -> View]
    BY <1>2, <2>1, <2>2 DEF GetOrder, View, ViewInv
  <2>4. ViewOf(g)'
    <3>1. UNCHANGED <<orders, payments>> /\ get'[g].of = r
      BY <1>2, <2>1 DEF GetOrder, ViewInv, View, service, vars
    <3>2. CASE get[g].order = "unread" /\ get' = [get EXCEPT ![g].order = StatusOf(r)]
      <4>1. get'[g].order = StatusOf(r) /\ get'[g].payment = get[g].payment
        BY <2>1, <3>2 DEF ViewInv, View
      <4>2. get[g].payment = "unread"
        BY <3>2 DEF ViewInv, ViewOf
      <4> QED
        BY <3>1, <4>1, <4>2 DEF ViewOf, StatusOf, Final
    <3>3. CASE get[g].order \in Statuses /\ get' = [get EXCEPT ![g].payment = payments[r]]
      <4>1. get'[g].order = get[g].order /\ get'[g].payment = payments[r]
        BY <2>1, <3>3 DEF ViewInv, View
      <4>2. get[g].order # "unread" /\ ViewOf(g)
        BY <3>3 DEF ViewInv, Statuses
      <4> QED
        BY <3>1, <4>1, <4>2 DEF ViewOf
    <3> QED
      BY <1>2, <3>2, <3>3 DEF GetOrder
  <2>5. \A h \in Readers : h # g => ViewOf(h)'
    BY <1>2 DEF GetOrder, ViewInv, ViewOf, service, vars
  <2> QED
    BY <2>3, <2>4, <2>5 DEF ViewInv
<1>3. CASE Get
  BY <1>2, <1>3 DEF Get
<1>4. CASE Post \/ ApiTerminating \/ UNCHANGED apiVars
  BY <1>1, <1>4 DEF Post, ApiTerminating, apiVars
<1> QED
  BY <1>3, <1>4 DEF ApiNext

(***************************************************************************)
(* Whatever happens between the four SELECTs of GET /orders/:id, an order  *)
(* that is shown as settled is shown with the payment that settled it.     *)
(***************************************************************************)
THEOREM ReadbacksAreCoherent == ApiSpec => []ReadbackCoherent
<1>1. ApiSpec => [](IInv /\ ViewInv)
  BY InitView, StepView, ServiceInvariance, PTL DEF ApiSpec
<1>2. IInv /\ ViewInv => ReadbackCoherent
  BY InvPaid DEF Paid, PaymentOf, ViewInv, ViewOf, View, ReadbackCoherent, Final
<1> QED
  BY <1>1, <1>2, PTL

-----------------------------------------------------------------------------
(* The invariant of Idempotency, carried over to the routes *)

Protocol == INSTANCE IdempotencyProofs
            WITH Requests <- Keyed, pc <- route, answer <- reply, charged <- Charged

LEMMA SameInit == Idem!Init => Protocol!Init
BY DEF Idem!Init, Protocol!Init

LEMMA SameRequestStep ==
  ASSUME NEW r \in Keyed, Idem!StepOf(r)
  PROVE  Protocol!StepOf(r)
BY DEF Idem!GoTo, Protocol!GoTo, Idem!Answer, Protocol!Answer, Idem!RowOf, Protocol!RowOf,
       Idem!SetRow, Protocol!SetRow, Idem!Completed, Protocol!Completed,
       Idem!Claimed, Protocol!Claimed, Idem!locals, Protocol!locals,
       Idem!StepOf, Protocol!StepOf,
       Idem!Arrive, Protocol!Arrive, Idem!InsertRow, Protocol!InsertRow,
       Idem!InsertClaim, Protocol!InsertClaim, Idem!InsertConflict, Protocol!InsertConflict,
       Idem!NewClaim, Protocol!NewClaim, Idem!Abandoned, Protocol!Abandoned,
       Idem!TakeOverRow, Protocol!TakeOverRow, Idem!TakeOver, Protocol!TakeOver,
       Idem!NothingToTakeOver, Protocol!NothingToTakeOver,
       Idem!Replay, Protocol!Replay, Idem!Refuse, Protocol!Refuse,
       Idem!FailClaiming, Protocol!FailClaiming,
       Idem!RaiseBeforeCharge, Protocol!RaiseBeforeCharge, Idem!Charge, Protocol!Charge,
       Idem!Finish, Protocol!Finish, Idem!RaiseAfterCharge, Protocol!RaiseAfterCharge,
       Idem!SaveRow, Protocol!SaveRow, Idem!Save, Protocol!Save,
       Idem!SaveFails, Protocol!SaveFails, Idem!Release, Protocol!Release,
       Idem!ReleaseFails, Protocol!ReleaseFails, Idem!Crash, Protocol!Crash

LEMMA SameStep == [Idem!Next]_Idem!vars => [Protocol!Next]_Protocol!vars
<1>1. ASSUME NEW k \in Keys, Idem!GoStale(k)
      PROVE  Protocol!GoStale(k)
  BY <1>1 DEF Idem!GoStale, Protocol!GoStale, Idem!Claimed, Protocol!Claimed,
              Idem!Workers, Protocol!Workers, Idem!Working, Protocol!Working,
              Idem!locals, Protocol!locals
<1>2. Idem!Terminating => Protocol!Terminating
  BY DEF Idem!Terminating, Protocol!Terminating, Idem!vars, Protocol!vars,
         Idem!locals, Protocol!locals
<1> QED
  BY SameRequestStep, <1>1, <1>2
  DEF Idem!Next, Protocol!Next, Idem!vars, Protocol!vars, Idem!locals, Protocol!locals

\* What IdempotencyProofs assumes of its constants holds of these.
LEMMA ProtocolAssumptions ==
  /\ Protocol!IsFiniteSet(Keyed) /\ NoResponse \notin Keyed
  /\ Keys # {} /\ Bodies # {}
  /\ PromptKeys \subseteq Keys
  /\ NoRow \notin Protocol!Row
<1>1. Protocol!IsFiniteSet(Keyed)
  BY FS_Subset, RequestsAssumption, KeyedAssumption DEF IsFiniteSet, Protocol!IsFiniteSet
<1> QED
  BY <1>1, KeyedAssumption, KeysAssumption, NoRowAssumption, CartsAssumption
  DEF Bodies, Protocol!Row, Idem!Row

LEMMA ProtocolInv ==
  /\ Protocol!Init => Protocol!IInv
  /\ Protocol!IInv /\ [Protocol!Next]_Protocol!vars => Protocol!IInv'
  /\ Protocol!IInv => Protocol!ReplayFaithful
BY ProtocolAssumptions, Protocol!InitInv, Protocol!StepInv, Protocol!InvReplays

LEMMA ProtocolInvariance == ApiSpec => []Protocol!IInv
<1>1. ApiInit => Protocol!IInv
  BY SameInit, ProtocolInv DEF ApiInit
<1>2. IInv /\ Protocol!IInv /\ [ApiNext]_apiVars => Protocol!IInv'
  BY StepIsIdem, SameStep, ProtocolInv
<1> QED
  BY <1>1, <1>2, ServiceInvariance, PTL DEF ApiSpec

-----------------------------------------------------------------------------
(* Replays *)

InCreateOrder == {"select", "reserve", "charge", "settle", "respond"}

\* create_order works on the body of the request.
OwnCart(r) ==
  /\ pc[r] \in InCreateOrder => cart[r] = body[r]
  /\ orders[r] # NoOrder => orders[r].items = body[r]

Returned(r) == r \in Keyed /\ answer[r] \in {201, 402}

\* What is about to be saved, what is stored and what was replayed was returned.
ReplayInv ==
  /\ \A r \in Keyed : OwnCart(r)
  /\ \A r \in Keyed : route[r] = "save" => Returned(r)
  /\ \A k \in Keys : Idem!Completed(k) => Returned(row[k].response)
  /\ \A r \in Keyed : replayOf[r] # NoResponse => Returned(replayOf[r])

LEMMA InitReplay == ApiInit => ReplayInv
BY KeyedAssumption
DEF ApiInit, Init, Idem!Init, ReplayInv, OwnCart, InCreateOrder, Idem!Completed

AllTypes == TypeOK /\ Protocol!TypeOK

LEMMA InvTypes == IInv /\ Protocol!IInv => AllTypes
BY DEF AllTypes, IInv, Protocol!IInv

LEMMA InputKept == AllTypes /\ [ApiNext]_apiVars => UNCHANGED <<key, body>>
BY DEF ApiNext, Post, Get, ApiTerminating, apiVars, KeyedStep, KeylessStep, Claim, RejectBody,
       CallCreateOrder, Advance, ChargeCard, Raise, Return, Store, Kill, claims,
       Idem!Arrive, Idem!InsertClaim, Idem!InsertConflict, Idem!TakeOver, Idem!NothingToTakeOver,
       Idem!Replay, Idem!Refuse, Idem!FailClaiming, Idem!RaiseBeforeCharge, Idem!Charge,
       Idem!Finish, Idem!RaiseAfterCharge, Idem!Save, Idem!SaveFails, Idem!Release,
       Idem!ReleaseFails, Idem!Crash, Idem!GoStale, Idem!locals

\* A step of create_order other than the first works on the cart it was given.
LEMMA OwnStepKeepsCart ==
  ASSUME IInv, NEW r \in Requests, NotFound(r) \/ Proceed(r) \/ Fault(r),
         OwnCart(r), body' = body
  PROVE  OwnCart(r)'
<1>1. TypeOK /\ PhaseOf(r)
  BY DEF IInv, PhaseInv
<1>2. cart' = cart /\ (pc'[r] \in InCreateOrder => pc[r] \in InCreateOrder)
  BY <1>1
  DEF TypeOK, InCreateOrder, Proceed, Fault, NotFound, SelectWarehouse, NoWarehouse,
      ReserveRow, LoseRace, PlaceOrder, InsertOrder, Charge, ReleaseRow, RecordPayment,
      SettlePaid, SettleDeclined, Settle, Respond, Fail, LoseAcknowledgement, Crash, Answer, locals
<1>3. CASE InsertOrder(r)
  <2>1. pc[r] = "reserve" /\ orders'[r].items = cart[r]
    BY <1>1, <1>3 DEF InsertOrder, TypeOK
  <2> QED
    BY <1>2, <2>1 DEF OwnCart, InCreateOrder
<1>4. CASE SettlePaid(r) \/ SettleDeclined(r)
  <2>1. PICK status \in Statuses : orders' = [orders EXCEPT ![r].status = status]
    BY <1>4 DEF SettlePaid, SettleDeclined, Settle, Statuses
  <2>2. pc[r] = "settle" /\ orders[r] = Placed(r)
    BY <1>1, <1>4 DEF SettlePaid, SettleDeclined, PhaseOf
  <2>3. orders'[r].items = orders[r].items
    BY <1>1, <2>1, <2>2 DEF TypeOK, Placed
  <2> QED
    BY <1>2, <2>2, <2>3 DEF OwnCart, Placed, InCreateOrder
<1>5. CASE UNCHANGED orders
  BY <1>2, <1>5 DEF OwnCart
<1> QED
  BY <1>3, <1>4, <1>5
  DEF Proceed, Fault, NotFound, SelectWarehouse, NoWarehouse, ReserveRow, LoseRace,
      PlaceOrder, Charge, ReleaseRow, RecordPayment, Respond, Fail, LoseAcknowledgement, Crash,
      database

LEMMA StepCart ==
  ASSUME IInv, Protocol!IInv, [ApiNext]_apiVars, NEW r \in Keyed, OwnCart(r)
  PROVE  OwnCart(r)'
<1>0. TypeOK /\ body' = body
  BY InvTypes, InputKept DEF AllTypes
<1>1. ASSUME NEW s \in Requests, StepOf(s), s # r
      PROVE  OwnCart(r)'
  BY <1>0, <1>1, OthersUntouched, KeyedAssumption DEF Untouched, OwnCart
<1>2. ASSUME UNCHANGED vars
      PROVE  OwnCart(r)'
  BY <1>0, <1>2 DEF vars, OwnCart
<1>3. ASSUME KeyedStep(r)
      PROVE  OwnCart(r)'
  <2>1. CASE CallCreateOrder(r)
    BY <1>0, <2>1, KeyedAssumption DEF CallCreateOrder, Begin, OwnCart, TypeOK, database, InCreateOrder
  <2>2. CASE ~CallCreateOrder(r)
    BY <1>0, <1>2, <1>3, <2>2, KeyedIsService, OwnStepKeepsCart, KeyedAssumption
  <2> QED
    BY <2>1, <2>2
<1>4. CASE Post
  <2>1. ASSUME NEW s \in Keyed, s # r, KeyedStep(s)
        PROVE  StepOf(s) \/ UNCHANGED vars
    BY <2>1, KeyedIsService DEF CallCreateOrder, StepOf
  <2>2. ASSUME NEW s \in Requests \ Keyed, KeylessStep(s)
        PROVE  StepOf(s)
    BY <2>2 DEF KeylessStep, StepOf
  <2> QED
    BY <1>1, <1>2, <1>3, <1>4, <2>1, <2>2, KeyedAssumption DEF Post, service
<1>5. CASE Get \/ ApiTerminating \/ UNCHANGED apiVars
  BY <1>2, <1>5 DEF Get, ApiTerminating, apiVars, service
<1> QED
  BY <1>4, <1>5 DEF ApiNext

\* The route saves what create_order has returned.
LEMMA StepSaving ==
  ASSUME IInv, Protocol!IInv, [ApiNext]_apiVars, NEW r \in Keyed,
         route'[r] = "save", route[r] # "save"
  PROVE  Returned(r)'
<1>1. AllTypes
  BY InvTypes
<1>2. PICK s \in Keyed : KeyedStep(s)
  BY DEF ApiNext, Post, Get, ApiTerminating, apiVars, claims, KeylessStep, Idem!GoStale
<1>3. s = r /\ route[r] = "finish"
  <2>1. Idem!StepOf(s)
    BY <1>2
    DEF KeyedStep, Claim, RejectBody, CallCreateOrder, Advance, ChargeCard, Raise, Return, Store,
        Kill, claims, Idem!StepOf
  <2>2. route' = [route EXCEPT ![s] = route'[s]]
    BY <1>1, <2>1
    DEF AllTypes, Protocol!TypeOK, Idem!StepOf, Idem!GoTo, Idem!Answer, Idem!Arrive,
        Idem!InsertClaim, Idem!InsertConflict, Idem!TakeOver, Idem!NothingToTakeOver, Idem!Replay,
        Idem!Refuse, Idem!FailClaiming, Idem!RaiseBeforeCharge, Idem!Charge, Idem!Finish,
        Idem!RaiseAfterCharge, Idem!Save, Idem!SaveFails, Idem!Release, Idem!ReleaseFails,
        Idem!Crash
  <2>3. s = r
    BY <1>1, <2>2 DEF AllTypes, Protocol!TypeOK
  <2> QED
    BY <1>1, <2>1, <2>3
    DEF AllTypes, Protocol!TypeOK, Idem!StepOf, Idem!GoTo, Idem!Answer, Idem!Arrive,
        Idem!InsertClaim, Idem!InsertConflict, Idem!TakeOver, Idem!NothingToTakeOver, Idem!Replay,
        Idem!Refuse, Idem!FailClaiming, Idem!RaiseBeforeCharge, Idem!Charge, Idem!Finish,
        Idem!RaiseAfterCharge, Idem!Save, Idem!SaveFails, Idem!Release, Idem!ReleaseFails,
        Idem!Crash
<1>4. Respond(r)
  BY <1>1, <1>2, <1>3
  DEF AllTypes, Protocol!TypeOK, KeyedStep, Claim, RejectBody, CallCreateOrder, Advance, ChargeCard,
      Raise, Return, Store, Kill, claims, Idem!GoTo, Idem!Answer, Idem!Arrive, Idem!InsertClaim,
      Idem!InsertConflict, Idem!TakeOver, Idem!NothingToTakeOver, Idem!Replay, Idem!Refuse,
      Idem!FailClaiming, Idem!RaiseBeforeCharge, Idem!Charge, Idem!RaiseAfterCharge,
      Idem!Save, Idem!SaveFails, Idem!Release, Idem!ReleaseFails, Idem!Crash
<1> QED
  BY <1>1, <1>4, KeyedAssumption DEF AllTypes, TypeOK, Respond, Answer, Returned

LEMMA StepReplay == IInv /\ Protocol!IInv /\ ReplayInv /\ [ApiNext]_apiVars => ReplayInv'
<1> SUFFICES ASSUME IInv, Protocol!IInv, ReplayInv, [ApiNext]_apiVars
             PROVE  ReplayInv'
  OBVIOUS
<1>1. [Protocol!Next]_Protocol!vars /\ Protocol!TypeOK
  BY StepIsIdem, SameStep DEF Protocol!IInv
<1>2. ASSUME NEW s, Returned(s)
      PROVE  Returned(s)'
  BY <1>2, SettledStays, KeyedAssumption DEF Returned
<1>3. \A r \in Keyed : OwnCart(r)'
  BY StepCart DEF ReplayInv
<1>4. \A r \in Keyed : route'[r] = "save" => Returned(r)'
  BY <1>2, StepSaving DEF ReplayInv
<1>5. ASSUME NEW k \in Keys, Idem!Completed(k)'
      PROVE  Returned(row[k].response)'
  BY <1>1, <1>2, <1>5, ProtocolAssumptions, Protocol!ResponseOrigin
  DEF ReplayInv, Idem!Completed, Protocol!Completed
<1>6. ASSUME NEW r \in Keyed, replayOf'[r] # NoResponse
      PROVE  Returned(replayOf[r])'
  BY <1>1, <1>2, <1>6, ProtocolAssumptions, Protocol!ReplayOrigin
  DEF ReplayInv, Idem!Completed, Protocol!Completed, Protocol!TypeOK
<1> QED
  BY <1>3, <1>4, <1>5, <1>6 DEF ReplayInv

(***************************************************************************)
(* A replayed response, under a key whose claims outlive their handlers,   *)
(* describes a sale that is in the tables, for the cart of the client.     *)
(***************************************************************************)
THEOREM ReplaysShowSales == ApiSpec => []ReplayShowsSale
<1>1. ApiSpec => [](IInv /\ Protocol!IInv /\ ReplayInv)
  BY InitReplay, StepReplay, ServiceInvariance, ProtocolInvariance, PTL DEF ApiSpec
<1>2. IInv /\ Protocol!IInv /\ ReplayInv => ReplayShowsSale
  <2> SUFFICES ASSUME IInv, Protocol!IInv, ReplayInv, NEW r \in Keyed, key[r] \in PromptKeys,
                      replayOf[r] # NoResponse
               PROVE  LET s == replayOf[r] IN
                      /\ orders[s] # NoOrder
                      /\ orders[s].items = body[r]
                      /\ orders[s].status = IF answer[s] = 201 THEN "paid" ELSE "payment_failed"
    BY DEF ReplayShowsSale
  <2>1. PICK s \in Keyed : s = replayOf[r] /\ answer[s] \in {201, 402} /\ OwnCart(s)
    BY DEF ReplayInv, Returned
  <2>2. body[s] = body[r]
    BY <2>1, ProtocolInv DEF Protocol!ReplayFaithful, Protocol!PromptRequest
  <2> QED
    BY <2>1, <2>2, KeyedAssumption DEF IInv, AnswerTruthful, OwnCart
<1> QED
  BY <1>1, <1>2, PTL

-----------------------------------------------------------------------------
(* Orders placed under one key *)

\* How far the route and its call of create_order have come.
Together(r) ==
  /\ route[r] \in Protocol!BeforeClaim => pc[r] = "idle"
  /\ pc[r] \in {"select", "reserve", "charge"} => route[r] = "work"
  /\ pc[r] \in {"settle", "respond"} => route[r] = "finish"
  /\ route[r] \in {"work", "finish"} => answer[r] = 0

(***************************************************************************)
(* As in IdempotencyProofs, the budget pays in advance for the requests    *)
(* that are about to place an order, or to delete the row of the key, and  *)
(* for the next INSERT while there is no row.                              *)
(***************************************************************************)
MaySpend(r) == route[r] \in Protocol!Working /\ (orders[r] = NoOrder \/ route[r] = "release")

MaySpendUnder(k) == {r \in Keyed : key[r] = k /\ MaySpend(r)}

Absent(r) == row[key[r]] = NoRow

BudgetInv ==
  /\ \A r \in Keyed : Together(r)
  /\ \A k \in Keys :
       Cardinality(MaySpendUnder(k)) + Cardinality(OrdersUnder(k)) + Count(row[k] = NoRow)
         <= 1 + Cardinality(Idem!Takeovers(k)) + Cardinality(FailedAfterPlacing(k))

\* No step of a request makes its own account worse.
Account(r) ==
  Count(MaySpend(r)) + Count(orders[r] # NoOrder) + Count(Absent(r))
    - Count(claim[r] = "taken_over") - Count(orders[r] # NoOrder /\ answer[r] = 500)

LEMMA OwnAccount ==
  ASSUME IInv, Protocol!IInv, NEW r \in Keyed, KeyedStep(r), UNCHANGED <<key, body>>, Together(r)
  PROVE  Together(r)' /\ Account(r)' <= Account(r)
<1>1. /\ r \in Requests /\ TypeOK /\ PhaseOf(r)
      /\ Protocol!TypeOK /\ Protocol!PhaseOf(r)
  BY KeyedAssumption DEF IInv, PhaseInv, Protocol!IInv, Protocol!PhaseInv
<1>2. ASSUME Idem!StepOf(r) PROVE Protocol!Move(r)
  BY <1>1, <1>2, SameRequestStep, Protocol!StepMoves, ProtocolAssumptions
<1> USE <1>1
    DEF Together, Account, Count, MaySpend, Absent, PhaseOf, Protocol!PhaseOf, Protocol!BeforeClaim,
        Protocol!Working
<1>3. CASE Claim(r)
  <2>1. Protocol!Move(r) /\ UNCHANGED <<pc, orders, answer>>
    BY <1>2, <1>3 DEF Claim, Idem!StepOf, service, vars, database
  <2>2. route[r] \in Protocol!BeforeClaim
    BY <1>3 DEF Claim, Idem!Arrive, Idem!FailClaiming, Idem!InsertClaim, Idem!InsertConflict,
                Idem!TakeOver, Idem!NothingToTakeOver, Idem!Replay, Idem!Refuse,
                Idem!InsertRow, Idem!TakeOverRow
  <2> QED
    BY <2>1, <2>2 DEF Protocol!Move, Protocol!RowOf
<1>4. CASE RejectBody(r)
  BY <1>4 DEF RejectBody, Idem!RaiseBeforeCharge, Idem!GoTo, service, vars, database, Protocol!TypeOK
<1>5. CASE CallCreateOrder(r)
  BY <1>5 DEF CallCreateOrder, Begin, claims, database, TypeOK
<1>6. CASE Advance(r)
  <2>1. UNCHANGED <<row, claim, route, answer>> /\ route[r] \in {"work", "finish"}
    BY <1>6 DEF Advance, claims, SelectWarehouse, ReserveRow, PlaceOrder, InsertOrder, ReleaseRow,
                RecordPayment, SettlePaid, SettleDeclined, Settle
  <2>2. \/ pc'[r] = pc[r]
        \/ pc[r] \in {"select", "reserve"} /\ pc'[r] \in {"reserve", "charge"}
        \/ pc[r] = "settle" /\ pc'[r] = "respond"
    BY <1>6 DEF Advance, SelectWarehouse, ReserveRow, PlaceOrder, InsertOrder, ReleaseRow,
                RecordPayment, SettlePaid, SettleDeclined, Settle, TypeOK
  <2>3. orders[r] = NoOrder \/ route[r] = "finish"
    BY <1>6 DEF Advance, SelectWarehouse, ReserveRow, PlaceOrder, InsertOrder, ReleaseRow,
                RecordPayment, SettlePaid, SettleDeclined, Settle, TypeOK
  <2>4. orders[r] # NoOrder => orders'[r] # NoOrder
    <3>1. CASE RecordPayment(r)
      BY <3>1, SettledStatus
      DEF RecordPayment, SettlePaid, SettleDeclined, Settle, Statuses
    <3>2. CASE ~RecordPayment(r)
      BY <1>6, <3>2
      DEF Advance, SelectWarehouse, ReserveRow, PlaceOrder, InsertOrder, ReleaseRow, database
    <3> QED
      BY <3>1, <3>2
  <2> QED
    BY <2>1, <2>2, <2>3, <2>4
<1>7. CASE ChargeCard(r)
  BY <1>7 DEF ChargeCard, Charge, Idem!Charge, Idem!GoTo, database, TypeOK, Protocol!TypeOK
<1>8. CASE Raise(r)
  <2>1. /\ route[r] \in {"work", "finish"} /\ route'[r] = "release"
        /\ UNCHANGED <<row, claim>>
    BY <1>8 DEF Raise, Idem!RaiseBeforeCharge, Idem!RaiseAfterCharge, Idem!GoTo, Protocol!TypeOK
  <2>2. /\ pc'[r] = "done"
        /\ \/ answer'[r] = 500
           \/ pc[r] \in {"idle", "select", "reserve"} /\ orders' = orders
    BY <1>8 DEF Raise, NotFound, NoWarehouse, LoseRace, Fail, LoseAcknowledgement, InsertOrder,
                SettlePaid, SettleDeclined, Settle, Answer, TypeOK, database
  <2> QED
    BY <2>1, <2>2
<1>9. CASE Return(r)
  BY <1>9 DEF Return, Respond, Answer, Idem!Finish, Idem!GoTo, database, TypeOK, Protocol!TypeOK
<1>10. CASE Store(r)
  <2>1. Protocol!Move(r) /\ UNCHANGED <<pc, orders, answer>>
    BY <1>2, <1>10 DEF Store, Idem!StepOf, service, vars, database
  <2>2. route[r] \in {"save", "release"}
    BY <1>10 DEF Store, Idem!Save, Idem!SaveFails, Idem!Release, Idem!ReleaseFails
  <2> QED
    BY <2>1, <2>2 DEF Protocol!Move, Protocol!RowOf
<1>11. CASE Kill(r)
  <2>1. route'[r] = "crashed" /\ UNCHANGED <<row, claim>>
    BY <1>11 DEF Kill, Idem!Crash, Idem!GoTo, Protocol!TypeOK
  <2>2. UNCHANGED <<orders, answer>> /\ pc'[r] \in {"idle", "done", "crashed"}
    BY <1>11 DEF Kill, Crash, service, vars, database, TypeOK
  <2> QED
    BY <2>1, <2>2
<1> QED
  BY <1>3, <1>4, <1>5, <1>6, <1>7, <1>8, <1>9, <1>10, <1>11 DEF KeyedStep

\* A step of another request leaves the orders and the claim of this one alone.
LEMMA KeyedFollowsProtocol ==
  ASSUME Protocol!IInv, NEW r \in Keyed, KeyedStep(r)
  PROVE  /\ UNCHANGED <<key, body>>
         /\ \A s \in Keyed : s # r => route'[s] = route[s] /\ claim'[s] = claim[s]
         /\ \A k \in Keys : k # key[r] => row'[k] = row[k]
<1>1. Protocol!TypeOK
  BY DEF Protocol!IInv
<1>2. Idem!StepOf(r) \/ UNCHANGED claims
  BY DEF KeyedStep, Claim, RejectBody, CallCreateOrder, Advance, ChargeCard, Raise, Return, Store,
         Kill, Idem!StepOf
<1> QED
  BY <1>1, <1>2, SameRequestStep, ProtocolAssumptions, Protocol!StepIsLocal
  DEF claims, Protocol!Untouched, Protocol!locals

LEMMA OthersKeepOrders ==
  ASSUME IInv, NEW r \in Keyed, KeyedStep(r), NEW s \in Keyed, s # r
  PROVE  pc'[s] = pc[s] /\ orders'[s] = orders[s] /\ answer'[s] = answer[s]
<1>1. StepOf(r) \/ UNCHANGED vars
  BY KeyedIsService DEF CallCreateOrder, StepOf
<1> QED
  BY <1>1, OthersUntouched, KeyedAssumption DEF IInv, Untouched, vars, database

LEMMA InitBudget == ApiInit => BudgetInv
<1> SUFFICES ASSUME ApiInit PROVE BudgetInv
  OBVIOUS
<1>1. \A r \in Keyed : Together(r)
  BY KeyedAssumption DEF ApiInit, Init, Idem!Init, Together, Protocol!BeforeClaim
<1>2. ASSUME NEW k \in Keys
      PROVE  /\ MaySpendUnder(k) = {} /\ OrdersUnder(k) = {}
             /\ Idem!Takeovers(k) = {} /\ FailedAfterPlacing(k) = {}
             /\ row[k] = NoRow
  BY KeyedAssumption
  DEF ApiInit, Init, Idem!Init, MaySpendUnder, MaySpend, Protocol!Working, OrdersUnder,
      Idem!Takeovers, FailedAfterPlacing
<1>3. Cardinality({}) = 0
  BY FS_EmptySet
<1> QED
  BY <1>1, <1>2, <1>3 DEF BudgetInv, Count

LEMMA KeyedStepBudget ==
  ASSUME IInv, Protocol!IInv, BudgetInv, NEW r \in Keyed, KeyedStep(r)
  PROVE  BudgetInv'
<1>1. /\ UNCHANGED <<key, body>>
      /\ \A s \in Keyed : s # r => route'[s] = route[s] /\ claim'[s] = claim[s]
      /\ \A s \in Keyed : s # r => pc'[s] = pc[s] /\ orders'[s] = orders[s] /\ answer'[s] = answer[s]
      /\ \A k \in Keys : k # key[r] => row'[k] = row[k]
  BY KeyedFollowsProtocol, OthersKeepOrders
<1>2. Together(r)' /\ Account(r)' <= Account(r)
  BY <1>1, OwnAccount DEF BudgetInv
<1>3. ASSUME NEW s \in Keyed PROVE Together(s)'
  BY <1>1, <1>2 DEF BudgetInv, Together
<1>4. ASSUME NEW k \in Keys
      PROVE  Cardinality(MaySpendUnder(k)') + Cardinality(OrdersUnder(k)') + Count(row'[k] = NoRow)
               <= 1 + Cardinality(Idem!Takeovers(k)') + Cardinality(FailedAfterPlacing(k)')
  <2>1. Cardinality(MaySpendUnder(k)) + Cardinality(OrdersUnder(k)) + Count(row[k] = NoRow)
          <= 1 + Cardinality(Idem!Takeovers(k)) + Cardinality(FailedAfterPlacing(k))
    BY DEF BudgetInv
  <2>2. \A s : s # r =>
          /\ s \in MaySpendUnder(k) <=> s \in MaySpendUnder(k)'
          /\ s \in OrdersUnder(k) <=> s \in OrdersUnder(k)'
          /\ s \in Idem!Takeovers(k) <=> s \in Idem!Takeovers(k)'
          /\ s \in FailedAfterPlacing(k) <=> s \in FailedAfterPlacing(k)'
    BY <1>1 DEF MaySpendUnder, MaySpend, OrdersUnder, Idem!Takeovers, FailedAfterPlacing
  <2>3. \A S \in SUBSET Keyed : IsFiniteSet(S)
    BY RequestsAssumption, KeyedAssumption, FS_Subset
  <2>4. Count(r \in MaySpendUnder(k)') + Count(r \in OrdersUnder(k)') + Count(row'[k] = NoRow)
          - Count(r \in Idem!Takeovers(k)') - Count(r \in FailedAfterPlacing(k)')
        <= Count(r \in MaySpendUnder(k)) + Count(r \in OrdersUnder(k)) + Count(row[k] = NoRow)
             - Count(r \in Idem!Takeovers(k)) - Count(r \in FailedAfterPlacing(k))
    <3>1. CASE key[r] # k
      <4>1. /\ r \notin MaySpendUnder(k) /\ r \notin MaySpendUnder(k)'
            /\ r \notin OrdersUnder(k) /\ r \notin OrdersUnder(k)'
            /\ r \notin Idem!Takeovers(k) /\ r \notin Idem!Takeovers(k)'
            /\ r \notin FailedAfterPlacing(k) /\ r \notin FailedAfterPlacing(k)'
        BY <1>1, <3>1 DEF MaySpendUnder, OrdersUnder, Idem!Takeovers, FailedAfterPlacing
      <4>2. row'[k] = row[k]
        BY <1>1, <3>1
      <4> QED
        BY <4>1, <4>2 DEF Count
    <3>2. CASE key[r] = k
      <4>1. /\ r \in MaySpendUnder(k) <=> MaySpend(r)
            /\ r \in MaySpendUnder(k)' <=> MaySpend(r)'
            /\ r \in OrdersUnder(k) <=> orders[r] # NoOrder
            /\ r \in OrdersUnder(k)' <=> orders'[r] # NoOrder
            /\ r \in Idem!Takeovers(k) <=> claim[r] = "taken_over"
            /\ r \in Idem!Takeovers(k)' <=> claim'[r] = "taken_over"
            /\ r \in FailedAfterPlacing(k) <=> (orders[r] # NoOrder /\ answer[r] = 500)
            /\ r \in FailedAfterPlacing(k)' <=> (orders'[r] # NoOrder /\ answer'[r] = 500)
            /\ Absent(r) <=> row[k] = NoRow
            /\ Absent(r)' <=> row'[k] = NoRow
        BY <1>1, <3>2 DEF MaySpendUnder, OrdersUnder, Idem!Takeovers, FailedAfterPlacing, Absent
      <4> QED
        BY <1>2, <4>1 DEF Account, Count
    <3> QED
      BY <3>1, <3>2
  <2>5. /\ Cardinality(MaySpendUnder(k)) \in Nat /\ Cardinality(MaySpendUnder(k)') \in Nat
        /\ Cardinality(MaySpendUnder(k)') + Count(r \in MaySpendUnder(k))
             = Cardinality(MaySpendUnder(k)) + Count(r \in MaySpendUnder(k)')
    BY <2>2, <2>3, ChangeAtOne DEF MaySpendUnder
  <2>6. /\ Cardinality(OrdersUnder(k)) \in Nat /\ Cardinality(OrdersUnder(k)') \in Nat
        /\ Cardinality(OrdersUnder(k)') + Count(r \in OrdersUnder(k))
             = Cardinality(OrdersUnder(k)) + Count(r \in OrdersUnder(k)')
    BY <2>2, <2>3, ChangeAtOne DEF OrdersUnder
  <2>7. /\ Cardinality(Idem!Takeovers(k)) \in Nat /\ Cardinality(Idem!Takeovers(k)') \in Nat
        /\ Cardinality(Idem!Takeovers(k)') + Count(r \in Idem!Takeovers(k))
             = Cardinality(Idem!Takeovers(k)) + Count(r \in Idem!Takeovers(k)')
    BY <2>2, <2>3, ChangeAtOne DEF Idem!Takeovers
  <2>8. /\ Cardinality(FailedAfterPlacing(k)) \in Nat /\ Cardinality(FailedAfterPlacing(k)') \in Nat
        /\ Cardinality(FailedAfterPlacing(k)') + Count(r \in FailedAfterPlacing(k))
             = Cardinality(FailedAfterPlacing(k)) + Count(r \in FailedAfterPlacing(k)')
    <3>1. IsFiniteSet(FailedAfterPlacing(k)) /\ IsFiniteSet(FailedAfterPlacing(k)')
      BY <2>3 DEF FailedAfterPlacing, OrdersUnder
    <3> QED
      BY <2>2, <3>1, ChangeAtOne
  <2> QED
    BY <2>1, <2>4, <2>5, <2>6, <2>7, <2>8 DEF Count
<1> QED
  BY <1>3, <1>4 DEF BudgetInv

\* Whatever else happens leaves the keyed requests alone, and no row appears or goes.
LEMMA OtherStepBudget ==
  ASSUME BudgetInv, UNCHANGED <<key, route, claim>>,
         \A r \in Keyed : pc'[r] = pc[r] /\ orders'[r] = orders[r] /\ answer'[r] = answer[r],
         \A k \in Keys : row'[k] = NoRow <=> row[k] = NoRow
  PROVE  BudgetInv'
<1>1. \A r \in Keyed : Together(r)'
  BY DEF BudgetInv, Together
<1>2. ASSUME NEW k \in Keys
      PROVE  /\ MaySpendUnder(k)' = MaySpendUnder(k)
             /\ OrdersUnder(k)' = OrdersUnder(k)
             /\ Idem!Takeovers(k)' = Idem!Takeovers(k)
             /\ FailedAfterPlacing(k)' = FailedAfterPlacing(k)
             /\ Count(row'[k] = NoRow) = Count(row[k] = NoRow)
  BY DEF MaySpendUnder, MaySpend, OrdersUnder, Idem!Takeovers, FailedAfterPlacing, Count
<1> QED
  BY <1>1, <1>2 DEF BudgetInv

LEMMA StepBudget == IInv /\ Protocol!IInv /\ BudgetInv /\ [ApiNext]_apiVars => BudgetInv'
<1> SUFFICES ASSUME IInv, Protocol!IInv, BudgetInv, [ApiNext]_apiVars
             PROVE  BudgetInv'
  OBVIOUS
<1>1. ASSUME NEW r \in Requests \ Keyed, KeylessStep(r)
      PROVE  BudgetInv'
  <2>1. StepOf(r) /\ UNCHANGED claims
    BY <1>1 DEF KeylessStep, StepOf
  <2>2. \A s \in Keyed : pc'[s] = pc[s] /\ orders'[s] = orders[s] /\ answer'[s] = answer[s]
    BY <2>1, OthersUntouched, KeyedAssumption DEF IInv, Untouched
  <2> QED
    BY <2>1, <2>2, OtherStepBudget DEF claims
<1>2. ASSUME NEW k \in Keys, UNCHANGED service, Idem!GoStale(k)
      PROVE  BudgetInv'
  <2>1. row[k] \in Protocol!Row /\ row \in [Keys -> Protocol!Row \union {NoRow}]
    BY <1>2 DEF Idem!GoStale, Idem!Claimed, Protocol!IInv, Protocol!TypeOK
  <2>2. [row[k] EXCEPT !.stale = TRUE] \in Protocol!Row
    BY <2>1 DEF Protocol!Row
  <2>3. \A j \in Keys : row'[j] = NoRow <=> row[j] = NoRow
    BY <1>2, <2>1, <2>2, ProtocolAssumptions DEF Idem!GoStale
  <2> QED
    BY <1>2, <2>3, OtherStepBudget DEF Idem!GoStale, Idem!locals, service, vars, database
<1>3. CASE Get \/ ApiTerminating \/ UNCHANGED apiVars
  BY <1>3, OtherStepBudget DEF Get, ApiTerminating, apiVars, service, claims, vars, database
<1> QED
  BY <1>1, <1>2, <1>3, KeyedStepBudget DEF ApiNext, Post

(***************************************************************************)
(* For any number of requests under a key, in any order and with any       *)
(* faults: each order beyond the first is paid for by the takeover of an   *)
(* abandoned claim or by a 500 that left an order behind.                  *)
(***************************************************************************)
THEOREM OrdersAreBounded == ApiSpec => []OrderBudget
<1>1. ApiSpec => []BudgetInv
  BY InitBudget, StepBudget, ServiceInvariance, ProtocolInvariance, PTL DEF ApiSpec
<1>2. BudgetInv => OrderBudget
  <2> SUFFICES ASSUME BudgetInv, NEW k \in Keys
               PROVE  Cardinality(OrdersUnder(k))
                        <= 1 + Cardinality(Idem!Takeovers(k)) + Cardinality(FailedAfterPlacing(k))
    BY DEF OrderBudget
  <2>1. \A S \in SUBSET Keyed : Cardinality(S) \in Nat
    BY RequestsAssumption, KeyedAssumption, FS_Subset, FS_CardinalityType
  <2>2. /\ Cardinality(MaySpendUnder(k)) \in Nat /\ Cardinality(OrdersUnder(k)) \in Nat
        /\ Cardinality(Idem!Takeovers(k)) \in Nat /\ Cardinality(FailedAfterPlacing(k)) \in Nat
    BY <2>1 DEF MaySpendUnder, OrdersUnder, Idem!Takeovers, FailedAfterPlacing
  <2> QED
    BY <2>2 DEF BudgetInv, Count
<1> QED
  BY <1>1, <1>2, PTL
=============================================================================
