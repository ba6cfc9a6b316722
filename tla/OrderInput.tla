----------------------------- MODULE OrderInput -----------------------------
(***************************************************************************)
(* One POST /orders by itself, from the body to the bill: the body is      *)
(* validated, its items are looked up, priced and given to the nearest     *)
(* warehouse that has them all, and the card is charged.  What other       *)
(* requests do meanwhile is the matter of OrderService.                    *)
(***************************************************************************)
EXTENDS RequestValidation, WarehouseSelection, PaymentGateway

CONSTANTS
  Bodies,      \* the JSON bodies clients send
  TablesOf(_), \* the tables a body may meet
  IntegerMax,  \* the largest value of a column of type INTEGER
  Nothing      \* no outcome, no order, no result yet

\* Lists hold items and items hold numbers, or something else that stands for it.
ASSUME BodiesAssumption ==
  \A b \in Bodies : b # NotAnObject =>
    /\ b.items # NotAList =>
         b.items \in Seq([product_id : Int \union {NotInt}, quantity : Int \union {NotInt}]
                           \union {NotAnObject})
    /\ b.payment # NotAnObject => b.payment.digits \in Seq(Digits)

\* Prices and quantities are not negative (CHECK), and stock is in a warehouse of the
\* table of warehouses (REFERENCES).
ASSUME TablesAssumption ==
  \A b \in Bodies : \A t \in TablesOf(b) :
    /\ t.prices \in [DOMAIN t.prices -> Nat]
    /\ t.distance \in [DOMAIN t.distance -> Nat]
    /\ DOMAIN t.inventory \subseteq (DOMAIN t.distance) \X Nat
    /\ t.inventory \in [DOMAIN t.inventory -> Nat]

ASSUME IntegerAssumption == IntegerMax \in Nat

VARIABLES
  body,
  tables,    \* customers: ids; prices and inventory: partial functions; distance
  outcome,   \* what parse_create_order_request returned or raised
  order,     \* the order inserted, or the status of the error instead
  result     \* what charge returned

vars == <<body, tables, outcome, order, result>>

Init ==
  /\ body \in Bodies
  /\ tables \in TablesOf(body)
  /\ outcome = Nothing
  /\ order = Nothing
  /\ result = Nothing

Parse ==
  /\ outcome = Nothing
  /\ outcome' = parse_create_order_request(body)
  /\ UNCHANGED <<body, tables, order, result>>

-----------------------------------------------------------------------------
(* OrderService.create_order, up to the end of phase 1 *)

Items == outcome.items

Known ==
  /\ body.customer_id \in tables.customers
  /\ ProductIds(Items) \subseteq DOMAIN tables.prices

\* A bug to detect: the prices of the lines are added up, not of the units.
PricePerLine(items) ==
  SumFunction([i \in DOMAIN items |-> tables.prices[items[i].product_id]])

TotalCents(items) ==
  SumFunction([i \in DOMAIN items |-> tables.prices[items[i].product_id] * items[i].quantity])

Candidates == find_best_warehouse(tables.inventory, Items, tables.distance)

Prepare ==
  /\ outcome # Nothing
  /\ outcome.kind = "accepted"
  /\ order = Nothing
  /\ UNCHANGED <<body, tables, outcome, result>>

NotFound == Prepare /\ ~Known /\ order' = [status |-> "not_found"]

NoWarehouse == Prepare /\ Known /\ Candidates = {} /\ order' = [status |-> "conflict"]

\* Python's integers do not overflow; the INSERT raises, and stock is put back.
TotalOutOfRange ==
  /\ Prepare /\ Known /\ Candidates # {}
  /\ TotalCents(Items) > IntegerMax
  /\ order' = [status |-> "internal_error"]

Place ==
  /\ Prepare /\ Known
  /\ TotalCents(Items) <= IntegerMax
  /\ \E w \in Candidates :
       order' = [status |-> "pending_payment", warehouse |-> w, total_cents |-> TotalCents(Items)]

-----------------------------------------------------------------------------
IsPlaced == order # Nothing /\ order.status = "pending_payment"

Charge ==
  /\ IsPlaced
  /\ result = Nothing
  /\ result' = charge(body.payment.digits, order.total_cents)
  /\ UNCHANGED <<body, tables, outcome, order>>

Next == Parse \/ NotFound \/ NoWarehouse \/ TotalOutOfRange \/ Place \/ Charge

Spec == Init /\ [][Next]_vars

-----------------------------------------------------------------------------
IsAccepted == outcome # Nothing /\ outcome.kind = "accepted"
IsRefused == outcome # Nothing /\ outcome.kind = "refused"

(***************************************************************************)
(* Types; a total fits its column; of the card number nothing but its last *)
(* four digits is in what record_payment stores (MockPaymentGateway).      *)
(***************************************************************************)
TypeOK ==
  /\ IsAccepted => \A i \in DOMAIN outcome.items :
                      outcome.items[i] \in [product_id : Nat \ {0}, quantity : Nat \ {0}]
  /\ IsPlaced => order.total_cents \in 0 .. IntegerMax
  /\ result # Nothing =>
       /\ result.success \in BOOLEAN
       /\ result.card_last4 \in UNION {[1 .. n -> Digits] : n \in 0 .. 4}

\* Everything that is wrong with an object, each check made by itself.
AddressFaults(address) ==
  IF address = NotAnObject THEN {Problem("shipping_address", "", 0)}
  ELSE {Problem("shipping_address", f, 0) : f \in
          {g \in RequiredFields : address[g] # "text"}
          \union {g \in AddressFields : address[g] = "truthy"}}

ItemFaults(items, i) ==
  IF items[i] = NotAnObject THEN {Problem("items", "", i)}
  ELSE {Problem("items", f, i) : f \in
          {g \in {"product_id", "quantity"} : ~IsPositive(items[i][g])}}

ItemsFaults(items) ==
  IF items = NotAList \/ items = <<>> THEN {Problem("items", "", 0)}
  ELSE UNION {ItemFaults(items, i) : i \in DOMAIN items}

Faults ==
  IF body = NotAnObject THEN {Problem("body", "", 0)}
  ELSE CustomerProblems(body.customer_id) \union AddressFaults(body.shipping_address)
       \union ItemsFaults(body.items) \union PaymentProblems(body.payment)

(***************************************************************************)
(* The validators agree with the rules: a body is accepted exactly if      *)
(* nothing is wrong with it, whichever validator returns early, skips an   *)
(* item or raises.                                                         *)
(***************************************************************************)
AcceptedIffFaultless == outcome # Nothing => (IsAccepted <=> Faults = {})

(***************************************************************************)
(* A client that gets a 400 hears of every part of its body that is        *)
(* faulty, and of no other part (parse_create_order_request collects the   *)
(* problems of all validators).                                            *)
(***************************************************************************)
FaultyPartsNamed ==
  IsRefused => {e.part : e \in outcome.errors} = {f.part : f \in Faults}

UnitsOf(items, p) ==
  SumFunctionOnSet([i \in DOMAIN items |-> items[i].quantity],
                   {i \in DOMAIN items : items[i].product_id = p})

(***************************************************************************)
(* The client gets, and pays for, what it asked for: every product has one *)
(* line, in the order of its first mention, with all the units of its      *)
(* entries (_validate_items), and the total is the price of all the units  *)
(* of the body (create_order).  OrderService relies on one line per        *)
(* product: each line is one UPDATE of one inventory row.                  *)
(***************************************************************************)
CartKeepsUnits ==
  /\ IsPlaced => order.total_cents =
       SumFunction([i \in DOMAIN body.items |->
                      tables.prices[body.items[i].product_id] * body.items[i].quantity])
  /\ IsAccepted =>
       LET cart == outcome.items
           first(p) == Min({i \in DOMAIN body.items : body.items[i].product_id = p})
       IN /\ {cart[i].product_id : i \in DOMAIN cart}
               = {body.items[i].product_id : i \in DOMAIN body.items}
          /\ \A i \in DOMAIN cart : cart[i].quantity = UnitsOf(body.items, cart[i].product_id)
          /\ \A i, j \in DOMAIN cart :
               i < j => first(cart[i].product_id) < first(cart[j].product_id)

Card == body.payment.digits

(***************************************************************************)
(* A single warehouse ships the order, although validation, merging and    *)
(* selection each see another form of it: the one that is picked holds all *)
(* units the body asks for, of every product; every nearer one is short of *)
(* something; and only if all are short the client is turned away.         *)
(***************************************************************************)
Holds(w, p) == IF <<w, p>> \in DOMAIN tables.inventory THEN tables.inventory[<<w, p>>] ELSE 0

IsShort(w) == \E i \in DOMAIN body.items :
  LET p == body.items[i].product_id IN Holds(w, p) < UnitsOf(body.items, p)

NearestThatFills ==
  /\ IsPlaced =>
       /\ ~IsShort(order.warehouse)
       /\ \A w \in DOMAIN tables.distance :
            tables.distance[w] < tables.distance[order.warehouse] => IsShort(w)
  /\ order # Nothing /\ order.status = "conflict" => \A w \in DOMAIN tables.distance : IsShort(w)

\* The digits a hasty hand may enter instead: one digit wrong, or two neighbours
\* swapped, except for 09 and 90, which Luhn cannot tell apart.
Slips(card) ==
  {[card EXCEPT ![i] = card[i + 1], ![i + 1] = card[i]] :
     i \in {j \in 1 .. Len(card) - 1 : {card[j], card[j + 1]} # {0, 9}}} \union
  UNION {{[card EXCEPT ![i] = d] : d \in Digits} : i \in DOMAIN card}

(***************************************************************************)
(* The checksum earns its place: if a card is charged, no number that a    *)
(* slip of the hand makes of it would have been (_luhn_valid).             *)
(***************************************************************************)
MistypedCardRefused ==
  result # Nothing /\ result.success =>
    \A slip \in Slips(Card) \ {Card} : ~charge(slip, order.total_cents).success

(***************************************************************************)
(* Each of the four test cards passes the checks before the lookup and is  *)
(* declined with its own code, and no other card gets that code (comment   *)
(* on _DECLINE_CODES).                                                     *)
(***************************************************************************)
TestCardsDecline ==
  result # Nothing /\ order.total_cents > 0 =>
    \A code \in DOMAIN DeclineCode : result.failure_code = code <=> Card = DeclineCard(code)

-----------------------------------------------------------------------------
(***************************************************************************)
(* "Collects every validation problem found (rather than stopping at the   *)
(* first one)" (docstring of parse_create_order_request).                  *)
(***************************************************************************)
AllProblemsReported ==
  outcome # Nothing /\ Faults # {} => outcome = Refused(Faults)
=============================================================================
