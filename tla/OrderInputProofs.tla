-------------------------- MODULE OrderInputProofs --------------------------
(***************************************************************************)
(* What holds of one POST /orders by itself for any body, any tables and   *)
(* any card number: what validation accepts, what merging and pricing make *)
(* of it, which warehouse ships it and which cards are refused.            *)
(***************************************************************************)
EXTENDS OrderInput, DataProofs, SequenceTheorems

-----------------------------------------------------------------------------
(* The warehouse: the detour of find_best_warehouse by way of the rows that *)
(* match and a dictionary per warehouse computes what its docstring promises *)

IsInventory(inventory, Ws) ==
  \A row \in DOMAIN inventory :
    row = <<row[1], row[2]>> /\ row[1] \in Ws /\ inventory[row] \in Nat

\* What _validate_items lets through.
IsOrder(items) ==
  DOMAIN items # {} /\ \A i \in DOMAIN items : items[i].quantity \in Nat \ {0}

\* The quantity of a row, 0 if there is none.
QuantityAt(inventory, w, p) == IF <<w, p>> \in DOMAIN inventory THEN inventory[<<w, p>>] ELSE 0

HasAll(inventory, items, w) ==
  \A i \in DOMAIN items : QuantityAt(inventory, w, items[i].product_id) >= items[i].quantity

\* The dictionary of a warehouse holds the units of the products that are asked for.
LEMMA UnitsOfRows ==
  ASSUME NEW Ws, NEW inventory, IsInventory(inventory, Ws), NEW ids,
         NEW w \in DOMAIN StockByWarehouse(inventory, ids), NEW p \in ids
  PROVE  Units(StockByWarehouse(inventory, ids)[w], p) = QuantityAt(inventory, w, p)
<1> DEFINE matching == {row \in DOMAIN inventory : row[2] \in ids}
           products == {row[2] : row \in {r \in matching : r[1] = w}}
           stock == StockByWarehouse(inventory, ids)
<1>1. stock[w] = [q \in products |-> inventory[<<w, q>>]]
  BY DEF StockByWarehouse
<1>2. p \in products <=> <<w, p>> \in DOMAIN inventory
  <2>1. ASSUME p \in products PROVE <<w, p>> \in DOMAIN inventory
    <3>1. PICK row \in matching : row[1] = w /\ row[2] = p
      BY <2>1
    <3>2. row = <<w, p>>
      BY <3>1 DEF IsInventory
    <3> QED
      BY <3>1, <3>2
  <2>2. ASSUME <<w, p>> \in DOMAIN inventory PROVE p \in products
    <3>1. <<w, p>> \in matching /\ <<w, p>>[1] = w /\ <<w, p>>[2] = p
      BY <2>2
    <3> QED
      BY <3>1
  <2> QED
    BY <2>1, <2>2
<1> HIDE DEF products
<1> QED
  BY <1>1, <1>2 DEF Units, QuantityAt

\* Whoever has every product of an order that is not empty has a dictionary.
LEMMA HolderHasRows ==
  ASSUME NEW Ws, NEW inventory, IsInventory(inventory, Ws), NEW items, IsOrder(items),
         NEW w, HasAll(inventory, items, w)
  PROVE  w \in DOMAIN StockByWarehouse(inventory, ProductIds(items))
<1>1. PICK i \in DOMAIN items : items[i].quantity \in Nat \ {0}
  BY DEF IsOrder
<1>2. items[i].product_id \in ProductIds(items)
  BY DEF ProductIds
<1>3. <<w, items[i].product_id>> \in DOMAIN inventory
  BY <1>1 DEF HasAll, QuantityAt
<1> DEFINE matching == {row \in DOMAIN inventory : row[2] \in ProductIds(items)}
<1>4. <<w, items[i].product_id>> \in matching
  BY <1>2, <1>3
<1>5. DOMAIN StockByWarehouse(inventory, ProductIds(items)) = {row[1] : row \in matching}
  BY DEF StockByWarehouse
<1> QED
  BY <1>4, <1>5

(***************************************************************************)
(* A warehouse is eligible exactly if it has enough of every product of    *)
(* the order: the condition that OrderService and Fulfilment assume of the *)
(* warehouse an order gets (find_best_warehouse, eligible_ids).            *)
(***************************************************************************)
THEOREM EligibilityIsExact ==
  ASSUME NEW Ws, NEW inventory, IsInventory(inventory, Ws), NEW items, IsOrder(items),
         NEW w
  PROVE  w \in EligibleIds(inventory, items) <=> HasAll(inventory, items, w)
<1> DEFINE ids == ProductIds(items)
           stock == StockByWarehouse(inventory, ids)
<1>1. w \in EligibleIds(inventory, items) <=> w \in DOMAIN stock /\ Fills(stock[w], items)
  BY DEF EligibleIds
<1>2. ASSUME w \in DOMAIN stock
      PROVE  Fills(stock[w], items) <=> HasAll(inventory, items, w)
  <2>1. \A i \in DOMAIN items : items[i].product_id \in ids
    BY DEF ProductIds
  <2>2. \A p \in ids : Units(stock[w], p) = QuantityAt(inventory, w, p)
    BY <1>2, UnitsOfRows
  <2> HIDE DEF stock, ids
  <2> QED
    BY <2>1, <2>2 DEF Fills, HasAll
<1>3. HasAll(inventory, items, w) => w \in DOMAIN stock
  BY HolderHasRows
<1> QED
  BY <1>1, <1>2, <1>3

LEMMA EligibleAreKnown ==
  ASSUME NEW Ws, NEW inventory, IsInventory(inventory, Ws), NEW items
  PROVE  EligibleIds(inventory, items) \subseteq Ws
<1> SUFFICES ASSUME NEW w \in EligibleIds(inventory, items) PROVE w \in Ws
  OBVIOUS
<1>1. w \in DOMAIN StockByWarehouse(inventory, ProductIds(items))
  BY DEF EligibleIds
<1>2. PICK row \in DOMAIN inventory : w = row[1]
  BY <1>1 DEF StockByWarehouse
<1> QED
  BY <1>2 DEF IsInventory

(***************************************************************************)
(* The warehouse that is returned has enough of every product, and each    *)
(* warehouse that is nearer lacks some (docstring of find_best_warehouse). *)
(***************************************************************************)
THEOREM SelectionIsNearest ==
  ASSUME NEW Ws, NEW inventory, IsInventory(inventory, Ws), NEW items, IsOrder(items),
         NEW distance \in [Ws -> Nat], NEW w \in find_best_warehouse(inventory, items, distance)
  PROVE  /\ HasAll(inventory, items, w)
         /\ \A v \in Ws : distance[v] < distance[w] => ~HasAll(inventory, items, v)
<1>1. w \in EligibleIds(inventory, items)
      /\ \A v \in EligibleIds(inventory, items) : distance[w] <= distance[v]
  BY DEF find_best_warehouse
<1>2. HasAll(inventory, items, w)
  BY <1>1, EligibilityIsExact
<1>3. w \in Ws
  BY <1>1, EligibleAreKnown
<1>4. ASSUME NEW v \in Ws, distance[v] < distance[w], HasAll(inventory, items, v) PROVE FALSE
  <2>1. v \in EligibleIds(inventory, items)
    BY <1>4, EligibilityIsExact
  <2> QED
    BY <1>1, <1>3, <1>4, <2>1
<1> QED
  BY <1>2, <1>4

(***************************************************************************)
(* Nobody is turned away whom a warehouse can serve: if none is returned,  *)
(* each of them lacks something (NoWarehouseAvailable).                    *)
(***************************************************************************)
THEOREM SelectionFinds ==
  ASSUME NEW Ws, NEW inventory, IsInventory(inventory, Ws), NEW items, IsOrder(items),
         NEW distance \in [Ws -> Nat], find_best_warehouse(inventory, items, distance) = {},
         NEW w
  PROVE  ~HasAll(inventory, items, w)
<1> DEFINE ids == EligibleIds(inventory, items)
           far == {distance[v] : v \in ids}
<1>1. SUFFICES ASSUME w \in ids PROVE FALSE
  BY EligibilityIsExact
<1>2. ids \subseteq Ws
  BY EligibleAreKnown
<1>3. far \in SUBSET Nat /\ far # {}
  BY <1>1, <1>2
<1>4. PICK n \in far : \A m \in far : n <= m
  <2> HIDE DEF far
  <2> QED
    BY <1>3, LeastNumber
<1>5. PICK v \in ids : n = distance[v]
  BY <1>4
<1>6. \A u \in ids : distance[v] <= distance[u]
  BY <1>4, <1>5
<1>7. v \in find_best_warehouse(inventory, items, distance)
  BY <1>5, <1>6 DEF find_best_warehouse
<1> QED
  BY <1>7

-----------------------------------------------------------------------------
(* What each step has been decided by *)

Inv ==
  /\ body \in Bodies
  /\ tables \in TablesOf(body)
  /\ outcome # Nothing => outcome = parse_create_order_request(body)
  /\ order # Nothing =>
       /\ IsAccepted
       /\ order.status = "conflict" => Candidates = {}
       /\ order.status = "pending_payment" =>
            /\ Known
            /\ order.warehouse \in Candidates
            /\ order.total_cents = TotalCents(Items)
            /\ order.total_cents <= IntegerMax
  /\ result # Nothing => IsPlaced /\ result = charge(Card, order.total_cents)

LEMMA InitInv == Init => Inv
BY DEF Init, Inv

LEMMA StepInv == Inv /\ [Next]_vars => Inv'
<1> SUFFICES ASSUME Inv, [Next]_vars PROVE Inv'
  OBVIOUS
<1>1. CASE Parse
  <2>1. order = Nothing /\ result = Nothing
    BY <1>1 DEF Inv, Parse, IsAccepted, IsPlaced
  <2> QED
    BY <1>1, <2>1 DEF Inv, Parse
<1>2. CASE NotFound
  BY <1>2 DEF Inv, NotFound, Prepare, IsAccepted, IsPlaced, Card
<1>3. CASE NoWarehouse
  BY <1>3 DEF Inv, NoWarehouse, Prepare, IsAccepted, IsPlaced, Candidates, Items, Card
<1>4. CASE TotalOutOfRange
  BY <1>4 DEF Inv, TotalOutOfRange, Prepare, IsAccepted, IsPlaced, Card
<1>5. CASE Place
  <2>1. PICK w \in Candidates :
          order' = [status |-> "pending_payment", warehouse |-> w,
                    total_cents |-> TotalCents(Items)]
    BY <1>5 DEF Place
  <2>2. TotalCents(Items)' = TotalCents(Items) /\ Known' = Known /\ Candidates' = Candidates
    BY <1>5 DEF Place, Prepare, TotalCents, Known, Candidates, Items
  <2> QED
    BY <1>5, <2>1, <2>2 DEF Inv, Place, Prepare, IsAccepted, IsPlaced, Card
<1>6. CASE Charge
  <2>1. TotalCents(Items)' = TotalCents(Items) /\ Known' = Known /\ Candidates' = Candidates
    BY <1>6 DEF Charge, TotalCents, Known, Candidates, Items
  <2> QED
    BY <1>6, <2>1 DEF Inv, Charge, IsAccepted, IsPlaced, Card
<1>7. CASE UNCHANGED vars
  <2>1. TotalCents(Items)' = TotalCents(Items) /\ Known' = Known /\ Candidates' = Candidates
    BY <1>7 DEF vars, TotalCents, Known, Candidates, Items
  <2> QED
    BY <1>7, <2>1 DEF Inv, vars, IsAccepted, IsPlaced, Card
<1> QED
  BY <1>1, <1>2, <1>3, <1>4, <1>5, <1>6, <1>7 DEF Next

LEMMA Invariance == Spec => []Inv
BY InitInv, StepInv, PTL DEF Spec

-----------------------------------------------------------------------------
(* Validation: the validators against the rules *)

\* An item has no faults exactly if it passes all checks.
LEMMA ItemJudged ==
  ASSUME NEW items, NEW i
  PROVE  ItemFaults(items, i) = {} <=> GoodItem(items[i])
<1>1. CASE items[i] = NotAnObject
  BY <1>1 DEF ItemFaults, GoodItem
<1>2. CASE items[i] # NotAnObject
  <2>1. ItemFaults(items, i) = {Problem("items", f, i) : f \in
          {g \in {"product_id", "quantity"} : ~IsPositive(items[i][g])}}
    BY <1>2 DEF ItemFaults
  <2>2. ItemFaults(items, i) = {} <=>
          \A g \in {"product_id", "quantity"} : IsPositive(items[i][g])
    BY <2>1
  <2> QED
    BY <1>2, <2>2 DEF GoodItem
<1> QED
  BY <1>1, <1>2

LEMMA ItemsJudged ==
  ASSUME NEW items
  PROVE  ItemsFaults(items) = {} <=> ItemsProblems(items) = {}
<1>1. CASE items = NotAList \/ items = <<>>
  BY <1>1 DEF ItemsFaults, ItemsProblems
<1>2. CASE ~(items = NotAList \/ items = <<>>)
  <2>1. ItemsFaults(items) = {} <=> \A i \in DOMAIN items : GoodItem(items[i])
    BY <1>2, ItemJudged DEF ItemsFaults
  <2>2. ItemsProblems(items) = {} <=> \A i \in DOMAIN items : GoodItem(items[i])
    BY <1>2 DEF ItemsProblems
  <2> QED
    BY <2>1, <2>2
<1> QED
  BY <1>1, <1>2

LEMMA AddressJudged ==
  ASSUME NEW address
  PROVE  /\ AddressFaults(address) = {} <=>
              AddressProblems(address) = {} /\ ~AddressRaises(address)
         /\ ~AddressRaises(address) => AddressFaults(address) = AddressProblems(address)
<1>1. CASE address = NotAnObject
  BY <1>1 DEF AddressFaults, AddressProblems, AddressRaises
<1>2. CASE address # NotAnObject
  <2> DEFINE missing == {g \in RequiredFields : address[g] # "text"}
             truthy == {g \in AddressFields : address[g] = "truthy"}
  <2>1. AddressProblems(address) = {Problem("shipping_address", f, 0) : f \in missing}
    BY <1>2 DEF AddressProblems
  <2>2. AddressFaults(address) =
          {Problem("shipping_address", f, 0) : f \in missing \union truthy}
    BY <1>2 DEF AddressFaults
  <2>3. AddressRaises(address) <=> truthy # {}
    BY <1>2 DEF AddressRaises, CanStrip
  <2> HIDE DEF missing, truthy
  <2> QED
    BY <2>1, <2>2, <2>3
<1> QED
  BY <1>1, <1>2

\* What a string raises is no text either.
LEMMA PaymentJudged ==
  ASSUME NEW payment
  PROVE  PaymentRaises(payment) => PaymentProblems(payment) # {}
<1> SUFFICES ASSUME PaymentRaises(payment) PROVE PaymentProblems(payment) # {}
  OBVIOUS
<1>1. payment # NotAnObject /\ payment["card_number"] = "truthy"
  BY DEF PaymentRaises, CanStrip
<1>2. Problem("payment", "card_number", 0) \in PaymentProblems(payment)
  BY <1>1 DEF PaymentProblems
<1> QED
  BY <1>2

(***************************************************************************)
(* The validators accept exactly the bodies without a fault, whatever is   *)
(* in the body (parse_create_order_request).                               *)
(***************************************************************************)
THEOREM FaultlessAreAccepted == Spec => []AcceptedIffFaultless
<1>1. Inv => AcceptedIffFaultless
  <2> SUFFICES ASSUME Inv, outcome # Nothing PROVE IsAccepted <=> Faults = {}
    BY DEF AcceptedIffFaultless
  <2>1. outcome = parse_create_order_request(body)
    BY DEF Inv
  <2>2. CASE body = NotAnObject
    BY <2>1, <2>2 DEF parse_create_order_request, Refused, IsAccepted, Faults
  <2>3. CASE body # NotAnObject
    <3> DEFINE raises == AddressRaises(body.shipping_address) \/ PaymentRaises(body.payment)
    <3>1. IsAccepted <=> ~raises /\ Errors(body) = {}
      <4>1. CASE raises
        BY <2>1, <2>3, <4>1 DEF parse_create_order_request, Raised, IsAccepted
      <4>2. CASE ~raises /\ Errors(body) # {}
        BY <2>1, <2>3, <4>2 DEF parse_create_order_request, Refused, IsAccepted
      <4>3. CASE ~raises /\ Errors(body) = {}
        <5>1. outcome = Accepted(Merge(body.items))
          BY <2>1, <2>3, <4>3 DEF parse_create_order_request
        <5> QED
          BY <4>3, <5>1 DEF Accepted, IsAccepted
      <4> QED
        BY <4>1, <4>2, <4>3
    <3> QED
      BY <2>3, <3>1, ItemsJudged, AddressJudged, PaymentJudged DEF Faults, Errors
  <2> QED
    BY <2>2, <2>3
<1> QED
  BY <1>1, Invariance, PTL

(***************************************************************************)
(* A client that gets a 400 hears of exactly the faulty parts of its body  *)
(* (parse_create_order_request collects the problems of all validators).   *)
(***************************************************************************)
THEOREM FaultyPartsAreNamed == Spec => []FaultyPartsNamed
<1>1. ASSUME NEW items
      PROVE  \A part : (\E e \in ItemsProblems(items) : e.part = part)
                         <=> (\E f \in ItemsFaults(items) : f.part = part)
  <2>1. \A e \in ItemsProblems(items) : e.part = "items"
    <3>1. \A field, i : Problem("items", field, i).part = "items"
      BY DEF Problem
    <3>2. \A i : ItemProblem(items, i).part = "items"
      BY <3>1 DEF ItemProblem
    <3> QED
      BY <3>1, <3>2 DEF ItemsProblems
  <2>2. \A f \in ItemsFaults(items) : f.part = "items"
    <3>1. \A field, i : Problem("items", field, i).part = "items"
      BY DEF Problem
    <3>2. \A i : \A f \in ItemFaults(items, i) : f.part = "items"
      BY <3>1 DEF ItemFaults
    <3> QED
      BY <3>1, <3>2 DEF ItemsFaults
  <2> QED
    BY <2>1, <2>2, ItemsJudged
<1>2. Inv => FaultyPartsNamed
  <2> SUFFICES ASSUME Inv, IsRefused
               PROVE  {e.part : e \in outcome.errors} = {f.part : f \in Faults}
    BY DEF FaultyPartsNamed
  <2>1. outcome = parse_create_order_request(body)
    BY DEF Inv, IsRefused
  <2>2. CASE body = NotAnObject
    BY <2>1, <2>2 DEF parse_create_order_request, Refused, Faults
  <2>3. CASE body # NotAnObject
    <3>1. /\ ~AddressRaises(body.shipping_address)
          /\ outcome.errors = Errors(body)
      BY <2>1, <2>3 DEF parse_create_order_request, Raised, Refused, Accepted, IsRefused
    <3>2. AddressFaults(body.shipping_address) = AddressProblems(body.shipping_address)
      BY <3>1, AddressJudged
    <3> DEFINE others == CustomerProblems(body.customer_id)
                 \union AddressProblems(body.shipping_address) \union PaymentProblems(body.payment)
    <3>3. /\ outcome.errors = others \union ItemsProblems(body.items)
          /\ Faults = others \union ItemsFaults(body.items)
      BY <2>3, <3>1, <3>2 DEF Errors, Faults
    <3> HIDE DEF others
    <3>4. \A part : (\E e \in ItemsProblems(body.items) : e.part = part)
                      <=> (\E f \in ItemsFaults(body.items) : f.part = part)
      BY <1>1
    <3>5. \A part : (\E e \in outcome.errors : e.part = part) <=> (\E f \in Faults : f.part = part)
      BY <3>3, <3>4
    <3> QED
      BY <3>5
  <2> QED
    BY <2>2, <2>3
<1> QED
  BY <1>2, Invariance, PTL

-----------------------------------------------------------------------------
(* The card: what the checksum tells apart *)

LEMMA DoublePermutes ==
  /\ \A d \in Digits : Double(d) \in Digits
  /\ \A c, d \in Digits : Double(c) = Double(d) => c = d
  /\ \A c, d \in Digits :
       Double(c) + d = c + Double(d) => c = d \/ {c, d} = {0, 9}
  /\ \A c, d \in Digits : Double(c) + d - (c + Double(d)) \in -9 .. 9
<1>1. \A d \in Digits : \/ d \in 0 .. 4 /\ Double(d) = 2 * d
                        \/ d \in 5 .. 9 /\ Double(d) = 2 * d - 9
  BY DEF Double, Digits
<1> QED
  BY <1>1 DEF Digits

LEMMA DigitsAreIntegers ==
  /\ Digits \subseteq Int
  /\ \A c, d \in Digits : c # d => c - d \in -9 .. 9 /\ c - d # 0
BY DEF Digits

LEMMA OddAndEven == \A n \in Int : n % 2 = 1 <=> (n - 1) % 2 # 1
OBVIOUS

LEMMA WeightIsDigit ==
  ASSUME NEW digits \in Seq(Digits), NEW i \in DOMAIN digits
  PROVE  Weight(digits, i) \in Digits
BY DoublePermutes DEF Weight

LEMMA SwapShifts ==
  ASSUME NEW c \in Digits, NEW d \in Digits, c # d, {c, d} # {0, 9}
  PROVE  /\ (Double(d) + c) - (Double(c) + d) \in -9 .. 9 \ {0}
         /\ (d + Double(c)) - (c + Double(d)) \in -9 .. 9 \ {0}
<1>1. /\ Double(c) \in Int /\ Double(d) \in Int /\ c \in Int /\ d \in Int
  BY DoublePermutes, DigitsAreIntegers
<1>2. /\ Double(c) + d # c + Double(d)
      /\ Double(c) + d - (c + Double(d)) \in -9 .. 9
  BY DoublePermutes
<1> DEFINE m == Double(c) + d
           n == c + Double(d)
<1>3. /\ m \in Int /\ n \in Int
      /\ Double(d) + c = n /\ d + Double(c) = m
  BY <1>1
<1>4. m # n /\ m - n \in -9 .. 9
  BY <1>1, <1>2, DoublePermutes
<1> HIDE DEF m, n
<1>5. m - n \in -9 .. 9 \ {0} /\ n - m \in -9 .. 9 \ {0}
  BY <1>3, <1>4
<1> QED
  BY <1>3, <1>5 DEF m, n

\* A sum that is off by less than ten and more than nothing.
LEMMA OffByADigit ==
  ASSUME NEW n \in Int, n % 10 = 0, NEW k \in -9 .. 9, k # 0
  PROVE  (n + k) % 10 # 0
OBVIOUS

LEMMA OneWrongDigit ==
  ASSUME NEW card \in Seq(Digits), LuhnValid(card), NEW i \in DOMAIN card,
         NEW d \in Digits, d # card[i]
  PROVE  ~LuhnValid([card EXCEPT ![i] = d])
<1> DEFINE slip == [card EXCEPT ![i] = d]
           f == [j \in DOMAIN card |-> Weight(card, j)]
           g == [j \in DOMAIN slip |-> Weight(slip, j)]
<1>1. slip \in Seq(Digits) /\ Len(slip) = Len(card) /\ DOMAIN slip = DOMAIN card
  OBVIOUS
<1>2. \A j \in DOMAIN card : f[j] \in Digits /\ g[j] \in Digits
  <2> HIDE DEF slip
  <2> QED
    BY <1>1, WeightIsDigit
<1>3. \A j \in DOMAIN card : j # i => g[j] = f[j]
  BY <1>1 DEF Weight
<1>4. g[i] # f[i]
  <2>1. slip[i] = d /\ card[i] \in Digits
    OBVIOUS
  <2>2. Double(card[i]) # Double(d)
    BY <2>1, DoublePermutes
  <2> HIDE DEF slip
  <2> QED
    BY <1>1, <2>1, <2>2 DEF Weight
<1>5. IsFiniteSet(DOMAIN card)
  <2>1. DOMAIN card = 1 .. Len(card) /\ Len(card) \in Nat
    OBVIOUS
  <2> QED
    BY <2>1, FS_Interval
<1> HIDE DEF f, g
<1>6. /\ SumFunctionOnSet(f, DOMAIN card) \in Int
      /\ SumFunctionOnSet(g, DOMAIN card) = SumFunctionOnSet(f, DOMAIN card) - f[i] + g[i]
  <2>1. \A j \in DOMAIN card : f[j] \in Int /\ g[j] \in Int /\ (j # i => g[j] = f[j])
    BY <1>2, <1>3, DigitsAreIntegers
  <2> QED
    BY <2>1, <1>5, SumChangesAtOne
<1>7. g[i] - f[i] \in -9 .. 9 /\ g[i] - f[i] # 0 /\ f[i] \in Int /\ g[i] \in Int
  <2> HIDE DEF slip
  <2> QED
    BY <1>2, <1>4, DigitsAreIntegers
<1>8. LuhnSum(card) = SumFunctionOnSet(f, DOMAIN card)
      /\ LuhnSum(slip) = SumFunctionOnSet(g, DOMAIN card)
  BY <1>1 DEF LuhnSum, SumFunction, f, g
<1>9. LuhnSum(card) \in Int /\ LuhnSum(slip) = LuhnSum(card) + (g[i] - f[i])
  BY <1>6, <1>7, <1>8
<1> HIDE DEF slip
<1>10. LuhnSum(slip) % 10 # 0
  BY <1>7, <1>9, OffByADigit DEF LuhnValid
<1> QED
  BY <1>10 DEF LuhnValid, slip

LEMMA TwoSwappedDigits ==
  ASSUME NEW card \in Seq(Digits), LuhnValid(card), NEW i \in 1 .. Len(card) - 1,
         card[i] # card[i + 1], {card[i], card[i + 1]} # {0, 9}
  PROVE  ~LuhnValid([card EXCEPT ![i] = card[i + 1], ![i + 1] = card[i]])
<1> DEFINE slip == [card EXCEPT ![i] = card[i + 1], ![i + 1] = card[i]]
           f == [j \in DOMAIN card |-> Weight(card, j)]
           g == [j \in DOMAIN slip |-> Weight(slip, j)]
           half == [j \in DOMAIN card |-> IF j = i THEN g[i] ELSE f[j]]
           k == (g[i] + g[i + 1]) - (f[i] + f[i + 1])
<1>1. /\ slip \in Seq(Digits) /\ Len(slip) = Len(card) /\ DOMAIN slip = DOMAIN card
      /\ i \in DOMAIN card /\ i + 1 \in DOMAIN card
      /\ card[i] \in Digits /\ card[i + 1] \in Digits
      /\ slip[i] = card[i + 1] /\ slip[i + 1] = card[i]
      /\ \A j \in DOMAIN card : j # i /\ j # i + 1 => slip[j] = card[j]
      /\ Len(card) \in Nat
  OBVIOUS
<1>2. \A j \in DOMAIN card : f[j] \in Digits /\ g[j] \in Digits
  <2> HIDE DEF slip
  <2> QED
    BY <1>1, WeightIsDigit
<1>3. \A j \in DOMAIN card : j # i /\ j # i + 1 => g[j] = f[j]
  <2> HIDE DEF slip
  <2> QED
    BY <1>1 DEF Weight
<1>4. k \in -9 .. 9 /\ k # 0
  <2>1. \/ /\ f[i] = Double(card[i]) /\ f[i + 1] = card[i + 1]
           /\ g[i] = Double(card[i + 1]) /\ g[i + 1] = card[i]
        \/ /\ f[i] = card[i] /\ f[i + 1] = Double(card[i + 1])
           /\ g[i] = card[i + 1] /\ g[i + 1] = Double(card[i])
    <3> HIDE DEF slip
    <3>1. (Len(card) - i) % 2 = 1 <=> (Len(card) - (i + 1)) % 2 # 1
      <4>1. Len(card) - i \in Int /\ Len(card) - (i + 1) = (Len(card) - i) - 1
        BY <1>1
      <4> QED
        BY <4>1, OddAndEven
    <3> QED
      BY <1>1, <3>1 DEF Weight
  <2>2. /\ (Double(card[i + 1]) + card[i]) - (Double(card[i]) + card[i + 1]) \in -9 .. 9 \ {0}
        /\ (card[i + 1] + Double(card[i])) - (card[i] + Double(card[i + 1])) \in -9 .. 9 \ {0}
    BY <1>1, SwapShifts
  <2> HIDE DEF f, g, slip
  <2>3. k \in -9 .. 9 \ {0}
    BY <2>1, <2>2
  <2> QED
    BY <2>3
<1>5. IsFiniteSet(DOMAIN card)
  <2>1. DOMAIN card = 1 .. Len(card) /\ Len(card) \in Nat
    OBVIOUS
  <2> QED
    BY <2>1, FS_Interval
<1>6. \A j \in DOMAIN card : /\ f[j] \in Int /\ g[j] \in Int /\ half[j] \in Int
                             /\ j # i => half[j] = f[j]
                             /\ j # i + 1 => g[j] = half[j]
  <2>1. \A j \in DOMAIN card : f[j] \in Int /\ g[j] \in Int
    <3> HIDE DEF f, g
    <3> QED
      BY <1>2, DigitsAreIntegers
  <2> HIDE DEF f, g, slip
  <2> QED
    BY <1>1, <1>3, <2>1
<1>7. half[i] = g[i] /\ half[i + 1] = f[i + 1]
  <2> HIDE DEF f, g, slip
  <2> QED
    BY <1>1
<1> HIDE DEF f, g, half
<1>8. /\ SumFunctionOnSet(f, DOMAIN card) \in Int
      /\ SumFunctionOnSet(half, DOMAIN card) = SumFunctionOnSet(f, DOMAIN card) - f[i] + half[i]
  <2>1. \A j \in DOMAIN card : f[j] \in Int /\ half[j] \in Int /\ (j # i => half[j] = f[j])
    BY <1>6
  <2>2. i \in DOMAIN card
    BY <1>1
  <2> HIDE DEF slip, k
  <2> QED
    BY <1>5, <2>1, <2>2, SumChangesAtOne
<1>9. SumFunctionOnSet(g, DOMAIN card)
        = SumFunctionOnSet(half, DOMAIN card) - half[i + 1] + g[i + 1]
  <2>1. \A j \in DOMAIN card :
          half[j] \in Int /\ g[j] \in Int /\ (j # i + 1 => g[j] = half[j])
    BY <1>6
  <2>2. i + 1 \in DOMAIN card
    BY <1>1
  <2> HIDE DEF slip, k
  <2> QED
    BY <1>5, <2>1, <2>2, SumChangesAtOne
<1>10. LuhnSum(card) = SumFunctionOnSet(f, DOMAIN card)
       /\ LuhnSum(slip) = SumFunctionOnSet(g, DOMAIN card)
  BY <1>1 DEF LuhnSum, SumFunction, f, g
<1>11. LuhnSum(card) \in Int /\ LuhnSum(slip) = LuhnSum(card) + k
  BY <1>1, <1>6, <1>7, <1>8, <1>9, <1>10
<1> HIDE DEF slip, k
<1>12. LuhnSum(slip) % 10 # 0
  BY <1>4, <1>11, OffByADigit DEF LuhnValid
<1> QED
  BY <1>12 DEF LuhnValid, slip

-----------------------------------------------------------------------------
(* What an accepted body looks like *)

Line == [product_id : Nat \ {0}, quantity : Nat \ {0}]

LEMMA AcceptedBody ==
  ASSUME Inv, IsAccepted
  PROVE  /\ body # NotAnObject
         /\ body.items \in Seq(Line) /\ body.items # <<>>
         /\ body.payment # NotAnObject /\ Card \in Seq(Digits)
         /\ Items = Merge(body.items)
<1>1. outcome = parse_create_order_request(body) /\ outcome.kind = "accepted"
  BY DEF Inv, IsAccepted
<1>2. body # NotAnObject /\ Errors(body) = {} /\ outcome = Accepted(Merge(body.items))
  BY <1>1 DEF parse_create_order_request, Refused, Raised
<1>3. body.payment # NotAnObject
  BY <1>2 DEF Errors, PaymentProblems
<1>4. ItemsProblems(body.items) = {}
  BY <1>2 DEF Errors
<1>5. body.items # NotAList /\ body.items # <<>> /\ \A i \in DOMAIN body.items : GoodItem(body.items[i])
  BY <1>4 DEF ItemsProblems
<1>6. body.items \in Seq([product_id : Int \union {NotInt}, quantity : Int \union {NotInt}]
                         \union {NotAnObject})
  BY <1>2, <1>5, BodiesAssumption DEF Inv
<1>7. \A i \in DOMAIN body.items : body.items[i] \in Line
  <2> TAKE i \in DOMAIN body.items
  <2>1. /\ body.items[i] \in [product_id : Int \union {NotInt}, quantity : Int \union {NotInt}]
        /\ IsPositive(body.items[i].product_id) /\ IsPositive(body.items[i].quantity)
    BY <1>5, <1>6 DEF GoodItem
  <2> QED
    BY <2>1 DEF IsPositive, Line
<1>8. body.items \in Seq(Line)
  <2>1. body.items = [i \in 1 .. Len(body.items) |-> body.items[i]] /\ Len(body.items) \in Nat
        /\ DOMAIN body.items = 1 .. Len(body.items)
    BY <1>6
  <2> HIDE DEF Line
  <2> QED
    BY <1>7, <2>1
<1>9. Card \in Seq(Digits)
  BY <1>2, <1>3, BodiesAssumption DEF Inv, Card
<1> QED
  BY <1>2, <1>3, <1>5, <1>8, <1>9 DEF Accepted, Items

-----------------------------------------------------------------------------
(* The gateway *)

\* Only numbers that pass the checksum are charged.
LEMMA ChargedIsValid ==
  ASSUME NEW digits, NEW amount, charge(digits, amount).success
  PROVE  LuhnValid(digits)
BY DEF charge, Declined, Charged

(***************************************************************************)
(* If a card is charged, no number that a slip of the hand makes of it     *)
(* would have been, for numbers of any length (_luhn_valid).               *)
(***************************************************************************)
THEOREM MistypedCardsAreRefused == Spec => []MistypedCardRefused
<1>1. Inv => MistypedCardRefused
  <2> SUFFICES ASSUME Inv, result # Nothing, result.success,
                      NEW slip \in Slips(Card) \ {Card}
               PROVE  ~charge(slip, order.total_cents).success
    BY DEF MistypedCardRefused
  <2>1. IsPlaced /\ result = charge(Card, order.total_cents)
    BY DEF Inv
  <2>2. LuhnValid(Card)
    BY <2>1, ChargedIsValid
  <2>3. Card \in Seq(Digits)
    BY <2>1, AcceptedBody DEF Inv, IsPlaced
  <2>4. CASE \E i \in DOMAIN Card, d \in Digits : slip = [Card EXCEPT ![i] = d]
    <3>1. PICK i \in DOMAIN Card, d \in Digits : slip = [Card EXCEPT ![i] = d]
      BY <2>4
    <3>2. d # Card[i]
      BY <2>3, <3>1
    <3>3. ~LuhnValid(slip)
      BY <2>2, <2>3, <3>1, <3>2, OneWrongDigit
    <3> QED
      BY <3>3, ChargedIsValid
  <2>5. CASE \E i \in 1 .. Len(Card) - 1 :
               /\ {Card[i], Card[i + 1]} # {0, 9}
               /\ slip = [Card EXCEPT ![i] = Card[i + 1], ![i + 1] = Card[i]]
    <3>1. PICK i \in 1 .. Len(Card) - 1 :
               /\ {Card[i], Card[i + 1]} # {0, 9}
               /\ slip = [Card EXCEPT ![i] = Card[i + 1], ![i + 1] = Card[i]]
      BY <2>5
    <3>2. Card[i] # Card[i + 1]
      BY <2>3, <3>1
    <3>3. ~LuhnValid(slip)
      BY <2>2, <2>3, <3>1, <3>2, TwoSwappedDigits
    <3> QED
      BY <3>3, ChargedIsValid
  <2> DEFINE wrong == UNION {{[Card EXCEPT ![i] = d] : d \in Digits} : i \in DOMAIN Card}
             pairs == {j \in 1 .. Len(Card) - 1 : {Card[j], Card[j + 1]} # {0, 9}}
             swapped == {[Card EXCEPT ![i] = Card[i + 1], ![i + 1] = Card[i]] : i \in pairs}
  <2>6. slip \in wrong \/ slip \in swapped
    BY DEF Slips
  <2>7. slip \in wrong => \E i \in DOMAIN Card, d \in Digits : slip = [Card EXCEPT ![i] = d]
    OBVIOUS
  <2>8. slip \in swapped => \E i \in pairs :
                               slip = [Card EXCEPT ![i] = Card[i + 1], ![i + 1] = Card[i]]
    OBVIOUS
  <2> HIDE DEF wrong, swapped
  <2> QED
    BY <2>4, <2>5, <2>6, <2>7, <2>8
<1> QED
  BY <1>1, Invariance, PTL

\* The digits of the test cards: what precedes the last four weighs 8.
LEMMA TestCardDigits ==
  ASSUME NEW code \in DOMAIN DeclineCode
  PROVE  /\ DeclineCode[code] \in [1 .. 4 -> Digits]
         /\ DeclineCard(code) \in Seq(Digits)
         /\ Len(DeclineCard(code)) = 16
         /\ DeclineCard(code)[1] = 4
         /\ \A i \in 2 .. 12 : DeclineCard(code)[i] = 0
         /\ \A i \in 13 .. 16 : DeclineCard(code)[i] = DeclineCode[code][i - 12]
<1>1. DeclineCode[code] \in Seq(Digits) /\ Len(DeclineCode[code]) = 4
  <2>1. code \in {"card_declined", "insufficient_funds", "expired_card", "incorrect_cvc"}
    BY DEF DeclineCode
  <2>2. /\ DeclineCode["card_declined"] = <<0, 0, 0, 2>>
        /\ DeclineCode["insufficient_funds"] = <<9, 9, 9, 5>>
        /\ DeclineCode["expired_card"] = <<0, 0, 6, 9>>
        /\ DeclineCode["incorrect_cvc"] = <<0, 1, 2, 7>>
    BY DEF DeclineCode
  <2>3. \A t \in {<<0, 0, 0, 2>>, <<9, 9, 9, 5>>, <<0, 0, 6, 9>>, <<0, 1, 2, 7>>} :
          t \in Seq(0 .. 9) /\ Len(t) = 4
    <3>1. \A t : t = <<0, 0, 0, 2>> => t \in Seq(0 .. 9) /\ Len(t) = 4
      OBVIOUS
    <3>2. \A t : t = <<9, 9, 9, 5>> => t \in Seq(0 .. 9) /\ Len(t) = 4
      OBVIOUS
    <3>3. \A t : t = <<0, 0, 6, 9>> => t \in Seq(0 .. 9) /\ Len(t) = 4
      OBVIOUS
    <3>4. \A t : t = <<0, 1, 2, 7>> => t \in Seq(0 .. 9) /\ Len(t) = 4
      OBVIOUS
    <3> QED
      BY <3>1, <3>2, <3>3, <3>4
  <2>4. DeclineCode[code] \in {<<0, 0, 0, 2>>, <<9, 9, 9, 5>>, <<0, 0, 6, 9>>, <<0, 1, 2, 7>>}
    BY <2>1, <2>2
  <2> QED
    BY <2>3, <2>4 DEF Digits
<1> DEFINE zeros == [i \in 1 .. 11 |-> 0]
<1>2. zeros \in Seq(Digits) /\ Len(zeros) = 11 /\ \A i \in 1 .. 11 : zeros[i] = 0
  BY DEF Digits
<1>3. <<4>> \in Seq(Digits) /\ Len(<<4>>) = 1 /\ <<4>>[1] = 4
  BY DEF Digits
<1>4. DeclineCard(code) = (<<4>> \o zeros) \o DeclineCode[code]
  BY DEF DeclineCard
<1> HIDE DEF zeros
<1> DEFINE front == <<4>> \o zeros
<1>5. /\ front \in Seq(Digits) /\ Len(front) = 12 /\ front[1] = 4
      /\ \A i \in 2 .. 12 : front[i] = 0
  <2>1. front \in Seq(Digits) /\ Len(front) = Len(<<4>>) + Len(zeros)
    BY <1>2, <1>3, ConcatProperties
  <2>2. \A i \in 1 .. Len(<<4>>) + Len(zeros) :
          front[i] = IF i <= Len(<<4>>) THEN <<4>>[i] ELSE zeros[i - Len(<<4>>)]
    BY <1>2, <1>3, ConcatProperties
  <2> HIDE DEF front
  <2> QED
    BY <1>2, <1>3, <2>1, <2>2
<1> HIDE DEF front
<1> DEFINE back == DeclineCode[code]
<1>6. DeclineCard(code) = front \o back /\ back \in Seq(Digits) /\ Len(back) = 4
  BY <1>1, <1>4 DEF front
<1> HIDE DEF back
<1> DEFINE whole == front \o back
<1>7. /\ whole \in Seq(Digits) /\ Len(whole) = Len(front) + Len(back)
      /\ \A i \in 1 .. Len(front) + Len(back) :
           whole[i] = IF i <= Len(front) THEN front[i] ELSE back[i - Len(front)]
  <2>1. front \in Seq(Digits) /\ back \in Seq(Digits)
    BY <1>5, <1>6
  <2> QED
    BY <2>1, ConcatProperties, Zenon
<1>8. back \in [1 .. 4 -> Digits]
  BY <1>6, LenProperties
<1>9. /\ DeclineCard(code) \in Seq(Digits)
      /\ Len(DeclineCard(code)) = 16
      /\ \A i \in 1 .. 16 :
           DeclineCard(code)[i] = IF i <= 12 THEN front[i] ELSE back[i - 12]
  <2>1. Len(front) = 12 /\ Len(back) = 4 /\ DeclineCard(code) = whole
    BY <1>5, <1>6
  <2> HIDE DEF whole
  <2>2. Len(front) + Len(back) = 16
    BY <2>1
  <2> QED
    BY <1>7, <2>1, <2>2
<1>10. /\ DeclineCard(code)[1] = 4
       /\ \A i \in 2 .. 12 : DeclineCard(code)[i] = 0
       /\ \A i \in 13 .. 16 : DeclineCard(code)[i] = back[i - 12]
  BY <1>5, <1>9
<1> QED
  BY <1>8, <1>9, <1>10 DEF back

LEMMA TestCardsAreValid ==
  ASSUME NEW code \in DOMAIN DeclineCode
  PROVE  LuhnValid(DeclineCard(code))
<1> DEFINE card == DeclineCard(code)
           last == DeclineCode[code]
           f == [i \in DOMAIN card |-> Weight(card, i)]
<1>1. /\ card \in Seq(Digits) /\ Len(card) = 16 /\ DOMAIN card = 1 .. 16
      /\ card[1] = 4
      /\ \A i \in 2 .. 12 : card[i] = 0
      /\ card[13] = last[1] /\ card[14] = last[2] /\ card[15] = last[3] /\ card[16] = last[4]
  <2>1. /\ card \in Seq(Digits) /\ Len(card) = 16
        /\ card[1] = 4
        /\ \A i \in 2 .. 12 : card[i] = 0
        /\ \A i \in 13 .. 16 : card[i] = last[i - 12]
    BY TestCardDigits
  <2>2. DOMAIN card = 1 .. Len(card)
    BY <2>1, LenProperties
  <2> HIDE DEF card, last
  <2> QED
    BY <2>1, <2>2
<1> HIDE DEF card
<1>2. \A i \in 1 .. 16 : f[i] \in Int /\ f[i] = Weight(card, i)
  BY <1>1, WeightIsDigit, DigitsAreIntegers
<1>3. Double(0) = 0 /\ Double(4) = 8
  BY DEF Double
<1>4. /\ f[1] = 8
      /\ \A i \in 2 .. 12 : f[i] = 0
      /\ f[13] = Double(last[1]) /\ f[14] = last[2] /\ f[15] = Double(last[3]) /\ f[16] = last[4]
  BY <1>1, <1>2, <1>3 DEF Weight
<1>5. LuhnSum(card) = SumFunctionOnSet(f, 1 .. 16)
  BY <1>1 DEF LuhnSum, SumFunction
<1> HIDE DEF f
<1>6. SumFunctionOnSet(f, 2 .. 12) = 0
  <2>1. \A a, b \in Int :
          (\A i \in a .. b : f[i] = 0) => SumFunctionOnSet(f, a .. b) = 0
    BY SumOfZeros
  <2>2. 2 \in Int /\ 12 \in Int /\ \A i \in 2 .. 12 : f[i] = 0
    BY <1>4
  <2> QED
    BY <2>1, <2>2, Zenon
<1>7. SumFunctionOnSet(f, 2 .. 16) = f[16] + (f[15] + (f[14] + (f[13] + 0)))
  <2>1. \A b \in 13 .. 16 :
          SumFunctionOnSet(f, 2 .. b) = f[b] + SumFunctionOnSet(f, 2 .. b - 1)
    <3> TAKE b \in 13 .. 16
    <3>1. b \in Int /\ 2 <= b /\ \A i \in 2 .. b : f[i] \in Int
      BY <1>2
    <3> QED
      BY <3>1, SumOfInterval
  <2>2. 2 .. 16 - 1 = 2 .. 15 /\ 2 .. 15 - 1 = 2 .. 14 /\ 2 .. 14 - 1 = 2 .. 13
        /\ 2 .. 13 - 1 = 2 .. 12
    OBVIOUS
  <2> QED
    BY <1>6, <2>1, <2>2
<1>8. SumFunctionOnSet(f, 1 .. 16) = f[1] + SumFunctionOnSet(f, 2 .. 16)
  <2>1. \A a, b \in Int :
          a <= b /\ (\A i \in a .. b : f[i] \in Int) =>
            SumFunctionOnSet(f, a .. b) = f[a] + SumFunctionOnSet(f, a + 1 .. b)
    BY SumOfInterval
  <2>2. 1 \in Int /\ 16 \in Int /\ 1 <= 16 /\ \A i \in 1 .. 16 : f[i] \in Int
    BY <1>2
  <2>3. SumFunctionOnSet(f, 1 .. 16) = f[1] + SumFunctionOnSet(f, 1 + 1 .. 16)
    BY <2>1, <2>2, Zenon
  <2>4. 1 + 1 = 2
    OBVIOUS
  <2> QED
    BY <2>3, <2>4
<1>9. LuhnSum(card) = 8 + (last[4] + (Double(last[3]) + (last[2] + (Double(last[1]) + 0))))
  BY <1>4, <1>5, <1>7, <1>8
<1> HIDE DEF last
<1>10. last \in {<<0, 0, 0, 2>>, <<9, 9, 9, 5>>, <<0, 0, 6, 9>>, <<0, 1, 2, 7>>}
  BY DEF last, DeclineCode
<1>11. Double(9) = 9 /\ Double(6) = 3 /\ Double(2) = 4
  BY DEF Double
<1>12. LuhnSum(card) % 10 = 0
  <2>1. CASE last = <<0, 0, 0, 2>>
    BY <1>3, <1>9, <2>1
  <2>2. CASE last = <<9, 9, 9, 5>>
    BY <1>9, <1>11, <2>2
  <2>3. CASE last = <<0, 0, 6, 9>>
    BY <1>3, <1>9, <1>11, <2>3
  <2>4. CASE last = <<0, 1, 2, 7>>
    BY <1>3, <1>9, <1>11, <2>4
  <2> QED
    BY <1>10, <2>1, <2>2, <2>3, <2>4
<1> QED
  BY <1>12 DEF LuhnValid, card

LEMMA TestCardsDiffer ==
  ASSUME NEW c \in DOMAIN DeclineCode, NEW d \in DOMAIN DeclineCode, DeclineCard(c) = DeclineCard(d)
  PROVE  c = d
<1>1. \A i \in 13 .. 16 : DeclineCode[c][i - 12] = DeclineCode[d][i - 12]
  <2>1. /\ \A i \in 13 .. 16 : DeclineCard(c)[i] = DeclineCode[c][i - 12]
        /\ \A i \in 13 .. 16 : DeclineCard(d)[i] = DeclineCode[d][i - 12]
    BY TestCardDigits
  <2> QED
    BY <2>1
<1>2. DeclineCode[c][3] = DeclineCode[d][3] /\ DeclineCode[c][4] = DeclineCode[d][4]
  <2>1. 15 - 12 = 3 /\ 16 - 12 = 4 /\ 15 \in 13 .. 16 /\ 16 \in 13 .. 16
    OBVIOUS
  <2> QED
    BY <1>1, <2>1
<1> QED
  BY <1>2 DEF DeclineCode

-----------------------------------------------------------------------------
(* The cart: merging the items one by one *)

LEMMA AddedLines ==
  ASSUME NEW cart \in Seq(Line), NEW item \in Line
  PROVE  AddItem(cart, item) \in Seq(Line)
<1>1. CASE \E i \in DOMAIN cart : cart[i].product_id = item.product_id
  <2> DEFINE line(i) == IF cart[i].product_id = item.product_id
                        THEN [cart[i] EXCEPT !.quantity = @ + item.quantity]
                        ELSE cart[i]
  <2>1. DOMAIN cart = 1 .. Len(cart) /\ Len(cart) \in Nat /\ \A i \in DOMAIN cart : cart[i] \in Line
    BY LenProperties
  <2>2. AddItem(cart, item) = [i \in 1 .. Len(cart) |-> line(i)]
    BY <1>1, <2>1 DEF AddItem
  <2>3. \A i \in 1 .. Len(cart) : line(i) \in Line
    BY <2>1 DEF Line
  <2> HIDE DEF line
  <2> QED
    BY <2>1, <2>2, <2>3
<1>2. CASE ~ \E i \in DOMAIN cart : cart[i].product_id = item.product_id
  BY <1>2 DEF AddItem
<1> QED
  BY <1>1, <1>2

\* What FoldLeft is: a function on sets of positions, defined by recursion.
Merges(merge, items) ==
  merge = [s \in SUBSET DOMAIN items |->
             IF s = {} THEN <<>> ELSE AddItem(merge[s \ {Max(s)}], items[Max(s)])]

LEMMA MergesExist ==
  ASSUME NEW items \in Seq(Line)
  PROVE  \E merge : Merges(merge, items)
<1> DEFINE S == DOMAIN items
           pick == [s \in SUBSET S |-> Max(s)]
           add == [i \in S |-> [cart \in Seq(Line) |-> AddItem(cart, items[i])]]
<1>1. S = 1 .. Len(items) /\ Len(items) \in Nat /\ IsFiniteSet(S) /\ \A i \in S : items[i] \in Line
  BY LenProperties, FS_Interval
<1>2. \A s \in SUBSET S : s # {} => pick[s] \in s
  BY <1>1, GreatestNumber DEF Max
<1>3. PICK fold : Folds(fold, S, <<>>, add, pick)
  <2> HIDE DEF pick, add, S
  <2> QED
    BY <1>1, <1>2, FoldExists
<1>4. \A s \in SUBSET S : fold[s] \in Seq(Line)
  <2> DEFINE bad == {s \in SUBSET S : fold[s] \notin Seq(Line)}
  <2>1. SUFFICES ASSUME bad # {} PROVE FALSE
    OBVIOUS
  <2>2. PICK s \in bad : \A u \in bad : u \subseteq s => u = s
    <3>1. bad \in SUBSET (SUBSET S) /\ IsFiniteSet(S)
      BY <1>1
    <3> HIDE DEF bad, S
    <3> QED
      BY <2>1, <3>1, MinimalSubset
  <2> HIDE DEF S
  <2>3. s # {}
    BY <1>3, <2>2 DEF Folds
  <2>4. fold[s] = add[pick[s]][fold[s \ {pick[s]}]]
    <3> HIDE DEF add, pick
    <3> QED
      BY <1>3, <2>2, <2>3 DEF Folds
  <2>5. pick[s] \in S /\ s \ {pick[s]} \in SUBSET S /\ s \ {pick[s]} # s
    <3> HIDE DEF pick
    <3> QED
      BY <1>2, <2>2, <2>3
  <2>6. fold[s \ {pick[s]}] \in Seq(Line)
    <3> HIDE DEF pick
    <3> QED
      BY <2>2, <2>5
  <2>7. add[pick[s]][fold[s \ {pick[s]}]] = AddItem(fold[s \ {pick[s]}], items[pick[s]])
    <3> HIDE DEF pick
    <3> QED
      BY <2>5, <2>6
  <2>8. AddItem(fold[s \ {pick[s]}], items[pick[s]]) \in Seq(Line)
    <3> HIDE DEF pick
    <3> QED
      BY <1>1, <2>5, <2>6, AddedLines
  <2> HIDE DEF pick, add
  <2> QED
    BY <2>2, <2>4, <2>7, <2>8
<1> HIDE DEF S
<1>5. \A s \in SUBSET S : s # {} =>
        add[pick[s]][fold[s \ {pick[s]}]] = AddItem(fold[s \ {pick[s]}], items[pick[s]])
  <2> HIDE DEF pick
  <2> QED
    BY <1>2, <1>4
<1>6. fold = [s \in SUBSET S |->
                IF s = {} THEN <<>> ELSE AddItem(fold[s \ {pick[s]}], items[pick[s]])]
  <2> HIDE DEF pick, add
  <2> QED
    BY <1>3, <1>5 DEF Folds
<1>7. Merges(fold, items)
  BY <1>6 DEF Merges, S
<1> QED
  BY <1>7

\* The carts after each of the items.
LEMMA MergeByItem ==
  ASSUME NEW items \in Seq(Line)
  PROVE  \E carts : /\ carts[0] = <<>>
                    /\ \A n \in 0 .. Len(items) - 1 : carts[n + 1] = AddItem(carts[n], items[n + 1])
                    /\ carts[Len(items)] = Merge(items)
<1> DEFINE merge == CHOOSE m : Merges(m, items)
           carts == [n \in 0 .. Len(items) |-> merge[1 .. n]]
<1>1. DOMAIN items = 1 .. Len(items) /\ Len(items) \in Nat
  BY LenProperties
<1>2. Merge(items) = merge[DOMAIN items]
  BY DEF Merge, FoldLeft, MapThenFoldSet, Merges
<1>3. Merges(merge, items)
  BY MergesExist
<1> HIDE DEF merge
<1>4. carts[0] = <<>>
  <2>1. 1 .. 0 = {}
    OBVIOUS
  <2> QED
    BY <1>1, <1>3, <2>1 DEF Merges
<1>5. ASSUME NEW n \in 0 .. Len(items) - 1
      PROVE  carts[n + 1] = AddItem(carts[n], items[n + 1])
  <2> DEFINE s == 1 .. n + 1
  <2>1. s \in SUBSET DOMAIN items /\ s # {} /\ s \ {n + 1} = 1 .. n
    <3>1. n + 1 \in s /\ \A y \in s : y \in DOMAIN items
      BY <1>1
    <3>2. \A y : y \in s /\ y # n + 1 <=> y \in 1 .. n
      OBVIOUS
    <3> HIDE DEF s
    <3> QED
      BY <3>1, <3>2
  <2>2. Max(s) = n + 1
    <3>1. n + 1 \in s /\ \A y \in s : n + 1 >= y
      OBVIOUS
    <3>2. \A x \in s : (\A y \in s : x >= y) => x = n + 1
      OBVIOUS
    <3> QED
      BY <3>1, <3>2 DEF Max
  <2> HIDE DEF s
  <2>3. merge[s] = AddItem(merge[1 .. n], items[n + 1])
    BY <1>3, <2>1, <2>2 DEF Merges
  <2>4. carts[n + 1] = merge[s] /\ carts[n] = merge[1 .. n]
    BY <1>1 DEF s
  <2> QED
    BY <2>3, <2>4
<1>6. carts[Len(items)] = Merge(items)
  BY <1>1, <1>2
<1> QED
  BY <1>4, <1>5, <1>6

Entries(items, n, p) == {i \in 1 .. n : items[i].product_id = p}

\* The units of p in the first n items.
UnitsUpTo(items, n, p) ==
  SumFunctionOnSet([i \in DOMAIN items |-> items[i].quantity], Entries(items, n, p))

\* What an item adds to the units of p.
Adds(item, p) == IF item.product_id = p THEN item.quantity ELSE 0

(***************************************************************************)
(* The cart after n items: a line for every product, with all its units,   *)
(* in the order in which the products came.                                *)
(***************************************************************************)
Merged(items, n, cart) ==
  /\ cart \in Seq(Line)
  /\ \A i \in DOMAIN cart : \E j \in 1 .. n : items[j].product_id = cart[i].product_id
  /\ \A j \in 1 .. n : \E i \in DOMAIN cart : cart[i].product_id = items[j].product_id
  /\ \A i \in DOMAIN cart : cart[i].quantity = UnitsUpTo(items, n, cart[i].product_id)
  /\ \A i, k \in DOMAIN cart : i < k =>
       \E j \in 1 .. n : /\ items[j].product_id = cart[i].product_id
                         /\ \A l \in 1 .. n :
                              items[l].product_id = cart[k].product_id => j < l

LEMMA UnitsOfNext ==
  ASSUME NEW items \in Seq(Line), NEW n \in 0 .. Len(items) - 1, NEW p
  PROVE  /\ UnitsUpTo(items, n, p) \in Nat
         /\ UnitsUpTo(items, n + 1, p) = UnitsUpTo(items, n, p) + Adds(items[n + 1], p)
         /\ (\A i \in 1 .. n : items[i].product_id # p) => UnitsUpTo(items, n, p) = 0
<1> DEFINE f == [i \in DOMAIN items |-> items[i].quantity]
           S == Entries(items, n, p)
<1>1. DOMAIN items = 1 .. Len(items) /\ Len(items) \in Nat /\ \A i \in DOMAIN items : items[i] \in Line
  BY LenProperties
<1>2. \A i \in DOMAIN items : f[i] \in Nat /\ f[i] = items[i].quantity
  BY <1>1 DEF Line
<1>3. S \subseteq 1 .. n /\ IsFiniteSet(S) /\ 1 .. n \subseteq DOMAIN items /\ n + 1 \in DOMAIN items
  <2>1. IsFiniteSet(1 .. n)
    BY FS_Interval
  <2> QED
    BY <1>1, <2>1, FS_Subset DEF Entries
<1>4. UnitsUpTo(items, n, p) = SumFunctionOnSet(f, S)
      /\ UnitsUpTo(items, n + 1, p) = SumFunctionOnSet(f, Entries(items, n + 1, p))
  BY DEF UnitsUpTo
<1>5. n + 1 \notin S
  BY DEF Entries
<1>6. Entries(items, n + 1, p) = IF items[n + 1].product_id = p THEN S \union {n + 1} ELSE S
  <2>1. \A i : i \in 1 .. n + 1 <=> i \in 1 .. n \/ i = n + 1
    OBVIOUS
  <2> QED
    BY <2>1 DEF Entries
<1>7. (\A i \in 1 .. n : items[i].product_id # p) => S = {}
  BY DEF Entries
<1> HIDE DEF f, S
<1>8. SumFunctionOnSet(f, S) \in Nat
  BY <1>2, <1>3, SumOfNats
<1>9. SumFunctionOnSet(f, S \union {n + 1}) = f[n + 1] + SumFunctionOnSet(f, S)
  <2>1. \A i \in S \union {n + 1} : f[i] \in Int
    BY <1>2, <1>3
  <2> QED
    BY <1>3, <1>5, <2>1, SumPutsIn
<1>10. f[n + 1] \in Nat /\ f[n + 1] = items[n + 1].quantity
  BY <1>2, <1>3
<1>11. SumFunctionOnSet(f, {}) = 0
  BY SumOfNone
<1>12. (\A i \in 1 .. n : items[i].product_id # p) => UnitsUpTo(items, n, p) = 0
  BY <1>4, <1>7, <1>11
<1>13. CASE items[n + 1].product_id = p
  <2>1. Adds(items[n + 1], p) = f[n + 1] /\ Entries(items, n + 1, p) = S \union {n + 1}
    BY <1>6, <1>10, <1>13 DEF Adds
  <2>2. UnitsUpTo(items, n + 1, p) = f[n + 1] + UnitsUpTo(items, n, p)
    BY <1>4, <1>9, <2>1
  <2>3. UnitsUpTo(items, n, p) \in Nat
    BY <1>4, <1>8
  <2> QED
    BY <1>10, <1>12, <2>1, <2>2, <2>3
<1>14. CASE items[n + 1].product_id # p
  <2>1. Adds(items[n + 1], p) = 0 /\ Entries(items, n + 1, p) = S
    BY <1>6, <1>14 DEF Adds
  <2> QED
    BY <1>4, <1>8, <1>12, <2>1
<1> QED
  BY <1>13, <1>14

\* Every line is the only one of its product.
LEMMA OneLineEach ==
  ASSUME NEW items, NEW n \in Nat, NEW cart, Merged(items, n, cart),
         NEW i \in DOMAIN cart, NEW k \in DOMAIN cart, cart[i].product_id = cart[k].product_id
  PROVE  i = k
<1>1. DOMAIN cart \subseteq Int
  BY DEF Merged
<1>2. ~(i < k) /\ ~(k < i)
  BY DEF Merged
<1> QED
  BY <1>1, <1>2

LEMMA StepMerged ==
  ASSUME NEW items \in Seq(Line), NEW n \in 0 .. Len(items) - 1, NEW cart, Merged(items, n, cart)
  PROVE  Merged(items, n + 1, AddItem(cart, items[n + 1]))
<1> DEFINE item == items[n + 1]
           new == AddItem(cart, item)
<1>1. item \in Line /\ \A j \in 1 .. n + 1 : j \in 1 .. n \/ j = n + 1
  BY LenProperties
<1>2. cart \in Seq(Line) /\ DOMAIN cart = 1 .. Len(cart) /\ Len(cart) \in Nat
  BY LenProperties DEF Merged
<1>3. new \in Seq(Line)
  BY <1>1, <1>2, AddedLines
<1>4. \A p : /\ UnitsUpTo(items, n, p) \in Nat
             /\ UnitsUpTo(items, n + 1, p) = UnitsUpTo(items, n, p) + Adds(item, p)
             /\ (\A i \in 1 .. n : items[i].product_id # p) => UnitsUpTo(items, n, p) = 0
  BY UnitsOfNext
<1> DEFINE Known1 == \A i \in DOMAIN cart : \E j \in 1 .. n : items[j].product_id = cart[i].product_id
           Known2 == \A j \in 1 .. n : \E i \in DOMAIN cart : cart[i].product_id = items[j].product_id
           Known3 == \A i \in DOMAIN cart : cart[i].quantity = UnitsUpTo(items, n, cart[i].product_id)
<1>0. Known1 /\ Known2 /\ Known3
  BY DEF Merged
<1>7. 1 .. n \subseteq 1 .. n + 1 /\ n + 1 \in 1 .. n + 1
  OBVIOUS
<1>5. CASE \E i \in DOMAIN cart : cart[i].product_id = item.product_id
  <2>1. new = [i \in DOMAIN cart |->
                 IF cart[i].product_id = item.product_id
                 THEN [cart[i] EXCEPT !.quantity = @ + item.quantity] ELSE cart[i]]
    BY <1>5 DEF AddItem
  <2>2. /\ DOMAIN new = DOMAIN cart
        /\ \A i \in DOMAIN cart :
             /\ new[i].product_id = cart[i].product_id
             /\ new[i].quantity = cart[i].quantity + Adds(item, cart[i].product_id)
    <3>1. \A i \in DOMAIN cart : cart[i] \in Line
      BY <1>2
    <3> QED
      BY <1>1, <2>1, <3>1 DEF Line, Adds
  <2> HIDE DEF new
  <2>3. \A i \in DOMAIN new : \E j \in 1 .. n + 1 : items[j].product_id = new[i].product_id
    <3> HIDE DEF item
    <3> QED
      BY <1>0, <1>7, <2>2
  <2>4. \A j \in 1 .. n + 1 : \E i \in DOMAIN new : new[i].product_id = items[j].product_id
    BY <1>0, <1>1, <1>5, <2>2
  <2>5. \A i \in DOMAIN new : new[i].quantity = UnitsUpTo(items, n + 1, new[i].product_id)
    <3> TAKE i \in DOMAIN new
    <3>1. cart[i].quantity = UnitsUpTo(items, n, cart[i].product_id)
      BY <1>0, <2>2
    <3>2. UnitsUpTo(items, n + 1, cart[i].product_id) =
            UnitsUpTo(items, n, cart[i].product_id) + Adds(item, cart[i].product_id)
      BY <1>4
    <3> QED
      BY <2>2, <3>1, <3>2
  <2>6. ASSUME NEW i \in DOMAIN new, NEW k \in DOMAIN new, i < k
        PROVE  \E j \in 1 .. n + 1 : /\ items[j].product_id = new[i].product_id
                                     /\ \A l \in 1 .. n + 1 :
                                          items[l].product_id = new[k].product_id => j < l
    <3>1. PICK j \in 1 .. n : /\ items[j].product_id = cart[i].product_id
                              /\ \A l \in 1 .. n :
                                   items[l].product_id = cart[k].product_id => j < l
      BY <2>2, <2>6 DEF Merged
    <3>2. j \in 1 .. n + 1 /\ j < n + 1
      OBVIOUS
    <3> QED
      BY <1>1, <2>2, <3>1, <3>2
  <2> QED
    BY <1>3, <2>3, <2>4, <2>5, <2>6 DEF Merged, new
<1>6. CASE ~ \E i \in DOMAIN cart : cart[i].product_id = item.product_id
  <2>1. new = Append(cart, item)
    BY <1>6 DEF AddItem
  <2>2. /\ DOMAIN new = 1 .. Len(cart) + 1
        /\ new[Len(cart) + 1] = item
        /\ \A i \in DOMAIN cart : new[i] = cart[i]
        /\ \A i \in DOMAIN new : i \in DOMAIN cart \/ i = Len(cart) + 1
    BY <1>2, <1>1, <2>1
  <2>3. \A j \in 1 .. n : items[j].product_id # item.product_id
    BY <1>6 DEF Merged
  <2>4. item.quantity \in Nat
    BY <1>1 DEF Line
  <2> HIDE DEF new
  <2>5. \A i \in DOMAIN new : \E j \in 1 .. n + 1 : items[j].product_id = new[i].product_id
    <3> TAKE i \in DOMAIN new
    <3>1. CASE i \in DOMAIN cart
      <4>1. PICK j \in 1 .. n : items[j].product_id = cart[i].product_id
        BY <1>0, <3>1
      <4> QED
        BY <1>7, <2>2, <3>1, <4>1
    <3>2. CASE i = Len(cart) + 1
      BY <1>7, <2>2, <3>2
    <3> QED
      BY <2>2, <3>1, <3>2
  <2>6. \A j \in 1 .. n + 1 : \E i \in DOMAIN new : new[i].product_id = items[j].product_id
    <3>1. Len(cart) + 1 \in DOMAIN new /\ DOMAIN cart \subseteq DOMAIN new
      BY <1>2, <2>2
    <3> QED
      BY <1>1, <2>2, <3>1 DEF Merged
  <2>7. \A i \in DOMAIN new : new[i].quantity = UnitsUpTo(items, n + 1, new[i].product_id)
    <3> TAKE i \in DOMAIN new
    <3>1. CASE i \in DOMAIN cart
      <4>1. cart[i].product_id # item.product_id
        BY <1>6, <3>1
      <4> QED
        <5>1. UnitsUpTo(items, n, cart[i].product_id) \in Nat
              /\ UnitsUpTo(items, n + 1, cart[i].product_id)
                   = UnitsUpTo(items, n, cart[i].product_id)
          BY <1>4, <4>1 DEF Adds
        <5> QED
          BY <1>0, <2>2, <3>1, <5>1
    <3>2. CASE i = Len(cart) + 1
      <4>1. /\ UnitsUpTo(items, n, item.product_id) = 0
            /\ Adds(item, item.product_id) = item.quantity
            /\ UnitsUpTo(items, n + 1, item.product_id) = 0 + item.quantity
        BY <1>4, <2>3 DEF Adds
      <4> QED
        BY <2>2, <2>4, <3>2, <4>1
    <3> QED
      BY <2>2, <3>1, <3>2
  <2>8. ASSUME NEW i \in DOMAIN new, NEW k \in DOMAIN new, i < k
        PROVE  \E j \in 1 .. n + 1 : /\ items[j].product_id = new[i].product_id
                                     /\ \A l \in 1 .. n + 1 :
                                          items[l].product_id = new[k].product_id => j < l
    <3>1. i \in DOMAIN cart
      BY <1>2, <2>2, <2>8
    <3>2. CASE k \in DOMAIN cart
      <4>1. PICK j \in 1 .. n : /\ items[j].product_id = cart[i].product_id
                                /\ \A l \in 1 .. n :
                                     items[l].product_id = cart[k].product_id => j < l
        BY <2>8, <3>1, <3>2 DEF Merged
      <4>2. j \in 1 .. n + 1 /\ j < n + 1
        OBVIOUS
      <4> QED
        BY <1>1, <2>2, <3>1, <3>2, <4>1, <4>2
    <3>3. CASE k = Len(cart) + 1
      <4>1. PICK j \in 1 .. n : items[j].product_id = cart[i].product_id
        BY <3>1 DEF Merged
      <4>2. j \in 1 .. n + 1 /\ j < n + 1
        OBVIOUS
      <4>3. \A l \in 1 .. n + 1 : items[l].product_id = new[k].product_id => l = n + 1
        BY <1>1, <2>2, <2>3, <3>3
      <4> QED
        BY <2>2, <3>1, <4>1, <4>2, <4>3
    <3> QED
      BY <2>2, <3>2, <3>3
  <2> QED
    BY <1>3, <2>5, <2>6, <2>7, <2>8 DEF Merged, new
<1> QED
  BY <1>5, <1>6

LEMMA MergedCart ==
  ASSUME NEW items \in Seq(Line)
  PROVE  Merged(items, Len(items), Merge(items))
<1>1. PICK carts : /\ carts[0] = <<>>
                   /\ \A n \in 0 .. Len(items) - 1 : carts[n + 1] = AddItem(carts[n], items[n + 1])
                   /\ carts[Len(items)] = Merge(items)
  BY MergeByItem
<1> DEFINE good == {n \in 0 .. Len(items) : Merged(items, n, carts[n])}
<1>2. Len(items) \in Nat
  BY LenProperties
<1>3. 0 \in good
  <2>1. <<>> \in Seq(Line) /\ DOMAIN <<>> = {} /\ 1 .. 0 = {}
    OBVIOUS
  <2>2. Merged(items, 0, <<>>)
    BY <2>1 DEF Merged
  <2> QED
    BY <1>1, <1>2, <2>2
<1>4. \A n \in good : n \in 0 .. Len(items) - 1 => n + 1 \in good
  <2> TAKE n \in good
  <2> HAVE n \in 0 .. Len(items) - 1
  <2>1. Merged(items, n + 1, AddItem(carts[n], items[n + 1]))
    BY StepMerged
  <2>2. n + 1 \in 0 .. Len(items)
    BY <1>2
  <2> QED
    BY <1>1, <2>1, <2>2
<1>5. \A n \in 0 .. Len(items) : n \in good
  <2> HIDE DEF good
  <2> QED
    BY <1>2, <1>3, <1>4, UpTo
<1>6. Len(items) \in good
  BY <1>2, <1>5
<1> QED
  BY <1>1, <1>6

-----------------------------------------------------------------------------
(* The bill *)

Cents(prices, item) == prices[item.product_id] * item.quantity

Bill(prices, items) == SumFunction([i \in DOMAIN items |-> Cents(prices, items[i])])

IsPriced(prices, items) == \A i \in DOMAIN items : prices[items[i].product_id] \in Nat

LEMMA CentsAreNat ==
  ASSUME NEW items \in Seq(Line), NEW prices, IsPriced(prices, items), NEW i \in DOMAIN items
  PROVE  Cents(prices, items[i]) \in Nat
<1>1. items[i] \in Line
  BY LenProperties
<1>2. items[i].quantity \in Nat /\ prices[items[i].product_id] \in Nat
  BY <1>1 DEF Line, IsPriced
<1> QED
  BY <1>2, Distributes DEF Cents

LEMMA BillIsNat ==
  ASSUME NEW items \in Seq(Line), NEW prices, IsPriced(prices, items)
  PROVE  Bill(prices, items) \in Nat
<1> DEFINE f == [i \in DOMAIN items |-> Cents(prices, items[i])]
<1>1. IsFiniteSet(DOMAIN items)
  BY LenProperties, FS_Interval
<1>2. \A i \in DOMAIN items : f[i] \in Nat
  BY CentsAreNat
<1>3. Bill(prices, items) = SumFunctionOnSet(f, DOMAIN items)
  BY DEF Bill, SumFunction
<1> HIDE DEF f
<1> QED
  BY <1>1, <1>2, <1>3, SumOfNats

\* An item costs the same on a line of its own and on the line of its product.
LEMMA BillOfNext ==
  ASSUME NEW cart \in Seq(Line), NEW item \in Line, NEW prices, IsPriced(prices, cart),
         prices[item.product_id] \in Nat,
         \A i, k \in DOMAIN cart : cart[i].product_id = cart[k].product_id => i = k
  PROVE  Bill(prices, AddItem(cart, item)) = Bill(prices, cart) + Cents(prices, item)
<1> DEFINE new == AddItem(cart, item)
           f == [i \in DOMAIN cart |-> Cents(prices, cart[i])]
           g == [i \in DOMAIN new |-> Cents(prices, new[i])]
<1>1. /\ DOMAIN cart = 1 .. Len(cart) /\ Len(cart) \in Nat /\ IsFiniteSet(DOMAIN cart)
      /\ \A i \in DOMAIN cart : cart[i] \in Line
  BY LenProperties, FS_Interval
<1>2. \A i \in DOMAIN cart : f[i] \in Nat /\ f[i] = Cents(prices, cart[i])
  BY CentsAreNat
<1>3. Bill(prices, cart) = SumFunctionOnSet(f, DOMAIN cart)
      /\ Bill(prices, new) = SumFunctionOnSet(g, DOMAIN new)
  BY DEF Bill, SumFunction
<1>4. item.quantity \in Nat /\ Cents(prices, item) \in Nat
  <2>1. item.quantity \in Nat
    BY DEF Line
  <2> QED
    BY <2>1, Distributes DEF Cents
<1>5. CASE \E i \in DOMAIN cart : cart[i].product_id = item.product_id
  <2>1. PICK k \in DOMAIN cart : cart[k].product_id = item.product_id
    BY <1>5
  <2>2. new = [i \in DOMAIN cart |->
                 IF cart[i].product_id = item.product_id
                 THEN [cart[i] EXCEPT !.quantity = @ + item.quantity] ELSE cart[i]]
    BY <1>5 DEF AddItem
  <2>3. /\ DOMAIN new = DOMAIN cart
        /\ \A i \in DOMAIN cart : i # k => new[i] = cart[i]
        /\ new[k].product_id = item.product_id
        /\ new[k].quantity = cart[k].quantity + item.quantity
    BY <1>1, <2>1, <2>2 DEF Line
  <2>4. cart[k].quantity \in Nat
    BY <1>1 DEF Line
  <2>5. g[k] = f[k] + Cents(prices, item)
    <3>1. g[k] = Cents(prices, new[k]) /\ f[k] = Cents(prices, cart[k])
      BY <2>3
    <3> HIDE DEF new, f, g
    <3> QED
      BY <1>4, <2>1, <2>3, <2>4, <3>1, Distributes DEF Cents
  <2>6. \A i \in DOMAIN cart : i # k => g[i] = f[i]
    BY <2>3
  <2>7. \A i \in DOMAIN cart : f[i] \in Int /\ g[i] \in Int /\ (i # k => g[i] = f[i])
    <3> HIDE DEF f, g, new
    <3> QED
      BY <1>2, <1>4, <2>5, <2>6
  <2>8. f[k] \in Nat /\ g[k] = f[k] + Cents(prices, item)
    BY <1>2, <2>5
  <2> HIDE DEF f, g, new
  <2>9. /\ SumFunctionOnSet(f, DOMAIN cart) \in Int
        /\ SumFunctionOnSet(g, DOMAIN cart) = SumFunctionOnSet(f, DOMAIN cart) - f[k] + g[k]
    <3> DEFINE S == DOMAIN cart
    <3>1. IsFiniteSet(S) /\ k \in S
      BY <1>1
    <3>2. \A i \in S : f[i] \in Int /\ g[i] \in Int /\ (i # k => g[i] = f[i])
      BY <2>7
    <3> HIDE DEF S
    <3>3. /\ SumFunctionOnSet(f, S) \in Int
          /\ SumFunctionOnSet(g, S) = SumFunctionOnSet(f, S) - f[k] + g[k]
      BY <3>1, <3>2, SumChangesAtOne
    <3> QED
      BY <3>3 DEF S
  <2> QED
    BY <1>3, <1>4, <2>3, <2>8, <2>9 DEF new
<1>6. CASE ~ \E i \in DOMAIN cart : cart[i].product_id = item.product_id
  <2> DEFINE last == Len(cart) + 1
  <2>1. new = Append(cart, item)
    BY <1>6 DEF AddItem
  <2>2. /\ DOMAIN new = DOMAIN cart \union {last} /\ last \notin DOMAIN cart
        /\ new[last] = item
        /\ \A i \in DOMAIN cart : new[i] = cart[i]
    <3>1. DOMAIN new = 1 .. last /\ new[last] = item /\ \A i \in DOMAIN cart : new[i] = cart[i]
      BY <1>1, <2>1
    <3>2. 1 .. last = 1 .. Len(cart) \union {last} /\ last \notin 1 .. Len(cart)
      BY <1>1
    <3> QED
      BY <1>1, <3>1, <3>2
  <2>3. g[last] = Cents(prices, item) /\ \A i \in DOMAIN cart : g[i] = f[i]
    <3> HIDE DEF new, last
    <3> QED
      BY <2>2
  <2> HIDE DEF f, g, new, last
  <2>4. \A i \in DOMAIN cart \union {last} : g[i] \in Int
    BY <1>2, <1>4, <2>3
  <2>5. /\ SumFunctionOnSet(g, DOMAIN cart) \in Int
        /\ SumFunctionOnSet(g, DOMAIN cart \union {last}) = g[last] + SumFunctionOnSet(g, DOMAIN cart)
    BY <1>1, <2>2, <2>4, SumPutsIn
  <2>6. SumFunctionOnSet(f, DOMAIN cart) = SumFunctionOnSet(g, DOMAIN cart)
    <3> DEFINE S == DOMAIN cart
    <3>1. IsFiniteSet(S)
      BY <1>1
    <3>2. \A i \in S : f[i] \in Int /\ g[i] = f[i]
      BY <1>2, <2>3
    <3> HIDE DEF S
    <3>3. SumFunctionOnSet(f, S) = SumFunctionOnSet(g, S)
      BY <3>1, <3>2, SumOfSame
    <3> QED
      BY <3>3 DEF S
  <2> QED
    BY <1>3, <1>4, <2>2, <2>3, <2>5, <2>6 DEF new
<1> QED
  BY <1>5, <1>6

\* Merging does not change what an order costs.
LEMMA MergedBill ==
  ASSUME NEW items \in Seq(Line), NEW prices, IsPriced(prices, items)
  PROVE  Bill(prices, Merge(items)) = Bill(prices, items)
<1>1. PICK carts : /\ carts[0] = <<>>
                   /\ \A n \in 0 .. Len(items) - 1 : carts[n + 1] = AddItem(carts[n], items[n + 1])
                   /\ carts[Len(items)] = Merge(items)
  BY MergeByItem
<1> DEFINE f == [i \in DOMAIN items |-> Cents(prices, items[i])]
           good == {n \in 0 .. Len(items) :
                      /\ Merged(items, n, carts[n])
                      /\ Bill(prices, carts[n]) = SumFunctionOnSet(f, 1 .. n)}
<1>2. DOMAIN items = 1 .. Len(items) /\ Len(items) \in Nat /\ \A i \in DOMAIN items : items[i] \in Line
  BY LenProperties
<1>3. \A i \in DOMAIN items : f[i] \in Nat /\ f[i] = Cents(prices, items[i])
  BY CentsAreNat
<1>4. Bill(prices, items) = SumFunctionOnSet(f, 1 .. Len(items))
  BY <1>2 DEF Bill, SumFunction
<1> HIDE DEF f
<1>5. 0 \in good
  <2>1. <<>> \in Seq(Line) /\ DOMAIN <<>> = {} /\ 1 .. 0 = {}
    OBVIOUS
  <2>2. Merged(items, 0, <<>>)
    BY <2>1 DEF Merged
  <2>3. Bill(prices, <<>>) = 0 /\ SumFunctionOnSet(f, 1 .. 0) = 0
    BY <2>1, SumOfNone DEF Bill, SumFunction
  <2> QED
    BY <1>1, <1>2, <2>2, <2>3
<1>6. \A n \in good : n \in 0 .. Len(items) - 1 => n + 1 \in good
  <2> TAKE n \in good
  <2> HAVE n \in 0 .. Len(items) - 1
  <2>1. Merged(items, n + 1, AddItem(carts[n], items[n + 1]))
    BY StepMerged
  <2>2. n + 1 \in 0 .. Len(items) /\ n \in Nat
    BY <1>2
  <2>3. carts[n] \in Seq(Line) /\ IsPriced(prices, carts[n])
        /\ \A i, k \in DOMAIN carts[n] : carts[n][i].product_id = carts[n][k].product_id => i = k
    <3>1. Merged(items, n, carts[n])
      OBVIOUS
    <3>2. 1 .. n \subseteq DOMAIN items
      BY <1>2
    <3>3. IsPriced(prices, carts[n])
      BY <3>1, <3>2 DEF Merged, IsPriced
    <3>4. carts[n] \in Seq(Line)
      BY <3>1 DEF Merged
    <3> QED
      BY <2>2, <3>1, <3>3, <3>4, OneLineEach
  <2>4. n + 1 \in DOMAIN items
    BY <1>2
  <2>5. items[n + 1] \in Line /\ prices[items[n + 1].product_id] \in Nat
    BY <1>2, <2>4 DEF IsPriced
  <2>6. Bill(prices, carts[n + 1]) = Bill(prices, carts[n]) + f[n + 1]
    BY <1>1, <1>3, <2>3, <2>4, <2>5, BillOfNext
  <2>7. /\ SumFunctionOnSet(f, 1 .. n) \in Int
        /\ SumFunctionOnSet(f, 1 .. n + 1) = f[n + 1] + SumFunctionOnSet(f, 1 .. n)
    <3>1. /\ 1 \in Int /\ n + 1 \in Int /\ 1 <= n + 1 /\ (n + 1) - 1 = n
          /\ \A i \in 1 .. n + 1 : f[i] \in Int
      BY <1>2, <1>3
    <3>2. /\ SumFunctionOnSet(f, 1 .. (n + 1) - 1) \in Int
          /\ SumFunctionOnSet(f, 1 .. n + 1) = f[n + 1] + SumFunctionOnSet(f, 1 .. (n + 1) - 1)
      BY <3>1, SumOfInterval
    <3> QED
      BY <3>1, <3>2
  <2>8. Bill(prices, carts[n + 1]) = SumFunctionOnSet(f, 1 .. n + 1)
    <3>1. f[n + 1] \in Nat /\ Bill(prices, carts[n]) = SumFunctionOnSet(f, 1 .. n)
      BY <1>3, <2>4
    <3> QED
      BY <2>6, <2>7, <3>1
  <2> QED
    BY <1>1, <2>1, <2>2, <2>8
<1>7. \A n \in 0 .. Len(items) : n \in good
  <2> HIDE DEF good
  <2> QED
    BY <1>2, <1>5, <1>6, UpTo
<1>8. Len(items) \in good
  BY <1>2, <1>7
<1> QED
  BY <1>1, <1>4, <1>8

-----------------------------------------------------------------------------
(* The order that is placed *)

LEMMA LeastMember ==
  ASSUME NEW S \in SUBSET Nat, S # {}
  PROVE  Min(S) \in S /\ \A m \in S : Min(S) <= m
BY LeastNumber DEF Min

LEMMA AcceptedCart ==
  ASSUME Inv, IsAccepted
  PROVE  /\ Items \in Seq(Line) /\ DOMAIN Items # {}
         /\ ProductIds(Items) = ProductIds(body.items)
         /\ \A i \in DOMAIN Items :
              /\ UnitsOf(body.items, Items[i].product_id) \in Nat
              /\ Items[i].quantity = UnitsOf(body.items, Items[i].product_id)
         /\ Merged(body.items, Len(body.items), Items)
<1> DEFINE asked == body.items
<1>1. asked \in Seq(Line) /\ asked # <<>> /\ Items = Merge(asked)
  BY AcceptedBody
<1> HIDE DEF asked
<1>2. DOMAIN asked = 1 .. Len(asked) /\ Len(asked) \in Nat
  BY <1>1, LenProperties
<1>3. Merged(asked, Len(asked), Items)
  BY <1>1, MergedCart
<1>4. \A p : UnitsOf(asked, p) = UnitsUpTo(asked, Len(asked), p)
  BY <1>2 DEF UnitsOf, UnitsUpTo, Entries
<1>5. Items \in Seq(Line)
  BY <1>3 DEF Merged
<1>6. 1 \in 1 .. Len(asked)
  BY <1>1, <1>2
<1>7. DOMAIN Items # {}
  BY <1>3, <1>6 DEF Merged
<1>8. ProductIds(Items) = ProductIds(asked)
  <2> DEFINE cart == Items
  <2>1. \A i \in DOMAIN cart : \E j \in DOMAIN asked : asked[j].product_id = cart[i].product_id
    BY <1>2, <1>3 DEF Merged
  <2>2. \A j \in DOMAIN asked : \E i \in DOMAIN cart : cart[i].product_id = asked[j].product_id
    BY <1>2, <1>3 DEF Merged
  <2> HIDE DEF cart
  <2>3. ASSUME NEW p PROVE p \in ProductIds(cart) <=> p \in ProductIds(asked)
    <3>1. p \in ProductIds(cart) <=> \E i \in DOMAIN cart : p = cart[i].product_id
      BY DEF ProductIds
    <3>2. p \in ProductIds(asked) <=> \E j \in DOMAIN asked : p = asked[j].product_id
      BY DEF ProductIds
    <3> QED
      BY <2>1, <2>2, <3>1, <3>2, Zenon
  <2>4. ProductIds(cart) = ProductIds(asked)
    BY <2>3, Zenon
  <2> QED
    BY <2>4 DEF cart
<1>9. \A i \in DOMAIN Items : Items[i].quantity = UnitsOf(asked, Items[i].product_id)
  BY <1>3, <1>4 DEF Merged
<1>10. \A i \in DOMAIN Items : Items[i].quantity \in Nat
  <2> TAKE i \in DOMAIN Items
  <2>1. Items[i] \in Line
    BY <1>5, LenProperties
  <2> QED
    BY <2>1 DEF Line
<1> QED
  BY <1>3, <1>5, <1>7, <1>8, <1>9, <1>10 DEF asked

LEMMA PlacedTotal ==
  ASSUME Inv, IsPlaced
  PROVE  /\ order.total_cents \in Nat
         /\ order.total_cents = Bill(tables.prices, body.items)
         /\ order.total_cents <= IntegerMax
<1> DEFINE asked == body.items
<1>1. /\ IsAccepted /\ Known
      /\ order.total_cents = TotalCents(Items) /\ order.total_cents <= IntegerMax
  BY DEF Inv, IsPlaced
<1>2. asked \in Seq(Line) /\ Items = Merge(asked)
  BY <1>1, AcceptedBody
<1>3. ProductIds(asked) \subseteq DOMAIN tables.prices
  BY <1>1, AcceptedCart DEF Known
<1>4. tables.prices \in [DOMAIN tables.prices -> Nat]
  BY TablesAssumption DEF Inv
<1>5. IsPriced(tables.prices, asked)
  BY <1>3, <1>4 DEF IsPriced, ProductIds
<1>6. TotalCents(Items) = Bill(tables.prices, Items)
  BY DEF TotalCents, Bill, Cents
<1> HIDE DEF asked
<1>7. Bill(tables.prices, Items) = Bill(tables.prices, asked) /\ Bill(tables.prices, asked) \in Nat
  BY <1>2, <1>5, MergedBill, BillIsNat
<1> QED
  BY <1>1, <1>6, <1>7 DEF asked

(***************************************************************************)
(* The client gets and pays for what it asked for: one line for every      *)
(* product, in the order of first mention, with all its units, and the     *)
(* total of the order as it was written, not only as it was merged         *)
(* (_validate_items, create_order).                                        *)
(***************************************************************************)
THEOREM CartsKeepUnits == Spec => []CartKeepsUnits
<1>1. Inv => CartKeepsUnits
  <2> SUFFICES ASSUME Inv PROVE CartKeepsUnits
    OBVIOUS
  <2>1. ASSUME IsPlaced
        PROVE  order.total_cents =
                 SumFunction([i \in DOMAIN body.items |->
                                tables.prices[body.items[i].product_id] * body.items[i].quantity])
    BY <2>1, PlacedTotal DEF Bill, Cents
  <2> DEFINE asked == body.items
             mentions(p) == {i \in DOMAIN asked : asked[i].product_id = p}
  <2>2. ASSUME IsAccepted
        PROVE  /\ {Items[i].product_id : i \in DOMAIN Items}
                    = {asked[i].product_id : i \in DOMAIN asked}
               /\ \A i \in DOMAIN Items :
                    Items[i].quantity = UnitsOf(asked, Items[i].product_id)
    BY <2>2, AcceptedCart DEF ProductIds
  <2>3. ASSUME IsAccepted, NEW i \in DOMAIN Items, NEW k \in DOMAIN Items, i < k
        PROVE  Min(mentions(Items[i].product_id)) < Min(mentions(Items[k].product_id))
    <3>1. Merged(asked, Len(asked), Items) /\ asked \in Seq(Line)
      BY <2>3, AcceptedCart, AcceptedBody
    <3> HIDE DEF asked
    <3>2. DOMAIN asked = 1 .. Len(asked) /\ Len(asked) \in Nat
      BY <3>1, LenProperties
    <3>3. PICK j \in DOMAIN asked :
            /\ asked[j].product_id = Items[i].product_id
            /\ \A l \in DOMAIN asked : asked[l].product_id = Items[k].product_id => j < l
      BY <2>3, <3>1, <3>2 DEF Merged
    <3>4. /\ mentions(Items[i].product_id) \in SUBSET Nat
          /\ mentions(Items[k].product_id) \in SUBSET Nat
          /\ j \in mentions(Items[i].product_id)
          /\ \A l \in mentions(Items[k].product_id) : j < l
      BY <3>2, <3>3
    <3>5. mentions(Items[k].product_id) # {}
      BY <3>1, <3>2 DEF Merged
    <3> DEFINE mi == mentions(Items[i].product_id)
               mk == mentions(Items[k].product_id)
    <3>6. mi \in SUBSET Nat /\ mk \in SUBSET Nat /\ mk # {} /\ j \in mi /\ \A l \in mk : j < l
      BY <3>4, <3>5
    <3> HIDE DEF mi, mk
    <3>7. Min(mi) \in Nat /\ Min(mi) <= j
      BY <3>6, LeastMember
    <3>8. Min(mk) \in mk /\ Min(mk) \in Nat /\ j < Min(mk) /\ j \in Nat
      BY <3>6, LeastMember
    <3>9. Min(mi) < Min(mk)
      BY <3>7, <3>8
    <3> QED
      BY <3>9 DEF mi, mk
  <2> QED
    BY <2>1, <2>2, <2>3 DEF CartKeepsUnits, Items
<1> QED
  BY <1>1, Invariance, PTL

LEMMA InventoryOfTables ==
  ASSUME Inv
  PROVE  /\ IsInventory(tables.inventory, DOMAIN tables.distance)
         /\ tables.distance \in [DOMAIN tables.distance -> Nat]
<1>1. /\ tables.distance \in [DOMAIN tables.distance -> Nat]
      /\ DOMAIN tables.inventory \subseteq (DOMAIN tables.distance) \X Nat
      /\ tables.inventory \in [DOMAIN tables.inventory -> Nat]
  BY TablesAssumption DEF Inv
<1>2. \A row \in DOMAIN tables.inventory :
        row = <<row[1], row[2]>> /\ row[1] \in DOMAIN tables.distance
  BY <1>1
<1> QED
  BY <1>1, <1>2 DEF IsInventory

\* The cart and the body ask the same of a warehouse.
LEMMA ShortOrNot ==
  ASSUME Inv, IsAccepted, NEW w
  PROVE  /\ IsOrder(Items)
         /\ HasAll(tables.inventory, Items, w) <=> ~IsShort(w)
<1>1. /\ Items \in Seq(Line) /\ DOMAIN Items # {}
      /\ ProductIds(Items) = ProductIds(body.items)
      /\ \A i \in DOMAIN Items :
           /\ UnitsOf(body.items, Items[i].product_id) \in Nat
           /\ Items[i].quantity = UnitsOf(body.items, Items[i].product_id)
  BY AcceptedCart
<1>2. IsOrder(Items)
  <2>1. \A i \in DOMAIN Items : Items[i] \in Line
    BY <1>1, LenProperties
  <2> QED
    BY <1>1, <2>1 DEF IsOrder, Line
<1>3. \A p : QuantityAt(tables.inventory, w, p) = Holds(w, p) /\ Holds(w, p) \in Nat
  BY InventoryOfTables DEF QuantityAt, Holds, IsInventory
<1>4. HasAll(tables.inventory, Items, w)
        <=> \A i \in DOMAIN Items :
              ~(Holds(w, Items[i].product_id) < UnitsOf(body.items, Items[i].product_id))
  BY <1>1, <1>3 DEF HasAll
<1> QED
  BY <1>1, <1>2, <1>4 DEF IsShort, ProductIds

(***************************************************************************)
(* One warehouse ships the whole order, the nearest that can, and a client *)
(* is turned away only if none can (create_order, find_best_warehouse).    *)
(***************************************************************************)
THEOREM NearestFills == Spec => []NearestThatFills
<1>1. Inv => NearestThatFills
  <2> SUFFICES ASSUME Inv PROVE NearestThatFills
    OBVIOUS
  <2>1. ASSUME IsPlaced
        PROVE  /\ ~IsShort(order.warehouse)
               /\ \A w \in DOMAIN tables.distance :
                    tables.distance[w] < tables.distance[order.warehouse] => IsShort(w)
    <3>1. IsAccepted
          /\ order.warehouse \in find_best_warehouse(tables.inventory, Items, tables.distance)
      BY <2>1 DEF Inv, IsPlaced, Candidates
    <3>2. IsOrder(Items)
      BY <3>1, ShortOrNot
    <3>3. /\ HasAll(tables.inventory, Items, order.warehouse)
          /\ \A w \in DOMAIN tables.distance :
               tables.distance[w] < tables.distance[order.warehouse]
                 => ~HasAll(tables.inventory, Items, w)
      BY <3>1, <3>2, InventoryOfTables, SelectionIsNearest
    <3> QED
      BY <3>1, <3>3, ShortOrNot
  <2>2. ASSUME order # Nothing, order.status = "conflict", NEW w \in DOMAIN tables.distance
        PROVE  IsShort(w)
    <3>1. IsAccepted /\ find_best_warehouse(tables.inventory, Items, tables.distance) = {}
      BY <2>2 DEF Inv, Candidates
    <3>2. IsOrder(Items)
      BY <3>1, ShortOrNot
    <3>3. ~HasAll(tables.inventory, Items, w)
      BY <3>1, <3>2, InventoryOfTables, SelectionFinds
    <3> QED
      BY <3>1, <3>3, ShortOrNot
  <2> QED
    BY <2>1, <2>2 DEF NearestThatFills
<1> QED
  BY <1>1, Invariance, PTL

(***************************************************************************)
(* Each test card reaches the lookup and is declined with its own code,    *)
(* and no other card of any length gets that code (_DECLINE_CODES).        *)
(***************************************************************************)
THEOREM TestCardsAreDeclined == Spec => []TestCardsDecline
<1>1. Inv => TestCardsDecline
  <2> SUFFICES ASSUME Inv, result # Nothing, order.total_cents > 0,
                      NEW code \in DOMAIN DeclineCode
               PROVE  result.failure_code = code <=> Card = DeclineCard(code)
    BY DEF TestCardsDecline
  <2>1. result = charge(Card, order.total_cents) /\ IsPlaced
    BY DEF Inv
  <2>2. order.total_cents \in Int
    BY <2>1, PlacedTotal
  <2>3. code # "none" /\ code # "invalid_card_number" /\ code # "invalid_amount"
    BY DEF DeclineCode
  <2> DEFINE found == CHOOSE c \in DOMAIN DeclineCode : IsDeclineCard(Card, c)
  <2>4. ASSUME result.failure_code = code PROVE Card = DeclineCard(code)
    <3>1. /\ \E c \in DOMAIN DeclineCode : IsDeclineCard(Card, c)
          /\ result.failure_code = found
      BY <2>1, <2>3, <2>4 DEF charge, Declined, Charged
    <3>2. IsDeclineCard(Card, found)
      BY <3>1
    <3> QED
      BY <2>4, <3>1, <3>2 DEF IsDeclineCard
  <2>5. ASSUME Card = DeclineCard(code) PROVE result.failure_code = code
    <3>1. Len(Card) = 16 /\ LuhnValid(Card)
      BY <2>5, TestCardDigits, TestCardsAreValid
    <3>2. IsDeclineCard(Card, code)
      BY <2>5 DEF IsDeclineCard
    <3>3. charge(Card, order.total_cents) = Declined(Card, found)
      BY <2>2, <3>1, <3>2 DEF charge
    <3>4. found \in DOMAIN DeclineCode /\ Card = DeclineCard(found)
      BY <3>2 DEF IsDeclineCard
    <3>5. found = code
      BY <2>5, <3>4, TestCardsDiffer
    <3> QED
      BY <2>1, <3>3, <3>5 DEF Declined
  <2> QED
    BY <2>4, <2>5
<1> QED
  BY <1>1, Invariance, PTL

LEMMA Last4IsShort ==
  ASSUME NEW digits \in Seq(Digits)
  PROVE  Last4(digits) \in UNION {[1 .. n -> Digits] : n \in 0 .. 4}
<1>1. Len(digits) \in Nat /\ DOMAIN digits = 1 .. Len(digits) /\ \A i \in DOMAIN digits : digits[i] \in Digits
  BY LenProperties
<1>2. Last4(digits) \in Seq(Digits) /\ Len(Last4(digits)) \in 0 .. 4
  <2>1. CASE Len(digits) >= 4
    <3>1. /\ Len(digits) - 3 \in Int /\ Len(digits) \in Int
          /\ \A i \in Len(digits) - 3 .. Len(digits) : digits[i] \in Digits
      BY <1>1, <2>1
    <3>2. /\ SubSeq(digits, Len(digits) - 3, Len(digits)) \in Seq(Digits)
          /\ Len(SubSeq(digits, Len(digits) - 3, Len(digits)))
               = IF Len(digits) - 3 <= Len(digits) THEN Len(digits) - (Len(digits) - 3) + 1 ELSE 0
      BY <3>1, SubSeqProperties
    <3> QED
      BY <1>1, <2>1, <3>2 DEF Last4
  <2>2. CASE ~(Len(digits) >= 4)
    BY <1>1, <2>2 DEF Last4
  <2> QED
    BY <2>1, <2>2
<1>3. Last4(digits) \in [1 .. Len(Last4(digits)) -> Digits]
  BY <1>2
<1> QED
  BY <1>2, <1>3

(***************************************************************************)
(* The lines of an accepted order are positive, its total fits the column  *)
(* it is inserted into, and what is kept of the card number is at most     *)
(* four digits, for numbers of any length (charge).                        *)
(***************************************************************************)
THEOREM Types == Spec => []TypeOK
<1>1. Inv => TypeOK
  <2> SUFFICES ASSUME Inv PROVE TypeOK
    OBVIOUS
  <2>1. ASSUME IsAccepted, NEW i \in DOMAIN Items
        PROVE  Items[i] \in [product_id : Nat \ {0}, quantity : Nat \ {0}]
    BY <2>1, AcceptedCart, LenProperties DEF Line
  <2>2. ASSUME IsPlaced PROVE order.total_cents \in 0 .. IntegerMax
    BY <2>2, PlacedTotal, IntegerAssumption
  <2>3. ASSUME result # Nothing
        PROVE  /\ result.success \in BOOLEAN
               /\ result.card_last4 \in UNION {[1 .. n -> Digits] : n \in 0 .. 4}
    <3>1. result = charge(Card, order.total_cents) /\ Card \in Seq(Digits)
      BY <2>3, AcceptedBody DEF Inv, IsPlaced
    <3>2. Last4(Card) \in UNION {[1 .. n -> Digits] : n \in 0 .. 4}
      BY <3>1, Last4IsShort
    <3>3. charge(Card, order.total_cents).card_last4 = Last4(Card)
          /\ charge(Card, order.total_cents).success \in BOOLEAN
      BY DEF charge, Declined, Charged
    <3> QED
      BY <3>1, <3>2, <3>3
  <2> QED
    BY <2>1, <2>2, <2>3 DEF TypeOK, Items
<1> QED
  BY <1>1, Invariance, PTL
=============================================================================
