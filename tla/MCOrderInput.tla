---------------------------- MODULE MCOrderInput ----------------------------
(***************************************************************************)
(* Inputs of OrderInput for TLC.  Every part of a body is enumerated over  *)
(* all its shapes while the other parts are sound or not; the cards are    *)
(* real test cards, numbers at the limits of the length, and a thousand    *)
(* endings of 13 digits.  Bodies of up to three sound items meet all       *)
(* tables of two warehouses and two products with 2, 4 or no units.        *)
(***************************************************************************)
EXTENDS OrderInput

SomeDigits(n) == [i \in 1 .. n |-> (3 * i) % 10]

Visa == <<4, 2, 4, 2, 4, 2, 4, 2, 4, 2, 4, 2, 4, 2, 4, 2>>

\* What precedes the endings weighs 8, as it does in the decline cards.
Endings == {<<8, 0, 0, 0, 0, 0, 0, 0, 0, 0>> \o end : end \in [1 .. 3 -> Digits]}

\* For every length around the limits, the numbers with one last digit or another.
Lengths == {SomeDigits(n) \o <<d>> : n \in {0, 2, 3, 11, 12, 13, 17, 18, 19}, d \in Digits}

Cards ==
  {Visa} \union {DeclineCard(code) : code \in DOMAIN DeclineCode} \union Endings \union Lengths

Payment(text, month, digits) ==
  [card_number |-> text, expiry_month |-> month, expiry_year |-> "fine", digits |-> digits]

Payments ==
  {NotAnObject} \union
  {Payment(text, month, IF text = "text" THEN Visa ELSE <<>>) :
     text \in Texts, month \in {"fine", "wrong"}}

GoodAddress == [f \in AddressFields |-> "text"]

Addresses ==
  {NotAnObject} \union
  {[GoodAddress EXCEPT !["line1"] = s, ![f] = t] :
     s \in {"text", "blank"}, f \in AddressFields, t \in Texts}

SomeItems ==
  {NotAnObject} \union [product_id : {0, 1, 2}, quantity : {NotInt, 0, 1, 2}]

\* Three items only if each has a positive quantity: what they are for is merging.
ItemLists ==
  {NotAList} \union UNION {[1 .. n -> SomeItems] : n \in 0 .. 2}
    \union [1 .. 3 -> [product_id : {0, 1, 2}, quantity : {1, 2}]]

GoodItems == <<[product_id |-> 1, quantity |-> 2]>>

CustomerIds == {NotInt, 0, 1, 2}

Body(customer_id, address, items, payment) ==
  [customer_id |-> customer_id, shipping_address |-> address,
   items |-> items, payment |-> payment]

AllBodies ==
  {NotAnObject}
  \union {Body(c, a, i, p) : c \in CustomerIds, a \in {GoodAddress, NotAnObject},
                             i \in ItemLists, p \in {Payment("text", "fine", Visa), NotAnObject}}
  \union {Body(c, a, i, p) : c \in CustomerIds, a \in Addresses,
                             i \in {GoodItems, <<>>}, p \in Payments}

CardBodies == {Body(1, GoodAddress, GoodItems, Payment("text", "fine", d)) : d \in Cards}

\* Their card is refused.
SoundBodies ==
  {Body(1, GoodAddress, i, Payment("text", "fine", SomeDigits(13))) :
     i \in UNION {[1 .. n -> [product_id : {1, 2}, quantity : {1, 2}]] : n \in 1 .. 3}}

Tables(prices, inventory, distance) ==
  [customers |-> {1}, prices |-> prices, inventory |-> inventory, distance |-> distance]

Wares == {"w1", "w2"} \X {1, 2}

Inventories == UNION {[rows -> {2, 4}] : rows \in SUBSET Wares}

Distances == {("w1" :> 1) @@ ("w2" :> d) : d \in 0 .. 2}

FullTables(price) == Tables(1 :> price @@ 2 :> price, [row \in Wares |-> 4], "w1" :> 1 @@ "w2" :> 2)

MCBodies == AllBodies \union CardBodies \union SoundBodies

MCTablesOf(b) ==
  IF b \in SoundBodies
  THEN {Tables(1 :> 9, [row \in {<<"w1", 1>>} |-> 4], "w1" :> 1)} \union
       {Tables(1 :> 9 @@ 2 :> 5, inventory, distance) :
          inventory \in Inventories, distance \in Distances}
  ELSE {FullTables(9)} \union IF b \in CardBodies THEN {FullTables(0)} ELSE {}

\* Scaled down: three units of the dearer product fit, four do not.
MCIntegerMax == 30
=============================================================================
