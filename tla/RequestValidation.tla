------------------------- MODULE RequestValidation --------------------------
(***************************************************************************)
(* parse_create_order_request (src/app/validation.py): a function from the *)
(* JSON body of POST /orders to a request, a list of problems, or an       *)
(* exception nobody expected.                                              *)
(*                                                                         *)
(* A JSON value is abstracted to what the checks tell apart.  Where an     *)
(* integer is expected it is an integer or NotInt, which stands for null,  *)
(* a missing field, a boolean, and everything else.  Where a string is     *)
(* expected it is one of Texts.                                            *)
(***************************************************************************)
EXTENDS Integers, Sequences, SequencesExt

CONSTANTS NotInt, NotAnObject, NotAList

(***************************************************************************)
(* text     a string that is not empty once stripped                       *)
(* blank    a string that is empty once stripped                           *)
(* falsy    no string, but false in Python: null, missing, 0, false, []    *)
(* truthy   no string, and true in Python: 10118, true, [0], {"a": 0}      *)
(*                                                                         *)
(* The expiry is "fine" (an integer, or not there) or "wrong".             *)
(***************************************************************************)
Texts == {"text", "blank", "falsy", "truthy"}

RequiredFields == {"line1", "city", "postal_code", "country"}
AddressFields == RequiredFields \union {"line2", "state"}
ExpiryFields == {"expiry_month", "expiry_year"}

\* An entry of the list of problems; index is 0 outside the list of items.
Problem(part, field, index) == [part |-> part, field |-> field, index |-> index]

IsPositive(v) == v # NotInt /\ v > 0

\* (value or "").strip() raises AttributeError on anything else.
CanStrip(v) == v # "truthy"

-----------------------------------------------------------------------------
(* _validate_address *)

AddressProblems(address) ==
  IF address = NotAnObject
  THEN {Problem("shipping_address", "", 0)}
  ELSE {Problem("shipping_address", f, 0) : f \in {g \in RequiredFields : address[g] # "text"}}

AddressRaises(address) ==
  /\ address # NotAnObject
  /\ \E f \in AddressFields : ~CanStrip(address[f])

-----------------------------------------------------------------------------
(* _validate_items *)

\* The first of its checks that items[i] fails; the others are not made.
ItemProblem(items, i) ==
  IF items[i] = NotAnObject THEN Problem("items", "", i)
  ELSE IF ~IsPositive(items[i].product_id) THEN Problem("items", "product_id", i)
  ELSE Problem("items", "quantity", i)

\* A bug to detect: zero is let through.
GoodUpToZero(item) ==
  /\ item # NotAnObject
  /\ IsPositive(item.product_id)
  /\ item.quantity # NotInt
  /\ item.quantity >= 0

\* The item passes all its checks.
GoodItem(item) ==
  /\ item # NotAnObject
  /\ IsPositive(item.product_id)
  /\ IsPositive(item.quantity)

ItemsProblems(items) ==
  IF items = NotAList \/ items = <<>>
  THEN {Problem("items", "", 0)}
  ELSE {ItemProblem(items, i) : i \in {j \in DOMAIN items : ~GoodItem(items[j])}}

\* A bug to detect: the last of several entries of a product wins.
LastWins(merged, item) ==
  IF \E i \in DOMAIN merged : merged[i].product_id = item.product_id
  THEN [i \in DOMAIN merged |->
          IF merged[i].product_id = item.product_id THEN item ELSE merged[i]]
  ELSE Append(merged, item)

\* merged[product_id] = merged.get(product_id, 0) + quantity; a Python dict
\* keeps the order in which its keys came.
AddItem(merged, item) ==
  IF \E i \in DOMAIN merged : merged[i].product_id = item.product_id
  THEN [i \in DOMAIN merged |->
          IF merged[i].product_id = item.product_id
          THEN [merged[i] EXCEPT !.quantity = @ + item.quantity]
          ELSE merged[i]]
  ELSE Append(merged, item)

Merge(items) == FoldLeft(AddItem, <<>>, items)

-----------------------------------------------------------------------------
(* _validate_payment *)

PaymentProblems(payment) ==
  IF payment = NotAnObject
  THEN {Problem("payment", "", 0)}
  ELSE {Problem("payment", f, 0) : f \in
          {g \in {"card_number"} : payment[g] # "text"}
          \union {g \in ExpiryFields : payment[g] = "wrong"}}

PaymentRaises(payment) ==
  payment # NotAnObject /\ ~CanStrip(payment.card_number)

-----------------------------------------------------------------------------
CustomerProblems(customer_id) ==
  IF IsPositive(customer_id) THEN {} ELSE {Problem("customer_id", "", 0)}

\* A bug to detect: the errors are raised part by part.
StopAtFirstPart(body) ==
  LET parts == <<CustomerProblems(body.customer_id), AddressProblems(body.shipping_address),
                 ItemsProblems(body.items), PaymentProblems(body.payment)>>
      faulty == SelectSeq(parts, LAMBDA p : p # {})
  IN IF faulty = <<>> THEN {} ELSE faulty[1]

\* The list errors after all validators have run.
Errors(body) ==
  CustomerProblems(body.customer_id)
    \union AddressProblems(body.shipping_address)
    \union ItemsProblems(body.items)
    \union PaymentProblems(body.payment)

Refused(errors) == [kind |-> "refused", errors |-> errors]
Raised == [kind |-> "raised"]
Accepted(items) == [kind |-> "accepted", items |-> items]

\* A validator that raises takes the errors collected so far with it.
parse_create_order_request(body) ==
  IF body = NotAnObject THEN Refused({Problem("body", "", 0)})
  ELSE IF AddressRaises(body.shipping_address) \/ PaymentRaises(body.payment) THEN Raised
  ELSE IF Errors(body) # {} THEN Refused(Errors(body))
  ELSE Accepted(Merge(body.items))
=============================================================================
