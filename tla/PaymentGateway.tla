--------------------------- MODULE PaymentGateway ---------------------------
(***************************************************************************)
(* MockPaymentGateway.charge (src/app/services/payment.py): a function of  *)
(* the card's digits (all that is left of card_number once re.sub has      *)
(* removed the rest) and the amount.                                       *)
(***************************************************************************)
EXTENDS Integers, Sequences, Functions

Digits == 0 .. 9

\* _DECLINE_CODES, by the last four digits of 4000 0000 0000 xxxx.
DeclineCode ==
  [card_declined      |-> <<0, 0, 0, 2>>,
   insufficient_funds |-> <<9, 9, 9, 5>>,
   expired_card       |-> <<0, 0, 6, 9>>,
   incorrect_cvc      |-> <<0, 1, 2, 7>>]

DeclineCard(code) == <<4>> \o [i \in 1 .. 11 |-> 0] \o DeclineCode[code]

-----------------------------------------------------------------------------
(* _luhn_valid *)

\* A bug to detect: the digits of 10 and more are not added up.
DoubleUnfolded(d) == 2 * d

\* d *= 2; if d > 9: d -= 9
Double(d) == IF 2 * d > 9 THEN 2 * d - 9 ELSE 2 * d

\* Counted from the right and from 0, the digits at odd places are doubled.
Weight(digits, i) ==
  IF (Len(digits) - i) % 2 = 1 THEN Double(digits[i]) ELSE digits[i]

LuhnSum(digits) == SumFunction([i \in DOMAIN digits |-> Weight(digits, i)])

LuhnValid(digits) == LuhnSum(digits) % 10 = 0

-----------------------------------------------------------------------------
(* charge *)

\* A bug to detect: the number is kept as it is.
WholeNumber(digits) == digits

Last4(digits) ==
  IF Len(digits) >= 4 THEN SubSeq(digits, Len(digits) - 3, Len(digits)) ELSE digits

Declined(digits, code) ==
  [success |-> FALSE, card_last4 |-> Last4(digits), failure_code |-> code]

Charged(digits) ==
  [success |-> TRUE, card_last4 |-> Last4(digits), failure_code |-> "none"]

\* A bug to detect: the test cards are looked up by their last four digits.
DeclinedByLast4(digits, code) == Last4(digits) = DeclineCode[code]

IsDeclineCard(digits, code) == digits = DeclineCard(code)

charge(digits, amount_cents) ==
  IF ~(13 <= Len(digits) /\ Len(digits) <= 19) THEN Declined(digits, "invalid_card_number")
  ELSE IF ~LuhnValid(digits) THEN Declined(digits, "invalid_card_number")
  ELSE IF amount_cents <= 0 THEN Declined(digits, "invalid_amount")
  ELSE IF \E code \in DOMAIN DeclineCode : IsDeclineCard(digits, code)
  THEN Declined(digits, CHOOSE code \in DOMAIN DeclineCode : IsDeclineCard(digits, code))
  ELSE Charged(digits)
=============================================================================
