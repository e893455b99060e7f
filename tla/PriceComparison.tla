---------------------------- MODULE PriceComparison ----------------------------
(***************************************************************************)
(* The arithmetic between a survey price and a reference price, as it is   *)
(* stored when a generation is parsed (grocery/pricing.py) and as it is    *)
(* checked again when a page is served (grocery/public_read.py).           *)
(*                                                                         *)
(* Prices are whole won (Decimal of scale 0), percentages whole tenths of  *)
(* a percent (scale 1).  The working precision of pricing.py is 16 digits  *)
(* more than the prices have, so its quotient rounds like the exact one.   *)
(***************************************************************************)
EXTENDS Integers

CONSTANT None     \* the source provided no reference value

Periods    == {"WEEK", "MONTH", "YEAR"}
Directions == {"LOWER", "EQUAL", "HIGHER", "UNAVAILABLE"}

Magnitude(x) == IF x < 0 THEN -x ELSE x

(* Decimal.quantize(rounding=ROUND_DOWN): towards zero.                    *)
TowardsZero(num, den) ==
  LET q == Magnitude(num) \div den IN IF num < 0 THEN -q ELSE q

(* Decimal.quantize(rounding=ROUND_HALF_UP): to the nearest, ties away     *)
(* from zero.                                                              *)
HalfUp(num, den) ==
  LET q == (2 * Magnitude(num) + den) \div (2 * den) IN IF num < 0 THEN -q ELSE q

DirectionOf(difference) ==
  IF difference < 0 THEN "LOWER" ELSE IF difference > 0 THEN "HIGHER" ELSE "EQUAL"

(* The direction is taken from the difference, not from the percentage.    *)
Compare(current, reference) ==
  IF reference = None
  THEN [direction |-> "UNAVAILABLE", difference |-> None, percentage |-> None]
  ELSE [direction  |-> DirectionOf(current - reference),
        difference |-> current - reference,
        percentage |-> HalfUp(1000 * (current - reference), reference)]

(* The check constraint grocery_change_value_state_valid.                  *)
Storable(change) ==
  \/ change.direction = "UNAVAILABLE" /\ change.difference = None /\ change.percentage = None
  \/ /\ change.difference # None /\ change.percentage # None
     /\ change.direction = DirectionOf(change.difference)

(* _comparison_context: the page is refused unless difference and          *)
(* percentage both have the sign of the direction.                         *)
Readable(change) ==
  \/ change.direction = "UNAVAILABLE" /\ change.difference = None /\ change.percentage = None
  \/ /\ change.difference # None /\ change.percentage # None
     /\ change.direction = DirectionOf(change.difference)
     /\ change.direction = DirectionOf(change.percentage)

(* The price differs by less than one twentieth of a percent.              *)
TinyChange(current, reference) ==
  /\ reference # None
  /\ current # reference
  /\ 2000 * Magnitude(current - reference) < reference
=============================================================================
