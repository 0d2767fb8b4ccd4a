------------------------------- MODULE Amounts -------------------------------
(***************************************************************************)
(* The money arithmetic of the checkout: how PaymentUIUtil rounds amounts, *)
(* compares them and decides that redeemed credits pay for a booking in    *)
(* full, and how the amount left for the payment portal is computed.       *)
(*                                                                         *)
(* The code keeps amounts as decimal strings and computes in doubles.      *)
(* Here an amount is a natural number of tenths of a paisa, so that an     *)
(* amount can fall strictly between two paise.  A double result may be a   *)
(* hair off the exact one, which matters only where it is then rounded:    *)
(* such an operator returns the SET of results the double arithmetic can   *)
(* produce, the hair being one tenth of a paisa.                           *)
(***************************************************************************)
EXTENDS Integers

Paisa == 10
Rupee == 100 * Paisa

Amount == Nat

(* Rounding to the paisa below and above. *)
DownToPaisa(a) == Paisa * (a \div Paisa)
UpToPaisa(a)   == DownToPaisa(a + Paisa - 1)

(* Whole rupees are exact in doubles; a fraction may come out a hair off. *)
Hair(a) == IF a % Rupee = 0 THEN 0 ELSE 1

(* Mutant of CeilTillTwoDecimalPlaces: amounts below zero are kept. *)
CeilOfAnyAmount(a) == UpToPaisa(a)

(* PaymentUIUtil.ceilTillTwoDecimalPlaces: nothing is owed below zero. *)
CeilTillTwoDecimalPlaces(a) == IF a <= 0 THEN 0 ELSE UpToPaisa(a)

(* Mutant of FloorTillTwoDecimalPlaces: down to whole rupees. *)
FloorToRupees(a) == {Rupee * (a \div Rupee)}

(* PaymentUIUtil.floorTillTwoDecimalPlaces: anything under one rupee is    *)
(* taken for nothing, and a fraction may lose the paisa it sits on.        *)
FloorTillTwoDecimalPlaces(a) ==
  IF 0 < a /\ a < Rupee THEN {0} ELSE {DownToPaisa(a), DownToPaisa(a - Hair(a))}

(* DecimalFormat with no fraction digits: half-even rounding to rupees. *)
RoundToRupees(a) ==
  LET whole == a \div Rupee
      rest  == a % Rupee
      up    == \/ 2 * rest > Rupee
               \/ 2 * rest = Rupee /\ whole % 2 = 1
  IN  Rupee * (IF up THEN whole + 1 ELSE whole)

(* PaymentUIUtil.areAmountEqual *)
AreAmountEqual(a, b) == a = b

(* A sum of credits in doubles: exact when it has one term or whole rupees.*)
SumOfCredits(wallet, voucher, ixigo) ==
  LET sum == wallet + voucher + ixigo
  IN  IF sum \in {wallet, voucher, ixigo} \/ {Hair(wallet), Hair(voucher), Hair(ixigo)} = {0}
      THEN {sum}
      ELSE {sum - 1, sum, sum + 1}

(* PaymentUIUtil.validForFullRemeption, applied to a sum of credits: the   *)
(* verdicts possible.                                                      *)
ValidForFullRedemption(wallet, voucher, ixigo, chargeable) ==
  {paid \in BOOLEAN : \E redeemed \in SumOfCredits(wallet, voucher, ixigo),
                         floor    \in FloorTillTwoDecimalPlaces(chargeable) :
                        paid <=> redeemed >= floor}

(* RequestResponseEnhancementHelper.getAmountToCollectFromPG: the total    *)
(* less the credits, exact or a hair high, rounded up.                     *)
AmountToCollectFromPG(total, wallet, voucher, ixigo) ==
  LET rest == total - wallet - voucher - ixigo
      high == IF {Hair(total), Hair(wallet), Hair(voucher), Hair(ixigo)} = {0} THEN 0 ELSE 1
  IN  {CeilTillTwoDecimalPlaces(rest), CeilTillTwoDecimalPlaces(rest + high)}
==============================================================================
