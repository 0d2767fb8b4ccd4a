---------------------------- MODULE MCRedemptions ----------------------------
(* An instance of Redemptions for TLC: cards have a fixed fee of 1 and one *)
(* of half of what is left, UPI none.  One voucher is worth the booking    *)
(* with the fixed fee and half of the other fee, one as much as the fixed  *)
(* fee.                                                                    *)
EXTENDS Redemptions

CONSTANTS g1, g2

TwoFaces == g1 :> 3 @@ g2 :> 1
Fees     == "cc" :> 1 @@ "upi" :> 0
Percents == "cc" :> 50 @@ "upi" :> 0
==============================================================================
