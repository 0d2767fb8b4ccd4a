------------------------------ MODULE MCPayNow ------------------------------
(* Instances of PayNow for TLC. *)
EXTENDS PayNowCheckout

Form(option) ==
  [paymentOption |-> option, walletId |-> NoHold, walletAmount |-> NoAmount, toRedeem |-> 0,
   voucherAmount |-> 0, ixigoMoney |-> 0, noCostEmi |-> FALSE, initPayment |-> FALSE,
   walletInfo |-> NoAmount, voucherRedeemed |-> 0]

(* Rs 50 and Rs 50.50; Rs 0.50 is a total under a rupee. *)
R50  == 50 * Rupee
R505 == 50 * Rupee + 50 * Paisa
Half == 50 * Paisa

(* Every payment option, with and without a hold, vouchers, ixigo money    *)
(* and no-cost EMI, as a form for the browser and one for the app.         *)
OneForms(hold) ==
  {[Form(o) EXCEPT !.walletId = w[1], !.walletAmount = w[2], !.toRedeem = w[3],
                   !.voucherAmount = v, !.ixigoMoney = i, !.noCostEmi = n, !.initPayment = p] :
     o \in PaymentOptions,
     w \in {<<NoHold, NoAmount, 0>>, <<hold, R50, 0>>, <<hold, R505, 0>>,
            <<hold, NoAmount, 0>>, <<NoHold, NoAmount, R50>>},
     v \in {0, R50}, i \in {0, R50}, n \in BOOLEAN, p \in BOOLEAN}

OneRequestForms == OneForms(CHOOSE h \in Holds : TRUE)
OneWalletAmounts == {R50, R505}
OneVoucherAmounts == {R50}
OneTotals == {Half, R50, R505, 2 * R50}

(* Two requests: a wallet payment in full, a hold whose rest goes to the   *)
(* portal, and an agent's indifi payment that takes a hold of its own.     *)
TwoRequestForms ==
  LET hold == CHOOSE h \in Holds : TRUE
  IN  {[Form("ew") EXCEPT !.walletId = hold, !.walletAmount = R50],
       [Form("upi") EXCEPT !.walletId = hold, !.walletAmount = R50],
       [Form("indifi") EXCEPT !.toRedeem = R50]}
TwoTotals == {R50}

(* For liveness: every payment option, with hold, voucher and ixigo money, *)
(* in the app.                                                             *)
LiveForms ==
  {[Form(o) EXCEPT !.walletId = CHOOSE h \in Holds : TRUE, !.walletAmount = R50,
                   !.voucherAmount = R50, !.ixigoMoney = i, !.initPayment = TRUE] :
     o \in PaymentOptions, i \in {0, R50}}
LiveTotals == {R50, 2 * R50}
==============================================================================
