----------------------------- MODULE Redemptions -----------------------------
(***************************************************************************)
(* What the desktop payment page redeems against a booking before Pay Now: *)
(* gift vouchers (GV of centralui.js) and eCash (ewalletui.js), and the    *)
(* cart they are shown in (ShoppingCart of payment-commons.js).            *)
(*                                                                         *)
(* A voucher is added by a check-balance call that names all the vouchers  *)
(* of the page and is answered with what each of them gives.  eCash is     *)
(* redeemed by a hold at the wallet and given back by a reversal.  All the *)
(* calls are asynchronous (as they are unless GST is on), and the user goes*)
(* on using the page while they are out.                                   *)
(*                                                                         *)
(* The voucher service and the wallet are outside the repository: the first*)
(* spreads the amount over the vouchers in their order, the second gives   *)
(* back a hold once.                                                       *)
(*                                                                         *)
(* Amounts are whole, as the cart rounds them for every product but trains *)
(* (roundOffCart).                                                         *)
(***************************************************************************)
EXTENDS Integers, Sequences, SequencesExt

CONSTANTS
  Codes,        \* the vouchers the user has
  Face,         \* what each of them is worth
  Balance,      \* the redeemable eCash of the user
  Base,         \* the booking without the convenience fee
  Options,      \* payment options
  Fee,          \* the fixed convenience fee of each
  Percent,      \* the percentage fee of each, of what is left to pay
  FeeTax,       \* the tax on that fee, in percent of it
  MaxVouchers,  \* GV.config.maxGV
  MaxNodes,     \* bound on the vouchers a balance call names
  MaxChecks,    \* bound on the balance calls that are out
  MaxHolds,     \* bound on the holds asked for
  MaxReversals  \* bound on the reversals of a hold that are out

ASSUME RedemptionsAssumption ==
  /\ Face \in [Codes -> Nat] /\ "upi" \in Options
  /\ Fee \in [Options -> Nat] /\ Percent \in [Options -> Nat] /\ FeeTax \in Nat
  /\ Balance \in Nat /\ Base \in Nat
  /\ MaxVouchers \in Nat /\ MaxNodes \in Nat /\ MaxChecks \in Nat /\ MaxHolds \in Nat
  /\ MaxReversals \in Nat

Slots  == 1..MaxChecks
Holds  == 1..MaxHolds
NoHold == 0

(* redeemAuthJSON: null, what a failed call leaves there, or a hold.       *)
NoAuth     == [kind |-> "none",  hold |-> NoHold, amount |-> 0]
FailedAuth == [kind |-> "error", hold |-> NoHold, amount |-> 0]
Held(h, n) == [kind |-> "hold",  hold |-> h, amount |-> n]

NoCheck == [open |-> FALSE, vouchers |-> <<>>, amount |-> 0]

VARIABLES
  ecashGV,      \* the booking takes vouchers bought with eCash (isOnlyEcashGV)
  option,       \* the payment option whose fee is in the cart
  gv,           \* GV.gv: the vouchers shown, each with what it gives
  nodes,        \* GV.voucherNodes: the vouchers as the service last sent them
  checks,       \* the check-balance calls that are out
  cash,         \* Ewallet.ecashRedeemedAmount, which the page also shows
  taken,        \* what the cart takes off for it
  auth,         \* redeemAuthJSON
  redeemShown,  \* the redeem block is shown (else what was redeemed)
  redeemOn,     \* its button is enabled
  cancelOn,     \* the cancel link is active
  auths,        \* hold -> amount of the auth call that is out, or 0
  revs,         \* hold -> reversals of it that are out
  holds,        \* hold -> amount the wallet holds, or 0
  used,         \* holds asked for so far
  overlapped,   \* the page was used while a priced call was out (history)
  shifted,      \* the amount left for vouchers changed under them (history)
  shortened,    \* a fee went that had been redeemed for (history)
  lost          \* an answer of the wallet was lost (history)

vouchers == <<gv, nodes, checks>>
wallet   == <<auths, revs, holds, used>>
ecash    == <<cash, taken, auth, redeemShown, redeemOn, cancelOn>>
history  == <<overlapped, shifted, shortened, lost>>
vars     == <<ecashGV, option, vouchers, ecash, wallet, history>>

Voucher == [code : Codes, amount : Nat]

(* The type invariant. *)
TypeOK ==
  /\ ecashGV \in BOOLEAN /\ option \in Options
  /\ gv \in Seq(Voucher) /\ nodes \in Seq(Voucher)
  /\ checks \in [Slots -> [open : BOOLEAN, vouchers : Seq(Codes), amount : Nat]]
  /\ cash \in Nat /\ taken \in Nat
  /\ auth \in [kind : {"none", "error", "hold"}, hold : Holds \cup {NoHold}, amount : Nat]
  /\ redeemShown \in BOOLEAN /\ redeemOn \in BOOLEAN /\ cancelOn \in BOOLEAN
  /\ auths \in [Holds -> Nat] /\ holds \in [Holds -> Nat]
  /\ revs \in [Holds -> 0..MaxReversals] /\ used \in 0..MaxHolds
  /\ overlapped \in BOOLEAN /\ shifted \in BOOLEAN /\ shortened \in BOOLEAN /\ lost \in BOOLEAN

Init ==
  /\ ecashGV \in BOOLEAN /\ option \in Options
  /\ gv = <<>> /\ nodes = <<>> /\ checks = [s \in Slots |-> NoCheck]
  /\ cash = 0 /\ taken = 0 /\ auth = NoAuth
  /\ redeemShown = TRUE /\ redeemOn = TRUE /\ cancelOn = TRUE
  /\ auths = [h \in Holds |-> 0] /\ holds = [h \in Holds |-> 0]
  /\ revs = [h \in Holds |-> 0] /\ used = 0
  /\ overlapped = FALSE /\ shifted = FALSE /\ shortened = FALSE /\ lost = FALSE

CodesOf(vs) == [i \in DOMAIN vs |-> vs[i].code]

(* The sums of the first 0, 1, 2, ... of some numbers. *)
Sums(ns) ==
  LET sum[i \in 0..Len(ns)] == IF i = 0 THEN 0 ELSE sum[i - 1] + ns[i]
  IN  sum

(* GV.totalGVAmount, and the sum over any list of vouchers. *)
Worth(vs) == Sums([i \in DOMAIN vs |-> vs[i].amount])[Len(vs)]

(* A percentage of an amount, rounded (Math.round). *)
Share(n, percent) == (n * percent + 50) \div 100

(* ShoppingCart.handleConvFeesPercentage: the percentage fee of an option  *)
(* on what is left to pay, with the tax on it.                             *)
PercentFee(o, left) ==
  LET fee == Share(left, Percent[o])
  IN  fee + Share(fee, FeeTax)

(* The cart without the percentage fee, were the option o. *)
Rest(o) == Base + Fee[o] - taken - Worth(gv)

(* Mutant of Left: it may fall under zero. *)
UnclampedLeft(o) == Rest(o)

(* ShoppingCart.getTotalCartAmount: never under zero. *)
Left(o) == IF Rest(o) < 0 THEN 0 ELSE Rest(o)

(* totalPayableAmount: at every update of the cart the percentage fee is   *)
(* computed anew, on what is left.                                         *)
PayableBy(o) == Left(o) + PercentFee(o, Left(o))
Payable      == PayableBy(option)

(* The booking with the fees that are in the cart. *)
Total == Base + Fee[option] + PercentFee(option, Left(option))

(* Redeeming this much leaves nothing, so that the percentage fee the      *)
(* amount was asked for with is gone.                                      *)
FeeGone(amount) == amount > Left(option) /\ PercentFee(option, Left(option)) > 0

(* A call is out whose answer was asked for the amount to pay of then.     *)
PricedCallOut ==
  \/ \E s \in Slots : checks[s].open
  \/ \E h \in Holds : auths[h] > 0

Overlap == overlapped' = (overlapped \/ PricedCallOut)

(* The amount left for vouchers changes. *)
Shift == shifted' = (shifted \/ gv # <<>> \/ \E s \in Slots : checks[s].open)

(* The voucher service: every voucher of the list gives what it is worth,  *)
(* as long as the amount lasts.                                            *)
Spread(codes, amount) ==
  [i \in DOMAIN codes |->
     LET before == Sums([j \in DOMAIN codes |-> Face[codes[j]]])[i - 1]
         left   == IF amount > before THEN amount - before ELSE 0
     IN  [code |-> codes[i], amount |-> IF left < Face[codes[i]] THEN left ELSE Face[codes[i]]]]

(* GV.alreadyAdded: the first place in gv that holds c, or 0. *)
PlaceOf(c) == SelectInSeq(gv, LAMBDA v : v.code = c)

(* addGV and requestBuilder: all the vouchers of the page and the new one, *)
(* for the amount that eCash leaves.                                       *)
AddVoucher(c, s) ==
  /\ ~checks[s].open /\ \A r \in Slots : r < s => checks[r].open
  /\ Payable # 0
  /\ Len(gv) + 1 <= MaxVouchers /\ Len(nodes) + 1 <= MaxNodes
  /\ PlaceOf(c) = 0
  /\ Overlap
  /\ checks' = [checks EXCEPT ![s] = [open     |-> TRUE,
                                      vouchers |-> Append(CodesOf(nodes), c),
                                      amount   |-> Payable + Worth(gv)]]
  /\ UNCHANGED <<ecashGV, option, gv, nodes, ecash, wallet, shifted, shortened, lost>>

(* Mutant of CheckAnswered: the first voucher of the answer is shown. *)
FirstCheckAnswered(s, ok) ==
  LET call   == checks[s]
      answer == Spread(call.vouchers, call.amount)
  IN  /\ call.open
      /\ checks' = [checks EXCEPT ![s] = NoCheck]
      /\ IF ok /\ 1 \in DOMAIN answer
           THEN /\ gv' = Append(gv, [code   |-> call.vouchers[Len(call.vouchers)],
                                     amount |-> answer[1].amount])
                /\ nodes' = answer
                /\ shortened' = (shortened \/ FeeGone(answer[1].amount))
           ELSE UNCHANGED <<gv, nodes, shortened>>
      /\ UNCHANGED <<ecashGV, option, ecash, wallet, overlapped, shifted, lost>>

(* The balances come.  The new voucher's is looked for behind as many as   *)
(* there are nodes now (not when the call was made); when there is none the*)
(* callback fails before it changes anything.  A refusal or a failed call  *)
(* shows a message.                                                        *)
CheckAnswered(s, ok) ==
  LET call   == checks[s]
      answer == Spread(call.vouchers, call.amount)
      at     == Len(nodes) + 1
  IN  /\ call.open
      /\ checks' = [checks EXCEPT ![s] = NoCheck]
      /\ IF ok /\ at \in DOMAIN answer
           THEN /\ gv' = Append(gv, [code   |-> call.vouchers[Len(call.vouchers)],
                                     amount |-> answer[at].amount])
                /\ nodes' = answer
                /\ shortened' = (shortened \/ FeeGone(answer[at].amount))
           ELSE UNCHANGED <<gv, nodes, shortened>>
      /\ UNCHANGED <<ecashGV, option, ecash, wallet, overlapped, shifted, lost>>

(* Mutant of DeleteVoucher: only the list that is shown is cut. *)
ShownDeleteVoucher(c) ==
  /\ PlaceOf(c) # 0
  /\ Overlap
  /\ gv' = RemoveAt(gv, PlaceOf(c))
  /\ shifted' = (shifted \/ Len(gv) > 1)
  /\ UNCHANGED <<ecashGV, nodes, option, checks, ecash, wallet, shortened, lost>>

(* deleteGV cuts both lists at the same place.  No call is made, so what   *)
(* the others give stays until the next voucher is added.                  *)
DeleteVoucher(c) ==
  LET i == PlaceOf(c)
  IN  /\ i # 0
      /\ Overlap
      /\ gv' = RemoveAt(gv, i)
      /\ nodes' = IF i \in DOMAIN nodes THEN RemoveAt(nodes, i) ELSE nodes
      /\ shifted' = (shifted \/ Len(gv) > 1)
      /\ UNCHANGED <<ecashGV, option, checks, ecash, wallet, shortened, lost>>

(* The amount the option o leaves for vouchers may differ, and be less than*)
(* what is redeemed already.                                               *)
Repriced(o) ==
  /\ IF Fee[o] # Fee[option] \/ Percent[o] # Percent[option] THEN Shift ELSE UNCHANGED shifted
  /\ shortened' = (shortened \/ (o # option /\ Rest(o) < 0))

(* The option the redeem button leaves chosen. *)
OptionToRedeem(slid) ==
  IF (\E o \in Options : Percent[o] > 0) /\ slid >= Left(option) THEN "upi" ELSE option

(* Mutant of Redeem: whatever the balance allows. *)
UncheckedRedeem(slid, n) ==
  LET o == OptionToRedeem(slid)
  IN  /\ redeemShown /\ redeemOn
      /\ ecashGV \/ o # option \/ n = slid
      /\ used < MaxHolds /\ used' = used + 1
      /\ Overlap
      /\ option' = o /\ Repriced(o)
      /\ auths' = [auths EXCEPT ![used + 1] = n]
      /\ redeemOn' = FALSE
      /\ UNCHANGED <<ecashGV, vouchers, cash, taken, auth, redeemShown, cancelOn, revs, holds, lost>>

(* The redeem button, with the slider at slid: UPI is chosen first, and the*)
(* slider set anew, if that would pay for all but a percentage fee.  Then  *)
(* at most what is left to pay is redeemed, or for a booking of eCash      *)
(* vouchers whatever its two fields say.                                   *)
Redeem(slid, n) ==
  LET o == OptionToRedeem(slid)
  IN  /\ redeemShown /\ redeemOn
      /\ ecashGV \/ o # option \/ n = slid
      /\ ecashGV \/ n <= PayableBy(o) + cash
      /\ used < MaxHolds /\ used' = used + 1
      /\ Overlap
      /\ option' = o /\ Repriced(o)
      /\ auths' = [auths EXCEPT ![used + 1] = n]
      /\ redeemOn' = FALSE
      /\ UNCHANGED <<ecashGV, vouchers, cash, taken, auth, redeemShown, cancelOn, revs, holds, lost>>

(* redeemAuth's callbacks and setRedeemUI.  The cart takes off what is     *)
(* held, or for a booking of eCash vouchers what one of the fields says    *)
(* now.  A refusal, an error and the timeout of five seconds (when the hold*)
(* may exist) leave an error in redeemAuthJSON.                            *)
AuthAnswered(h, result) ==
  /\ auths[h] > 0
  /\ auths' = [auths EXCEPT ![h] = 0]
  /\ holds' = [holds EXCEPT ![h] = IF result \in {"held", "lost"} THEN auths[h] ELSE 0]
  /\ redeemOn' = TRUE
  /\ IF result = "held"
       THEN /\ auth' = Held(h, auths[h]) /\ cash' = auths[h] /\ redeemShown' = FALSE
            /\ taken' \in IF ecashGV THEN 0..Balance ELSE {auths[h]}
            /\ shortened' = (shortened \/ FeeGone(auths[h]))
            /\ Shift
       ELSE auth' = FailedAuth /\ UNCHANGED <<cash, taken, redeemShown, shifted, shortened>>
  /\ lost' = (lost \/ result = "lost")
  /\ UNCHANGED <<ecashGV, option, vouchers, cancelOn, revs, used, overlapped>>

(* reverseAuth asks for the hold redeemAuthJSON names. *)
ReverseAuth ==
  /\ auth # NoAuth
  /\ revs[auth.hold] < MaxReversals
  /\ cancelOn' = FALSE
  /\ revs' = [revs EXCEPT ![auth.hold] = @ + 1]

(* The cancel link. *)
Cancel ==
  /\ ~redeemShown /\ cancelOn
  /\ ReverseAuth
  /\ UNCHANGED <<ecashGV, option, vouchers, cash, taken, auth, redeemShown, redeemOn, auths, holds, used,
                 history>>

(* Mutant of ReverseAnswered: any answer is taken for a success. *)
TrustedReverseAnswered(h, result) ==
  /\ revs[h] > 0
  /\ result = "back" => holds[h] > 0
  /\ revs' = [revs EXCEPT ![h] = @ - 1]
  /\ holds' = IF result \in {"back", "lost"} THEN [holds EXCEPT ![h] = 0] ELSE holds
  /\ cancelOn' = TRUE
  /\ cash' = 0 /\ taken' = 0 /\ auth' = NoAuth /\ redeemShown' = TRUE
  /\ Shift
  /\ lost' = (lost \/ result = "lost")
  /\ UNCHANGED <<ecashGV, option, vouchers, redeemOn, auths, used, overlapped, shortened>>

(* Mutant of ReverseAnswered: the cart keeps the eCash. *)
CashKeptReverseAnswered(h, result) ==
  /\ revs[h] > 0
  /\ result = "back" => holds[h] > 0
  /\ revs' = [revs EXCEPT ![h] = @ - 1]
  /\ holds' = IF result \in {"back", "lost"} THEN [holds EXCEPT ![h] = 0] ELSE holds
  /\ cancelOn' = TRUE
  /\ IF result = "back"
       THEN auth' = NoAuth /\ redeemShown' = TRUE /\ Shift
       ELSE UNCHANGED <<auth, redeemShown, shifted>>
  /\ lost' = (lost \/ result = "lost")
  /\ UNCHANGED <<ecashGV, option, vouchers, cash, taken, redeemOn, auths, used, overlapped, shortened>>

(* reverseAuth's callbacks and setReverseAuthUI.  The wallet gives a hold  *)
(* back once; only the answer that says so clears the page's eCash.        *)
ReverseAnswered(h, result) ==
  /\ revs[h] > 0
  /\ result = "back" => holds[h] > 0
  /\ revs' = [revs EXCEPT ![h] = @ - 1]
  /\ holds' = IF result \in {"back", "lost"} THEN [holds EXCEPT ![h] = 0] ELSE holds
  /\ cancelOn' = TRUE
  /\ IF result = "back"
       THEN /\ cash' = 0 /\ taken' = 0 /\ auth' = NoAuth /\ redeemShown' = TRUE
            /\ Shift
       ELSE UNCHANGED <<cash, taken, auth, redeemShown, shifted>>
  /\ lost' = (lost \/ result = "lost")
  /\ UNCHANGED <<ecashGV, option, vouchers, redeemOn, auths, used, overlapped, shortened>>

(* processPayOp: when the fixed fee falls by more than what is left to pay,*)
(* eCash is given back (the page does not wait for it); vouchers stay.     *)
ChangeOption(o) ==
  LET fall == Fee[option] - Fee[o]
  IN  /\ o # option
      /\ Overlap
      /\ IF fall > Payable /\ fall > 0 /\ cash > 0
           THEN ReverseAuth
           ELSE UNCHANGED <<cancelOn, revs>>
      /\ option' = o /\ Repriced(o)
      /\ UNCHANGED <<ecashGV, vouchers, cash, taken, auth, redeemShown, redeemOn, auths, holds,
                     used, lost>>

Next ==
  \/ \E c \in Codes, s \in Slots : AddVoucher(c, s)
  \/ \E s \in Slots, ok \in BOOLEAN : CheckAnswered(s, ok)
  \/ \E c \in Codes : DeleteVoucher(c)
  \/ \E slid, n \in 1..Balance : Redeem(slid, n)
  \/ \E h \in Holds, result \in {"held", "lost", "refused"} : AuthAnswered(h, result)
  \/ Cancel
  \/ \E h \in Holds, result \in {"back", "lost", "refused"} : ReverseAnswered(h, result)
  \/ \E o \in Options : ChangeOption(o)

Spec == Init /\ [][Next]_vars
------------------------------------------------------------------------------
(* wallet_id and wallet_amount of the form: the hold redeemAuthJSON names, *)
(* when eCash is shown as redeemed.                                        *)
WalletPart ==
  IF cash > 0 THEN [id |-> auth.hold, amount |-> auth.amount] ELSE [id |-> NoHold, amount |-> 0]

(* What createPayNowForm would post now: the wallet's part, the vouchers as*)
(* the service sent them, and the sums the page shows.  The amountToRedeem *)
(* of a booking of eCash vouchers without a hold is left out.              *)
Form ==
  [walletId      |-> WalletPart.id,
   walletAmount  |-> WalletPart.amount,
   vouchers      |-> nodes,
   voucherAmount |-> Worth(gv),
   amount        |-> Payable]

(* Properties. *)

(* The vouchers the page posts are those it shows, in the same order, and  *)
(* for what it shows as long as the amount left for vouchers has not       *)
(* changed under them, unless calls overlapped.                            *)
VouchersSentAreShown ==
  ~overlapped =>
    /\ CodesOf(Form.vouchers) = CodesOf(gv)
    /\ shifted \/ Form.vouchers = gv

(* A voucher is credited with no more than it is worth, unless calls       *)
(* overlapped (the answer is read at a place that has moved).              *)
CreditedByItself ==
  overlapped \/ \A i \in DOMAIN gv : gv[i].amount <= Face[gv[i].code]

(* The booking with all the fees of an option, when nothing is redeemed. *)
FullPrice(o) == Base + Fee[o] + PercentFee(o, Base + Fee[o])

(* What the form names adds up to the booking with its fees, unless calls  *)
(* overlapped or a fee went that had been redeemed for; and even then no   *)
(* more is redeemed than the booking costs with some option.  Bookings of  *)
(* eCash vouchers are left out: what they hold and what they take off is   *)
(* compared with nothing.                                                  *)
FormAddsUp ==
  overlapped \/ ecashGV \/
    LET redeemed == Form.walletAmount + Form.voucherAmount
    IN  /\ shortened \/ Form.amount + redeemed = Total
        /\ \E o \in Options : redeemed <= FullPrice(o)

(* The eCash the page shows and posts is a hold of that amount at the      *)
(* wallet, unless an answer of the wallet was lost or the page has asked   *)
(* for its reversal already (and shows and would post it all the same).    *)
CashIsHeld ==
  cash > 0 /\ ~lost =>
    \E h \in Holds : Form.walletId = h /\ Form.walletAmount = cash
                  /\ (revs[h] = 0 => holds[h] = cash)

(* The page forgets a hold at the wallet only when an answer was lost.     *)
NoForgottenHold ==
  ~lost => \A h \in Holds : holds[h] > 0 => auth.hold = h

(* The order of the two lists is the same (centralui.js:5272 "As we are    *)
(* maintaining the consistency in order of GV.gv and GV.vouchernode, same  *)
(* order of GV in both").                                                  *)
SameOrder == CodesOf(gv) = CodesOf(nodes)
==============================================================================
