------------------------------- MODULE PayNow -------------------------------
(***************************************************************************)
(* The pay-now pipeline of PaySwift (PayNowController.payNow): the chain   *)
(* of processors that turns one submitted payment form into one answer to  *)
(* the browser, and the calls it makes on the way to the services that     *)
(* hold money.  RequestResponseEnhancer runs the gates and then the nested *)
(* processors                                                              *)
(*                                                                         *)
(*   save card > wallet auth > wallet handshake > ixigo money >            *)
(*     no-cost EMI > gift voucher > client amount verifier                 *)
(*                                                                         *)
(* each of which does part of its work before calling the next and part    *)
(* after it returned.  pc[r] is the place of request r in that nest; one   *)
(* action is the work between two calls to the outside.  Requests run in   *)
(* threads of their own and meet only in the services outside, which know  *)
(* a wallet hold by its id whoever names it, and in the mutable FailureCode*)
(* constants.                                                              *)
(*                                                                         *)
(* The outside is modelled by what the code can observe of it: a call is   *)
(* refused, or applied and acknowledged, or applied and its reply lost or  *)
(* unusable (the read timeouts and the unchecked JSON of the clients).     *)
(***************************************************************************)
EXTENDS Amounts, FiniteSets, Sequences

CONSTANTS
  Requests,       \* the requests in flight
  Holds,          \* the ids of eCash holds at the wallet service
  NoHold,         \* no wallet_id in the request
  Forms,          \* the forms a browser may submit
  WalletAmounts,  \* amounts the wallet service may put on hold
  VoucherAmounts, \* amounts the voucher service may block
  Totals          \* amountToCollect in the validation response

NoAmount == -1    \* a wallet_amount that is absent

(* Payment options by what the pipeline does with them: "card" stands for  *)
(* cc, dc and qb, "upi" for upi and tez, "emi" for the EMI cards.          *)
PaymentOptions == {"card", "upi", "twid", "emi", "indifi", "ew", "ixigoMoney", "gv"}

(* The fields of PayNowRequest that steer the pipeline.  toRedeem is the   *)
(* eCash to be held (amountToRedeem, or the booking's maximum for the eCash*)
(* gift product), 0 if absent; voucherAmount and ixigoMoney are 0 for none.*)
(* walletInfo is the amount of the verified hold, NoAmount before that;    *)
(* voucherRedeemed the amount of the blocked vouchers.                     *)
RequestType ==
  [paymentOption   : PaymentOptions,
   walletId        : Holds \cup {NoHold},
   walletAmount    : Amount \cup {NoAmount},
   toRedeem        : Amount,
   voucherAmount   : Amount,
   ixigoMoney      : Amount,
   noCostEmi       : BOOLEAN,
   initPayment     : BOOLEAN,
   walletInfo      : Amount \cup {NoAmount},
   voucherRedeemed : Amount]

ASSUME PayNowAssumption ==
  /\ NoHold \notin Holds
  /\ Forms \subseteq {f \in RequestType : f.walletInfo = NoAmount /\ f.voucherRedeemed = 0}
  /\ WalletAmounts \subseteq Amount /\ VoucherAmounts \subseteq Amount
  /\ Totals \subseteq Amount

VARIABLES
  pc,          \* where each request is
  req,         \* its PayNowRequest
  valid,       \* its LobValidationResponse
  resp,        \* its PayNowResponse
  holds,       \* the wallet service's holds
  voucher,     \* the vouchers of each request at the voucher service
  settled,     \* the instruments through which a request collected the money
  s2s,         \* the confirmations each request sent to the LOB
  unblock,     \* its voucher unblocking thread
  portal,      \* whether the portal was made to initiate its payment
  faults,      \* what the request met that the code has no answer for (history)
  profileCode  \* the code of FailureCode.B2B_USER_PROFILE_SERVICE_EXCEPTION

outside == <<holds, voucher, settled, s2s, unblock, portal>>
bean    == <<req, valid>>
history == <<faults, profileCode>>
vars    == <<pc, bean, resp, outside, history>>

(* ResponseDecisionScenarios.  REFUSED stands for the constants that only  *)
(* make prepareResponse answer with an error message, VALIDATION_FAILURE   *)
(* for the LOB's refusal with or without redirect.                         *)
Decisions ==
  {"none", "REFUSED", "VALIDATION_FAILURE", "SUCESS_REDIRECT_TO_PORTAL",
   "COMPLETE_WALLET_SUCCESS", "COMPLETE_VOUCHER_SUCCESS", "COMPLETE_IXIGO_PAYMENT_SUCCESS",
   "COMPLETE_GV_PAYMENT_FAILURE", "COMPLETE_IXIGO_PAYMENT_FAILURE"}

CompleteSuccess ==
  {"COMPLETE_WALLET_SUCCESS", "COMPLETE_VOUCHER_SUCCESS", "COMPLETE_IXIGO_PAYMENT_SUCCESS"}

Instruments == {"ew", "gv", "ixigoMoney"}

(* rurl is where the browser is sent; amount the amount put into the map   *)
(* for the portal, NoAmount while that map has not been prepared.          *)
ResponseType ==
  [success : BOOLEAN, decision : Decisions, rurl : {"none", "lob", "portal"},
   amount : Amount \cup {NoAmount}, agentCode : BOOLEAN]

NewResponse ==
  [success |-> FALSE, decision |-> "none", rurl |-> "none",
   amount |-> NoAmount, agentCode |-> FALSE]

ValidationType == [got : BOOLEAN, total : Amount, s2s : BOOLEAN, s2sOnFailure : BOOLEAN]

NoValidation == [got |-> FALSE, total |-> 0, s2s |-> FALSE, s2sOnFailure |-> FALSE]

Faults == {"lostReply", "unparsable", "logRejected", "portalReply"}

Locations ==
  {"received", "details", "saveCard", "walletAuth", "walletInfo", "reAuth", "reInfo",
   "reverseHandshake", "noCostEmi", "voucher", "validate", "fullVoucher", "audit",
   "fullIxigo", "fullWallet", "reverseCapture", "notifyFailure", "postCheck",
   "prepare", "notifySuccess", "log", "dispatch", "initPayment", "logResult", "done"}

(* The type invariant. *)
TypeOK ==
  /\ pc \in [Requests -> Locations]
  /\ req \in [Requests -> RequestType]
  /\ valid \in [Requests -> ValidationType]
  /\ resp \in [Requests -> ResponseType]
  /\ holds \in [Holds -> [state : {"free", "held", "captured", "released"}, amount : Amount]]
  /\ voucher \in [Requests -> {"none", "blocked", "redeemed", "released"}]
  /\ settled \in [Requests -> SUBSET Instruments]
  /\ s2s \in [Requests -> Seq(BOOLEAN)]
  /\ unblock \in [Requests -> {"idle", "running", "done"}]
  /\ portal \in [Requests -> {"none", "initiated"}]
  /\ faults \in [Requests -> SUBSET Faults]
  /\ profileCode \in {"clean", "customised"}

(* A hold the browser already obtained is in place, for some amount. *)
Init ==
  /\ pc = [r \in Requests |-> "received"]
  /\ req \in [Requests -> Forms]
  /\ valid = [r \in Requests |-> NoValidation]
  /\ resp = [r \in Requests |-> NewResponse]
  /\ \E amount \in [Holds -> WalletAmounts] :
       holds = [h \in Holds |->
                  IF \E r \in Requests : req[r].walletId = h
                  THEN [state |-> "held", amount |-> amount[h]]
                  ELSE [state |-> "free", amount |-> 0]]
  /\ voucher = [r \in Requests |-> "none"]
  /\ settled = [r \in Requests |-> {}]
  /\ s2s = [r \in Requests |-> <<>>]
  /\ unblock = [r \in Requests |-> "idle"]
  /\ portal = [r \in Requests |-> "none"]
  /\ faults = [r \in Requests |-> {}]
  /\ profileCode = "clean"
------------------------------------------------------------------------------
(* Parts of steps. *)

Goto(r, l) == pc' = [pc EXCEPT ![r] = l]

Decide(r, d) == resp' = [resp EXCEPT ![r].decision = d]

Fault(r, f) == faults' = [faults EXCEPT ![r] = @ \cup {f}]

(* An exception that reaches LoggingProcessor.process: the answer becomes  *)
(* a failure, everything else set in it stays, the decision included.      *)
Throw(r) ==
  /\ Goto(r, "log")
  /\ resp' = [resp EXCEPT ![r].success = FALSE]

(* An exception that reaches PayNowController.payNow: the answer is made   *)
(* afresh and nothing more is done for the request.                        *)
Abandon(r) ==
  /\ Goto(r, "done")
  /\ resp' = [resp EXCEPT ![r] = NewResponse]

(* A processor refuses and returns to its callers. *)
Refuse(r, d, l) ==
  /\ Goto(r, l)
  /\ resp' = [resp EXCEPT ![r].success = FALSE, ![r].decision = d]

(* LoggingProcessor.process: the request is logged through a bounded pool, *)
(* whose rejection is caught like any exception of the chain.              *)
LogRequest(r) ==
  /\ pc[r] = "received"
  /\ \/ Goto(r, "details") /\ UNCHANGED resp
     \/ Throw(r)
  /\ UNCHANGED <<bean, outside, history>>

(* RequestResponseEnhancer.process up to the chain: booking details from   *)
(* the stages table or the LOB, then the gates (skip-OTP, booking.com,     *)
(* privy, corporate card, status of the details).                          *)
FetchBookingDetails(r) ==
  /\ pc[r] = "details"
  /\ \/ Goto(r, "saveCard") /\ UNCHANGED resp
     \/ Goto(r, "prepare") /\ Decide(r, "REFUSED")
     \/ Throw(r)
  /\ UNCHANGED <<bean, outside, history>>

(* GuestUserSaveCardProcessor, PassThroughHandler, B2BImportPNRFlowHandler *)
(* and TemporarilySaveCardWithCVVProcessor: only cards are saved.          *)
SaveCard(r) ==
  /\ pc[r] = "saveCard"
  /\ \/ Goto(r, "walletAuth") /\ UNCHANGED resp
     \/ /\ req[r].paymentOption = "card"
        /\ \/ Goto(r, "postCheck") /\ Decide(r, "REFUSED")
           \/ Throw(r)
  /\ UNCHANGED <<bean, outside, history>>
------------------------------------------------------------------------------
(* The eCash wallet: auth, handshake, reverse auth and capture. *)

(* The wallet service places a hold nobody named yet. *)
PlaceHold(h, a) ==
  /\ holds[h].state = "free"
  /\ \A r \in Requests : req[r].walletId # h
  /\ holds' = [holds EXCEPT ![h] = [state |-> "held", amount |-> a]]

(* WalletHelper.doWalletAuth: a granted hold replaces the wallet id and    *)
(* amount of the request; a reply without wallet id changes nothing, and   *)
(* without any wallet id the chain returns to its caller undecided.        *)
DoWalletAuth(r, next) ==
  \/ /\ \E h \in Holds, a \in WalletAmounts :
          /\ PlaceHold(h, a)
          /\ req' = [req EXCEPT ![r].walletId = h, ![r].walletAmount = RoundToRupees(a)]
     /\ Goto(r, next)
     /\ UNCHANGED <<resp, faults>>
  \/ /\ Goto(r, IF req[r].walletId = NoHold THEN "postCheck" ELSE next)
     /\ UNCHANGED <<resp, req, holds, faults>>
  \/ /\ \E h \in Holds, a \in WalletAmounts : PlaceHold(h, a)
     /\ Fault(r, "lostReply")
     /\ Throw(r)
     /\ UNCHANGED req
  \/ Throw(r) /\ UNCHANGED <<req, holds, faults>>

(* WalletAuthProcessor: auth only when at least a rupee is to be redeemed  *)
(* and the browser named no wallet amount.                                 *)
WalletAuth(r) ==
  /\ pc[r] = "walletAuth"
  /\ IF req[r].toRedeem >= Rupee /\ req[r].walletAmount = NoAmount
     THEN DoWalletAuth(r, "walletInfo")
     ELSE Goto(r, "walletInfo") /\ UNCHANGED <<resp, req, holds, faults>>
  /\ UNCHANGED <<valid, voucher, settled, s2s, unblock, portal, profileCode>>

(* Mutant of Handshake: the amount is not compared, and the one shown to   *)
(* the customer is trusted.                                                *)
HandshakeUnchecked(r) ==
  /\ holds[req[r].walletId].state = "held"
  /\ Goto(r, "noCostEmi")
  /\ req' = [req EXCEPT ![r].walletInfo = req[r].walletAmount]

(* WalletHandler: the hold becomes the request's walletInfo when its       *)
(* amount is the one named to the customer, and is reversed otherwise.     *)
(* The wallet service vouches only for a hold in place.                    *)
Handshake(r) ==
  LET hold == holds[req[r].walletId]
  IN  /\ hold.state = "held"
      /\ IF AreAmountEqual(hold.amount, req[r].walletAmount)
         THEN Goto(r, "noCostEmi") /\ req' = [req EXCEPT ![r].walletInfo = hold.amount]
         ELSE Goto(r, "reverseHandshake") /\ UNCHANGED req

(* WalletHandler, first getWalletInfo: a status other than true means a    *)
(* second auth.                                                            *)
GetWalletInfo(r) ==
  /\ pc[r] = "walletInfo"
  /\ \/ /\ req[r].walletId = NoHold
        /\ Goto(r, "noCostEmi") /\ UNCHANGED <<resp, req>>
     \/ /\ req[r].walletId # NoHold
        /\ \/ Handshake(r) /\ UNCHANGED resp
           \/ Goto(r, "reAuth") /\ UNCHANGED <<resp, req>>
           \/ Throw(r) /\ UNCHANGED req
  /\ UNCHANGED <<valid, outside, history>>

(* WalletHandler, the second auth, for the amount named to the customer:   *)
(* none at all throws, less than a rupee makes no call.  The first hold is *)
(* left where it is.                                                       *)
ReAuth(r) ==
  /\ pc[r] = "reAuth"
  /\ CASE req[r].walletAmount = NoAmount -> Throw(r) /\ UNCHANGED <<req, holds, faults>>
       [] req[r].walletAmount \in 0..(Rupee - 1) ->
            Goto(r, "reInfo") /\ UNCHANGED <<resp, req, holds, faults>>
       [] OTHER -> DoWalletAuth(r, "reInfo")
  /\ UNCHANGED <<valid, voucher, settled, s2s, unblock, portal, profileCode>>

(* Mutant of GetWalletInfoAgain: auth is repeated until the hold is in     *)
(* place.                                                                  *)
GetWalletInfoRetrying(r) ==
  /\ pc[r] = "reInfo"
  /\ \/ Handshake(r) /\ UNCHANGED resp
     \/ Goto(r, "reAuth") /\ UNCHANGED <<resp, req>>
  /\ UNCHANGED <<valid, outside, history>>

(* WalletHandler, second getWalletInfo: now a status other than true fails *)
(* the handshake.                                                          *)
GetWalletInfoAgain(r) ==
  /\ pc[r] = "reInfo"
  /\ \/ Handshake(r) /\ UNCHANGED resp
     \/ Goto(r, "reverseHandshake") /\ UNCHANGED <<resp, req>>
     \/ Throw(r) /\ UNCHANGED req
  /\ UNCHANGED <<valid, outside, history>>

(* WalletHandler.doWalletReverseAuth: the reply is ignored; only a hold in *)
(* place can be released.                                                  *)
ReverseAuth(r) ==
  \/ /\ holds[req[r].walletId].state = "held"
     /\ holds' = [holds EXCEPT ![req[r].walletId].state = "released"]
  \/ UNCHANGED holds

ReverseHandshake(r) ==
  /\ pc[r] = "reverseHandshake"
  /\ ReverseAuth(r)
  /\ Throw(r)
  /\ UNCHANGED <<bean, voucher, settled, s2s, unblock, portal, history>>
------------------------------------------------------------------------------
(* No-cost EMI parameters, gift vouchers and the LOB's validation. *)

(* NoCostEmiProcessor before its callee: the flag ends up telling whether  *)
(* the parameters could be fetched.                                        *)
FetchNoCostEmi(r) ==
  /\ pc[r] = "noCostEmi"
  /\ IF req[r].noCostEmi \/ req[r].paymentOption = "emi"
     THEN \/ /\ Goto(r, "voucher")
             /\ \E b \in BOOLEAN : req' = [req EXCEPT ![r].noCostEmi = b]
             /\ UNCHANGED resp
          \/ Throw(r) /\ UNCHANGED req
     ELSE Goto(r, "voucher") /\ UNCHANGED <<resp, req>>
  /\ UNCHANGED <<valid, outside, history>>

(* GiftVoucherProcessor before its callee: vouchers are checked locally,   *)
(* then validated by the voucher service, which blocks them.               *)
BlockVoucher(r) ==
  /\ pc[r] = "voucher"
  /\ \/ /\ req[r].voucherAmount = 0
        /\ Goto(r, "validate") /\ UNCHANGED <<resp, req, voucher, faults>>
     \/ /\ req[r].voucherAmount > 0
        /\ \/ /\ voucher' = [voucher EXCEPT ![r] = "blocked"]
              /\ \E a \in VoucherAmounts : req' = [req EXCEPT ![r].voucherRedeemed = a]
              /\ Goto(r, "validate") /\ UNCHANGED <<resp, faults>>
           \/ Refuse(r, "REFUSED", "audit") /\ UNCHANGED <<req, voucher, faults>>
           \/ /\ voucher' = [voucher EXCEPT ![r] = "blocked"]
              /\ Fault(r, "lostReply")
              /\ Throw(r) /\ UNCHANGED req
           \/ Throw(r) /\ UNCHANGED <<req, voucher, faults>>
  /\ UNCHANGED <<valid, holds, settled, s2s, unblock, portal, profileCode>>

(* ClientAmountVerifier over LobValidatePaymentService: the total to       *)
(* collect is the LOB's word; a no-cost EMI must lie within its window.    *)
Validate(r) ==
  /\ pc[r] = "validate"
  /\ \/ Throw(r) /\ UNCHANGED valid
     \/ \E t \in Totals, ok, fail \in BOOLEAN :
          /\ valid' = [valid EXCEPT ![r] =
                         [got |-> TRUE, total |-> t, s2s |-> ok, s2sOnFailure |-> fail]]
          /\ \/ Refuse(r, "VALIDATION_FAILURE", "audit")
             \/ /\ req[r].noCostEmi
                /\ Refuse(r, "REFUSED", "audit") \/ Throw(r)
             \/ /\ Goto(r, "fullVoucher")
                /\ resp' = [resp EXCEPT ![r].success = TRUE,
                                        ![r].decision = "SUCESS_REDIRECT_TO_PORTAL"]
  /\ UNCHANGED <<req, outside, history>>
------------------------------------------------------------------------------
(* Redemptions that pay for the booking in full, on the way back.          *)

WalletPart(r) == IF req[r].walletInfo = NoAmount THEN 0 ELSE req[r].walletInfo

(* checkFullVoucherPayment, checkFullIxigoMoneyPayment and                 *)
(* checkFullWalletPayment: the verdicts possible.                          *)
FullVoucherPayment(r) ==
  IF resp[r].success /\ req[r].paymentOption = "gv" /\ req[r].voucherRedeemed > 0
  THEN ValidForFullRedemption(WalletPart(r), req[r].voucherRedeemed, req[r].ixigoMoney,
                              valid[r].total)
  ELSE {FALSE}

(* Mutant of FullIxigoMoneyPayment: whatever the payment option. *)
FullIxigoMoneyPaymentAnyOption(r) ==
  IF resp[r].success /\ req[r].ixigoMoney > 0
  THEN ValidForFullRedemption(WalletPart(r), 0, req[r].ixigoMoney, valid[r].total)
  ELSE {FALSE}

FullIxigoMoneyPayment(r) ==
  IF resp[r].success /\ req[r].paymentOption = "ixigoMoney" /\ req[r].ixigoMoney > 0
  THEN ValidForFullRedemption(WalletPart(r), 0, req[r].ixigoMoney, valid[r].total)
  ELSE {FALSE}

FullWalletPayment(r) ==
  IF resp[r].success /\ req[r].paymentOption = "ew" /\ req[r].walletInfo # NoAmount
  THEN ValidForFullRedemption(req[r].walletInfo, 0, 0, valid[r].total)
  ELSE {FALSE}

Settle(r, i) == settled' = [settled EXCEPT ![r] = @ \cup {i}]

(* A redemption that was applied, but whose reply is lost or carries no    *)
(* merchant transaction id: the exception is thrown before or after the    *)
(* success is noted.                                                       *)
RedeemedUnnoticed(r, i, d) ==
  /\ Settle(r, i)
  /\ Fault(r, "lostReply")
  /\ Goto(r, "log")
  /\ \E noted \in {resp[r].decision, d} :
       resp' = [resp EXCEPT ![r].success = FALSE, ![r].decision = noted]

(* Mutant of StartUnblock: the vouchers are forgotten. *)
ForgetUnblock(r) == UNCHANGED unblock

(* GiftVoucherProcessor.unblockVoucher starts a thread. *)
StartUnblock(r) == unblock' = [unblock EXCEPT ![r] = "running"]

(* GiftVoucherProcessor after its callee; a refusal starts the thread that *)
(* unblocks the vouchers.                                                  *)
FullVoucher(r) ==
  /\ pc[r] = "fullVoucher"
  /\ \/ /\ FALSE \in FullVoucherPayment(r)
        /\ Goto(r, "audit") /\ UNCHANGED <<resp, voucher, settled, unblock, faults>>
     \/ /\ TRUE \in FullVoucherPayment(r)
        /\ \/ /\ voucher' = [voucher EXCEPT ![r] = "redeemed"]
              /\ \/ /\ Settle(r, "gv")
                    /\ Goto(r, "audit") /\ Decide(r, "COMPLETE_VOUCHER_SUCCESS")
                    /\ UNCHANGED faults
                 \/ RedeemedUnnoticed(r, "gv", "COMPLETE_VOUCHER_SUCCESS")
              /\ UNCHANGED unblock
           \/ /\ Goto(r, "notifyFailure")
              /\ StartUnblock(r)
              /\ UNCHANGED <<resp, voucher, settled, faults>>
           \/ Throw(r) /\ UNCHANGED <<voucher, settled, unblock, faults>>
  /\ UNCHANGED <<bean, holds, s2s, portal, profileCode>>

(* GiftVoucherProcessor.unblockVoucher, a thread whose errors are logged.  *)
Unblock(r) ==
  /\ unblock[r] = "running"
  /\ unblock' = [unblock EXCEPT ![r] = "done"]
  /\ \/ /\ voucher[r] = "blocked"
        /\ voucher' = [voucher EXCEPT ![r] = "released"]
     \/ UNCHANGED voucher
  /\ UNCHANGED <<pc, bean, resp, holds, settled, s2s, portal, history>>

(* Mutant of InsertNoCostEmiAudit: the decision is not looked at. *)
InsertNoCostEmiAuditAlways(r) ==
  /\ pc[r] = "audit"
  /\ \/ Goto(r, "fullIxigo") /\ UNCHANGED resp
     \/ req[r].noCostEmi /\ resp[r].success /\ Throw(r)
  /\ UNCHANGED <<bean, outside, history>>

(* NoCostEmiProcessor after its callee: a no-cost EMI that goes to the     *)
(* portal is entered in the audit table.                                   *)
InsertNoCostEmiAudit(r) ==
  /\ pc[r] = "audit"
  /\ \/ Goto(r, "fullIxigo") /\ UNCHANGED resp
     \/ /\ req[r].noCostEmi /\ resp[r].success
        /\ resp[r].decision = "SUCESS_REDIRECT_TO_PORTAL"
        /\ Throw(r)
  /\ UNCHANGED <<bean, outside, history>>

(* CompleteIxigoMoneyProcessor after its callee. *)
FullIxigoMoney(r) ==
  /\ pc[r] = "fullIxigo"
  /\ \/ /\ FALSE \in FullIxigoMoneyPayment(r)
        /\ Goto(r, "fullWallet") /\ UNCHANGED <<resp, settled, faults>>
     \/ /\ TRUE \in FullIxigoMoneyPayment(r)
        /\ \/ /\ Settle(r, "ixigoMoney")
              /\ Goto(r, "fullWallet") /\ Decide(r, "COMPLETE_IXIGO_PAYMENT_SUCCESS")
              /\ UNCHANGED faults
           \/ RedeemedUnnoticed(r, "ixigoMoney", "COMPLETE_IXIGO_PAYMENT_SUCCESS")
           \/ Goto(r, "notifyFailure") /\ UNCHANGED <<resp, settled, faults>>
           \/ Throw(r) /\ UNCHANGED <<settled, faults>>
  /\ UNCHANGED <<bean, holds, voucher, s2s, unblock, portal, profileCode>>

(* WalletHandler after its callee: capture of the whole wallet payment.    *)
(* WalletService.capture takes every unusable reply for a refusal.         *)
CaptureWallet(r) ==
  /\ pc[r] = "fullWallet"
  /\ \/ /\ FALSE \in FullWalletPayment(r)
        /\ Goto(r, "postCheck") /\ UNCHANGED <<resp, holds, settled, faults>>
     \/ /\ TRUE \in FullWalletPayment(r)
        /\ \/ /\ holds[req[r].walletId].state = "held"
              /\ holds' = [holds EXCEPT ![req[r].walletId].state = "captured"]
              /\ Settle(r, "ew")
              /\ \/ /\ Goto(r, "postCheck") /\ Decide(r, "COMPLETE_WALLET_SUCCESS")
                    /\ UNCHANGED faults
                 \/ /\ Goto(r, "reverseCapture") /\ Fault(r, "lostReply")
                    /\ UNCHANGED resp
           \/ Goto(r, "reverseCapture") /\ UNCHANGED <<resp, holds, settled, faults>>
  /\ UNCHANGED <<bean, voucher, s2s, unblock, portal, profileCode>>

ReverseCapture(r) ==
  /\ pc[r] = "reverseCapture"
  /\ ReverseAuth(r)
  /\ Goto(r, "notifyFailure")
  /\ UNCHANGED <<bean, resp, voucher, settled, s2s, unblock, portal, history>>

(* Mutant of MakeS2SCallIfEligible: the outcome is always "paid". *)
MakeS2SCallAsPaid(r, success) ==
  s2s' = IF IF success THEN valid[r].s2s ELSE valid[r].s2sOnFailure
         THEN [s2s EXCEPT ![r] = Append(@, TRUE)]
         ELSE s2s

(* PaymentUIHelper.makeS2SCallIfEligible with the outcome of the payment.  *)
MakeS2SCallIfEligible(r, success) ==
  s2s' = IF IF success THEN valid[r].s2s ELSE valid[r].s2sOnFailure
         THEN [s2s EXCEPT ![r] = Append(@, success)]
         ELSE s2s

(* The LOB is told of the refused redemption; then each processor goes on  *)
(* in its own way.                                                         *)
NotifyFailure(r) ==
  /\ pc[r] = "notifyFailure"
  /\ MakeS2SCallIfEligible(r, FALSE)
  /\ CASE req[r].paymentOption = "gv" ->
            \/ Goto(r, "audit") /\ Decide(r, "COMPLETE_GV_PAYMENT_FAILURE")
            \/ Refuse(r, "COMPLETE_GV_PAYMENT_FAILURE", "log")
       [] req[r].paymentOption = "ixigoMoney" ->
            \/ Goto(r, "fullWallet") /\ Decide(r, "COMPLETE_IXIGO_PAYMENT_FAILURE")
            \/ Refuse(r, "COMPLETE_IXIGO_PAYMENT_FAILURE", "log")
       [] OTHER -> Throw(r)
  /\ UNCHANGED <<bean, holds, voucher, settled, unblock, portal, history>>
------------------------------------------------------------------------------
(* The rest of RequestResponseEnhancer.process: eligibility checks that    *)
(* may still refuse, and the answer.                                       *)

(* setAgentCodeIfRequired.  A booking without agent profile or ERP code    *)
(* customises the code of the shared FailureCode constant; a failure of    *)
(* the profile service that carries the customised code is looked up in    *)
(* vain, which throws.                                                     *)
SetAgentCodeIfRequired(r) ==
  \/ /\ Goto(r, "prepare")
     /\ resp' = [resp EXCEPT ![r].agentCode = TRUE]
     /\ UNCHANGED profileCode
  \/ /\ Goto(r, "prepare") /\ Decide(r, "REFUSED")
     /\ profileCode' = "customised"
  \/ /\ IF profileCode = "customised"
        THEN Throw(r)
        ELSE Goto(r, "prepare") /\ Decide(r, "REFUSED")
     /\ UNCHANGED profileCode
  \/ Throw(r) /\ UNCHANGED profileCode

(* The checks for indifi, twid, upi and Bajaj EMI; each may overrule the   *)
(* decision taken, and the one for twid needs the LOB's validation.        *)
PostCheck(r) ==
  /\ pc[r] = "postCheck"
  /\ IF req[r].paymentOption = "indifi" /\ resp[r].decision = "SUCESS_REDIRECT_TO_PORTAL"
     THEN SetAgentCodeIfRequired(r)
     ELSE /\ \/ /\ req[r].paymentOption # "twid" \/ valid[r].got
                /\ Goto(r, "prepare")
                /\ \/ UNCHANGED resp
                   \/ req[r].paymentOption \in {"twid", "upi", "emi"} /\ Decide(r, "REFUSED")
             \/ req[r].paymentOption \in {"twid", "indifi"} /\ Throw(r)
          /\ UNCHANGED profileCode
  /\ UNCHANGED <<bean, outside, faults>>

(* Mutant of PortalAmount: the voucher is not deducted. *)
PortalAmountWithoutVoucher(r) ==
  AmountToCollectFromPG(valid[r].total, WalletPart(r), 0, req[r].ixigoMoney)

(* RequestResponseEnhancementHelper.preparePortalMap: what the portal is   *)
(* to collect.                                                             *)
PortalAmount(r) ==
  LET total == valid[r].total
      all   == AmountToCollectFromPG(total, WalletPart(r), req[r].voucherRedeemed, req[r].ixigoMoney)
  IN  IF WalletPart(r) + req[r].voucherRedeemed + req[r].ixigoMoney = 0
      THEN all \cup {total}
      ELSE all

(* The LOB's validation response lacks a node that setPromoParameters      *)
(* reads without looking: the answer fails halfway.                        *)
FailPromoParameters(r) == Fault(r, "unparsable") /\ Goto(r, "log")

(* prepareResponse for SUCESS_REDIRECT_TO_PORTAL: lookup of the card's     *)
(* URL, rurl, the map for the portal, then the promo parameters.           *)
PreparePortal(r) ==
  \/ /\ req[r].paymentOption = "card"
     /\ Throw(r) /\ UNCHANGED faults
  \/ /\ Goto(r, "log")
     /\ resp' = [resp EXCEPT ![r].success = FALSE, ![r].rurl = "portal"]
     /\ UNCHANGED faults
  \/ \E a \in PortalAmount(r) :
       \/ /\ Goto(r, "log")
          /\ resp' = [resp EXCEPT ![r].success = TRUE, ![r].rurl = "portal", ![r].amount = a]
          /\ UNCHANGED faults
       \/ /\ FailPromoParameters(r)
          /\ resp' = [resp EXCEPT ![r].success = FALSE, ![r].rurl = "portal", ![r].amount = a]

(* prepareResponse for the three ways of full redemption. *)
PrepareSuccess(r) ==
  \/ /\ Goto(r, "notifySuccess")
     /\ resp' = [resp EXCEPT ![r].success = TRUE, ![r].rurl = "lob"]
     /\ UNCHANGED faults
  \/ /\ FailPromoParameters(r)
     /\ resp' = [resp EXCEPT ![r].success = FALSE, ![r].rurl = "lob"]

(* prepareResponse for every refusal. *)
PrepareFailure(r) ==
  /\ \E rurl \in {"none", "lob"} :
       /\ rurl = "none" \/ resp[r].decision # "REFUSED"
       /\ resp' = [resp EXCEPT ![r].success = FALSE, ![r].rurl = rurl]
  /\ \/ Goto(r, "log") /\ UNCHANGED faults
     \/ resp[r].decision # "REFUSED" /\ FailPromoParameters(r)

(* RequestResponseEnhancer.prepareResponse; no decision at all throws. *)
PrepareResponse(r) ==
  /\ pc[r] = "prepare"
  /\ CASE resp[r].decision = "none" -> Throw(r) /\ UNCHANGED faults
       [] resp[r].decision = "SUCESS_REDIRECT_TO_PORTAL" -> PreparePortal(r)
       [] resp[r].decision \in CompleteSuccess -> PrepareSuccess(r)
       [] OTHER -> PrepareFailure(r)
  /\ UNCHANGED <<bean, outside, profileCode>>

NotifySuccess(r) ==
  /\ pc[r] = "notifySuccess"
  /\ MakeS2SCallIfEligible(r, TRUE)
  /\ Goto(r, "log")
  /\ UNCHANGED <<bean, resp, holds, voucher, settled, unblock, portal, history>>
------------------------------------------------------------------------------
(* The answer is logged, and the payment initiated for the apps that ask.  *)

(* A submission to the logging pool outside any try block: its bounded     *)
(* queue may reject it.                                                    *)
LogOrAbandon(r, next) ==
  \/ Goto(r, next) /\ UNCHANGED <<resp, faults>>
  \/ Abandon(r) /\ Fault(r, "logRejected")

(* LoggingProcessor.process, the answer. *)
LogResponse(r) ==
  /\ pc[r] = "log"
  /\ LogOrAbandon(r, "dispatch")
  /\ UNCHANGED <<bean, outside, profileCode>>

(* ProcessPaymentService.processPayment and the request log of             *)
(* LoggingProcessor.processPayment: the decision alone sends the request   *)
(* to the portal, whether or not the answer is a success.                  *)
Dispatch(r) ==
  /\ pc[r] = "dispatch"
  /\ IF req[r].initPayment /\ resp[r].decision = "SUCESS_REDIRECT_TO_PORTAL"
     THEN LogOrAbandon(r, "initPayment")
     ELSE Goto(r, "done") /\ UNCHANGED <<resp, faults>>
  /\ UNCHANGED <<bean, outside, profileCode>>

(* PaymentProcessorImpl.processPayment: without rurl no URL can be made    *)
(* and the exception is swallowed; the portal initiates a payment only     *)
(* for a prepared map.  A portal that says no, or a lost reply, makes the  *)
(* answer a failure; an unusable reply leaves it as it was.                *)
InitPayment(r) ==
  LET Initiate == /\ resp[r].amount # NoAmount
                  /\ portal' = [portal EXCEPT ![r] = "initiated"]
      Answer(ok) == resp' = [resp EXCEPT ![r].success = @ /\ ok, ![r].rurl = "none"]
  IN  /\ pc[r] = "initPayment"
      /\ Goto(r, "logResult")
      /\ \/ /\ resp[r].rurl = "none"
            /\ UNCHANGED <<resp, portal, faults>>
         \/ /\ resp[r].rurl # "none"
            /\ \/ Initiate /\ Answer(TRUE) /\ UNCHANGED faults
               \/ Answer(FALSE) /\ UNCHANGED <<portal, faults>>
               \/ /\ Initiate \/ UNCHANGED portal
                  /\ Answer(FALSE) \/ UNCHANGED resp
                  /\ Fault(r, "portalReply")
      /\ UNCHANGED <<bean, holds, voucher, settled, s2s, unblock, profileCode>>

(* LoggingProcessor.processPayment, the answer. *)
LogResult(r) ==
  /\ pc[r] = "logResult"
  /\ LogOrAbandon(r, "done")
  /\ UNCHANGED <<bean, outside, profileCode>>
------------------------------------------------------------------------------
Step(r) ==
  \/ LogRequest(r) \/ FetchBookingDetails(r) \/ SaveCard(r)
  \/ WalletAuth(r) \/ GetWalletInfo(r) \/ ReAuth(r) \/ GetWalletInfoAgain(r)
  \/ ReverseHandshake(r) \/ FetchNoCostEmi(r) \/ BlockVoucher(r) \/ Validate(r)
  \/ FullVoucher(r) \/ InsertNoCostEmiAudit(r) \/ FullIxigoMoney(r) \/ CaptureWallet(r)
  \/ ReverseCapture(r) \/ NotifyFailure(r) \/ PostCheck(r) \/ PrepareResponse(r)
  \/ NotifySuccess(r) \/ LogResponse(r) \/ Dispatch(r) \/ InitPayment(r) \/ LogResult(r)

(* Every request is answered: the system rests.  Deadlock elsewhere would  *)
(* be a request the pipeline has no step for.                              *)
Answered ==
  /\ \A r \in Requests : pc[r] = "done" /\ unblock[r] # "running"
  /\ UNCHANGED vars

Next == Answered \/ \E r \in Requests : Step(r) \/ Unblock(r)

Spec == Init /\ [][Next]_vars

(* Each request has a thread of the container to itself.  Most calls of the*)
(* pipeline and of the unblocking thread have a read timeout; those of     *)
(* sendGetRequest (is a twid customer eligible, is an agent's card         *)
(* domestic) and sendSSOJsonPostRequest (who is the guest with a stored    *)
(* card) have none and are assumed to return.                              *)
Fairness == \A r \in Requests : WF_vars(Step(r)) /\ WF_vars(Unblock(r))

FairSpec == Spec /\ Fairness
------------------------------------------------------------------------------
(* What an answer says. *)

InstrumentOf(d) ==
  CASE d = "COMPLETE_WALLET_SUCCESS" -> "ew"
    [] d = "COMPLETE_VOUCHER_SUCCESS" -> "gv"
    [] d = "COMPLETE_IXIGO_PAYMENT_SUCCESS" -> "ixigoMoney"

AnsweredPaid(r) ==
  pc[r] = "done" /\ resp[r].success /\ resp[r].decision \in CompleteSuccess

HandedOff(r) ==
  pc[r] = "done" /\ resp[r].success /\ resp[r].decision = "SUCESS_REDIRECT_TO_PORTAL"

Credits(r) == WalletPart(r) + req[r].voucherRedeemed + req[r].ixigoMoney

(* No request collects the money twice: through two instruments, or        *)
(* through one and then the portal as well, be it by initiating a payment  *)
(* (LoggingProcessor.processPayment looks only at the decision, which      *)
(* still says "redirect" after a redemption whose reply was lost) or by    *)
(* sending the browser there.                                              *)
CollectedAtMostOnce ==
  \A r \in Requests :
    /\ Cardinality(settled[r]) <= 1
    /\ settled[r] # {} => portal[r] = "none" /\ ~HandedOff(r)

(* An answer that says the booking is paid is backed by a redemption       *)
(* through the instrument it names, of credits that reach the LOB's total  *)
(* but for the rounding of validForFullRemeption (under two paise, or      *)
(* under a rupee when the total itself is), and the LOB has been told if   *)
(* it asked to be.                                                         *)
AnsweredPaidIsPaid ==
  \A r \in Requests : AnsweredPaid(r) =>
    /\ InstrumentOf(resp[r].decision) \in settled[r]
    /\ \/ valid[r].total < Credits(r) + 2 * Paisa
       \/ valid[r].total < Rupee
    /\ valid[r].s2s => s2s[r] = <<TRUE>>

(* The LOB hears at most one outcome of a request.  It hears "paid" only   *)
(* of money collected, and "failed" never of a request answered as a       *)
(* success nor, unless a reply was lost, of money collected.               *)
LobHearsTheTruth ==
  \A r \in Requests :
    /\ Len(s2s[r]) <= 1
    /\ s2s[r] = <<TRUE>> => settled[r] # {}
    /\ s2s[r] = <<FALSE>> => /\ settled[r] # {} => "lostReply" \in faults[r]
                             /\ pc[r] = "done" => ~resp[r].success

(* The customer is told "failed, please try again" although money was      *)
(* collected or the portal has the payment in hand, only if a reply was    *)
(* lost, the validation response could not be read, or the log pool was    *)
(* full: no processor after the redemption refuses in any other way.       *)
FailedButTakenIsExplained ==
  \A r \in Requests :
    pc[r] = "done" /\ ~resp[r].success /\ (settled[r] # {} \/ portal[r] = "initiated")
      => faults[r] # {}

(* A browser or app handed to the portal leaves with a validated booking,  *)
(* with the agent code indifi needs, nothing failed, released or told the  *)
(* LOB, and with an amount that together with the credits covers the total *)
(* and exceeds it by at most a paisa of rounding.                          *)
HandOffCollectsTheRest ==
  \A r \in Requests : HandedOff(r) =>
    /\ valid[r].got /\ s2s[r] = <<>> /\ unblock[r] = "idle"
    /\ req[r].paymentOption = "indifi" => resp[r].agentCode
    /\ resp[r].amount + Credits(r) >= valid[r].total
    /\ Credits(r) <= valid[r].total => resp[r].amount + Credits(r) <= valid[r].total + Paisa

(* The wallet part deducted from the amount for the portal is still on     *)
(* hold, for that amount, when the customer is handed over, unless another *)
(* request named the same hold.                                            *)
HandOffHoldIsLive ==
  \A r \in Requests :
    HandedOff(r) /\ req[r].walletInfo # NoAmount =>
      \/ holds[req[r].walletId] = [state |-> "held", amount |-> req[r].walletInfo]
      \/ \E q \in Requests \ {r} : req[q].walletId = req[r].walletId

(* A step captures a hold only for a request the LOB validated, in the     *)
(* amount shown to the customer, and never one whose release was asked.    *)
CaptureWhatWasShown ==
  [][\A r \in Requests : "ew" \in settled'[r] \ settled[r] =>
       /\ valid[r].got
       /\ req[r].walletId \in Holds
       /\ holds[req[r].walletId] = [state |-> "held", amount |-> req[r].walletAmount]]_vars

(* Every request is answered, whatever fails on the way. *)
EveryRequestAnswered == \A r \in Requests : <>(pc[r] = "done")

(* A voucher redemption that was refused leads to an attempt to unblock    *)
(* the vouchers, beside the answer.                                        *)
RefusedVoucherIsUnblocked ==
  \A r \in Requests :
    resp[r].decision = "COMPLETE_GV_PAYMENT_FAILURE" ~> unblock[r] = "done"
==============================================================================
