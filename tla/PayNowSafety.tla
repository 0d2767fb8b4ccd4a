---------------------------- MODULE PayNowSafety ----------------------------
(***************************************************************************)
(* More proofs about PayNow: what the answer to the browser, the LOB and   *)
(* the portal may say of the money, that the hold deducted at the portal   *)
(* is in place, that a capture takes what was shown, and that the pipeline *)
(* implements Checkout.  They rest on one inductive invariant, SafetyInv.  *)
(***************************************************************************)
EXTENDS PayNowProofs, PayNowCheckout

USE PayNowAssumption DEF PayNowAssumption

(* Before the LOB's validation, and before a hold was verified. *)
BeforeValidation == Early \ {"fullVoucher"}

BeforeHandshake ==
  {"received", "details", "saveCard", "walletAuth", "walletInfo", "reAuth", "reInfo",
   "reverseHandshake"}

(* Decisions with which a request whose failure the LOB was told goes on.  *)
Failures == {"REFUSED", "COMPLETE_GV_PAYMENT_FAILURE", "COMPLETE_IXIGO_PAYMENT_FAILURE"}

(* Nothing happened before the redemptions, and a request goes on after    *)
(* something the code has no answer for only to reverse a capture or to    *)
(* the log.                                                                *)
Fresh(r) ==
  /\ pc[r] \in Early => s2s[r] = <<>> /\ unblock[r] = "idle" /\ faults[r] = {}
  /\ pc[r] \in BeforeValidation => resp[r].decision = "none" /\ resp[r].success = FALSE
  /\ faults[r] # {} => \/ pc[r] \in Late
                       \/ pc[r] \in Reversing /\ req[r].paymentOption = "ew"

Validated(r) ==
  resp[r].success \/ resp[r].decision \in CompleteSuccess \cup {"SUCESS_REDIRECT_TO_PORTAL"}
    => valid[r].got

Enough(r) == valid[r].total < Credits(r) + 2 * Paisa \/ valid[r].total < Rupee

Redeemed(r) ==
  /\ resp[r].decision \in CompleteSuccess => InstrumentOf(resp[r].decision) \in settled[r]
  /\ pc[r] \in {"audit", "fullIxigo"} => settled[r] \subseteq {"gv"}
  /\ pc[r] = "fullWallet" => "ew" \notin settled[r]
  /\ pc[r] = "reverseCapture" => req[r].paymentOption = "ew"
  /\ settled[r] # {} =>
       /\ Enough(r)
       /\ \/ pc[r] \in Late
          \/ pc[r] \in Reversing /\ "lostReply" \in faults[r]
          \/ pc[r] \notin Reversing /\ resp[r].decision \in CompleteSuccess

GoesOnRefused(r) ==
  \/ req[r].paymentOption = "gv"
       /\ pc[r] \in {"audit", "fullIxigo", "fullWallet", "postCheck", "prepare"}
  \/ req[r].paymentOption = "ixigoMoney" /\ pc[r] \in {"fullWallet", "postCheck", "prepare"}

Told(r) ==
  /\ s2s[r] # <<>> => resp[r].amount = NoAmount
  /\ \/ s2s[r] = <<>>
     \/ /\ s2s[r] = <<TRUE>> /\ settled[r] # {} /\ pc[r] \in Late
     \/ /\ s2s[r] = <<FALSE>>
        /\ settled[r] # {} => "lostReply" \in faults[r]
        /\ \/ pc[r] \in Late /\ resp[r].success = FALSE
           \/ GoesOnRefused(r) /\ resp[r].decision \in Failures
  /\ pc[r] = "notifySuccess" => resp[r].decision \in CompleteSuccess /\ resp[r].success = TRUE
  /\ pc[r] \in Late /\ resp[r].success /\ resp[r].decision \in CompleteSuccess /\ valid[r].s2s
       => s2s[r] = <<TRUE>>

Taken(r) ==
  /\ pc[r] \in {"log", "dispatch", "initPayment"} =>
       /\ portal[r] = "none"
       /\ ~resp[r].success /\ resp[r].amount # NoAmount => faults[r] # {}
  /\ pc[r] \in Late /\ ~resp[r].success /\ (settled[r] # {} \/ portal[r] = "initiated")
       => faults[r] # {}
  /\ pc[r] = "initPayment" => resp[r].decision = "SUCESS_REDIRECT_TO_PORTAL"
  /\ pc[r] \in Late /\ resp[r].success =>
       resp[r].decision \in CompleteSuccess \cup {"SUCESS_REDIRECT_TO_PORTAL"}

Handing(r) ==
  /\ unblock[r] # "idle" =>
       /\ req[r].paymentOption = "gv"
       /\ \/ pc[r] = "notifyFailure"
          \/ pc[r] \in {"audit", "fullIxigo", "fullWallet", "postCheck", "prepare"}
               /\ resp[r].decision \in Failures
          \/ pc[r] \in Late /\ resp[r].success = FALSE
  /\ req[r].paymentOption = "indifi" /\ resp[r].decision = "SUCESS_REDIRECT_TO_PORTAL"
       /\ (pc[r] = "prepare" \/ (pc[r] \in Late /\ resp[r].success))
       => resp[r].agentCode
  /\ pc[r] \in Late /\ resp[r].success /\ resp[r].decision = "SUCESS_REDIRECT_TO_PORTAL"
       => resp[r].amount \in PortalAmount(r)

Shared(r) ==
  \E q \in Requests \ {r} : req[q].walletId = req[r].walletId /\ pc[q] \notin BeforeHandshake

OnHold(r) ==
  /\ pc[r] \in BeforeHandshake => req[r].walletInfo = NoAmount
  /\ req[r].walletInfo # NoAmount =>
       /\ req[r].walletId \in Holds
       /\ holds[req[r].walletId].state # "free"
       /\ holds[req[r].walletId].amount = req[r].walletInfo
       /\ req[r].walletAmount = req[r].walletInfo
       /\ \/ holds[req[r].walletId].state = "held"
          \/ settled[r] # {}
          \/ pc[r] \in Reversing /\ req[r].paymentOption = "ew"
          \/ pc[r] \in Late /\ resp[r].success = FALSE
          \/ Shared(r)

Account(r) ==
  Fresh(r) /\ Validated(r) /\ Redeemed(r) /\ Told(r) /\ Taken(r) /\ Handing(r)

SafetyInv == \A r \in Requests : Account(r) /\ OnHold(r)

------------------------------------------------------------------------------
(* What each action does to its request, in terms of the fields the        *)
(* invariant speaks of.                                                    *)

Moved(r, l, d, ok) == pc'[r] = l /\ resp'[r].decision = d /\ resp'[r].success = ok

Kept(r) == resp'[r].amount = resp[r].amount /\ resp'[r].agentCode = resp[r].agentCode

Met(r, f) == faults'[r] = faults[r] \cup {f}

Untroubled(r) == faults'[r] = faults[r]

LEMMA GotoMoves ==
  ASSUME TypeOK, NEW r \in Requests, NEW l, Goto(r, l), UNCHANGED resp
  PROVE  Moved(r, l, resp[r].decision, resp[r].success) /\ Kept(r)
BY GotoEffect DEF Moved, Kept

LEMMA DecideMoves ==
  ASSUME TypeOK, NEW r \in Requests, NEW l, NEW d, Goto(r, l), Decide(r, d)
  PROVE  Moved(r, l, d, resp[r].success) /\ Kept(r)
<1>1. resp'[r].agentCode = resp[r].agentCode
  BY DEF TypeOK, Decide, ResponseType
<1> QED
  BY <1>1, GotoEffect, DecideEffect DEF Moved, Kept

LEMMA ThrowMoves ==
  ASSUME TypeOK, NEW r \in Requests, Throw(r)
  PROVE  Moved(r, "log", resp[r].decision, FALSE) /\ Kept(r)
<1>1. resp'[r].agentCode = resp[r].agentCode
  BY DEF TypeOK, Throw, ResponseType
<1> QED
  BY <1>1, ThrowEffect DEF Moved, Kept

LEMMA RefuseMoves ==
  ASSUME TypeOK, NEW r \in Requests, NEW d, NEW l, Refuse(r, d, l)
  PROVE  Moved(r, l, d, FALSE) /\ Kept(r)
<1>1. resp'[r].agentCode = resp[r].agentCode
  BY DEF TypeOK, Refuse, ResponseType
<1>2. /\ pc'[r] = l /\ resp'[r].decision = d
      /\ resp'[r].success = FALSE /\ resp'[r].amount = resp[r].amount
  BY DEF TypeOK, Refuse, Goto, ResponseType
<1> QED
  BY <1>1, <1>2 DEF Moved, Kept

LEMMA FaultMet ==
  ASSUME TypeOK, NEW r \in Requests, NEW f, Fault(r, f)
  PROVE  Met(r, f) /\ \A q \in Requests \ {r} : faults'[q] = faults[q]
BY DEF TypeOK, Fault, Met

LEMMA UnnoticedMoves ==
  ASSUME TypeOK, NEW r \in Requests, NEW i, NEW d, RedeemedUnnoticed(r, i, d)
  PROVE  /\ \E noted \in {resp[r].decision, d} : Moved(r, "log", noted, FALSE)
         /\ Kept(r) /\ settled'[r] = settled[r] \cup {i} /\ Met(r, "lostReply")
<1>1. PICK noted \in {resp[r].decision, d} :
        resp' = [resp EXCEPT ![r].success = FALSE, ![r].decision = noted]
  BY DEF RedeemedUnnoticed
<1>2. /\ resp'[r].decision = noted /\ resp'[r].success = FALSE
      /\ resp'[r].amount = resp[r].amount /\ resp'[r].agentCode = resp[r].agentCode
  BY <1>1 DEF TypeOK, ResponseType
<1>3. pc'[r] = "log" /\ settled'[r] = settled[r] \cup {i}
  BY RedeemedUnnoticedEffect
<1>4. Fault(r, "lostReply")
  BY DEF RedeemedUnnoticed
<1> QED
  BY <1>2, <1>3, <1>4, FaultMet DEF Moved, Kept

LEMMA LogOrAbandonMoves ==
  ASSUME TypeOK, NEW r \in Requests, NEW l, LogOrAbandon(r, l)
  PROVE  \/ /\ Moved(r, l, resp[r].decision, resp[r].success) /\ Kept(r) /\ UNCHANGED faults
         \/ /\ Moved(r, "done", "none", FALSE) /\ resp'[r].amount = NoAmount
            /\ Met(r, "logRejected")
<1>1. CASE Goto(r, l) /\ UNCHANGED <<resp, faults>>
  BY <1>1, GotoMoves
<1>2. CASE Abandon(r) /\ Fault(r, "logRejected")
  BY <1>2, AbandonEffect, FaultMet DEF Moved
<1> QED
  BY <1>1, <1>2 DEF LogOrAbandon

(* What the steps before the LOB's validation have in common.              *)
Approach(r) ==
  \/ LogRequest(r) \/ FetchBookingDetails(r) \/ SaveCard(r)
  \/ WalletAuth(r) \/ GetWalletInfo(r) \/ ReAuth(r) \/ GetWalletInfoAgain(r)
  \/ ReverseHandshake(r) \/ FetchNoCostEmi(r) \/ BlockVoucher(r)

Refusing(r) ==
  pc'[r] \in {"postCheck", "prepare", "audit"} /\ resp'[r].decision \in {"REFUSED", resp[r].decision}

Approached(r) ==
  /\ resp'[r].success \in {FALSE, resp[r].success}
  /\ \/ pc'[r] \in BeforeValidation /\ resp'[r].decision = resp[r].decision /\ Untroubled(r)
     \/ Refusing(r) /\ Untroubled(r)
     \/ Moved(r, "log", resp[r].decision, FALSE)

LEMMA ApproachMoves ==
  ASSUME TypeOK, NEW r \in Requests, Approach(r)
  PROVE  Approached(r) /\ Kept(r)
<1> DEFINE Done == Approached(r) /\ Kept(r)
<1>on. ASSUME NEW l \in BeforeValidation, Goto(r, l), UNCHANGED resp, Untroubled(r) PROVE Done
  BY <1>on, GotoMoves DEF Moved, Approached
<1>back. ASSUME NEW l \in {"postCheck", "prepare", "audit"}, Goto(r, l),
                UNCHANGED resp \/ Decide(r, "REFUSED"), Untroubled(r)
         PROVE Done
  BY <1>back, GotoMoves, DecideMoves DEF Moved, Approached, Refusing
<1>throw. ASSUME Throw(r) PROVE Done
  BY <1>throw, ThrowMoves DEF Moved, Approached
<1>refuse. ASSUME Refuse(r, "REFUSED", "audit"), Untroubled(r) PROVE Done
  BY <1>refuse, RefuseMoves DEF Moved, Approached, Refusing
<1>still. UNCHANGED <<bean, outside, history>> \/ UNCHANGED faults => Untroubled(r)
  BY DEF history, Untroubled
<1> SUFFICES Done
  OBVIOUS
<1> HIDE DEF Done
<1> USE DEF BeforeValidation, Early
<1>1. CASE LogRequest(r)
  BY <1>1, <1>on, <1>throw, <1>still DEF LogRequest
<1>2. CASE FetchBookingDetails(r)
  BY <1>2, <1>on, <1>back, <1>throw, <1>still DEF FetchBookingDetails
<1>3. CASE SaveCard(r)
  BY <1>3, <1>on, <1>back, <1>throw, <1>still DEF SaveCard
<1>auth. ASSUME NEW l \in {"walletInfo", "reInfo"}, DoWalletAuth(r, l) PROVE Done
  <2>1. CASE Goto(r, l) /\ UNCHANGED <<resp, faults>>
    BY <2>1, <1>on, <1>still
  <2>2. CASE /\ Goto(r, IF req[r].walletId = NoHold THEN "postCheck" ELSE l)
             /\ UNCHANGED <<resp, faults>>
    <3>1. Goto(r, "postCheck") \/ Goto(r, l)
      BY <2>2
    <3> QED
      BY <2>2, <3>1, <1>on, <1>back, <1>still
  <2>3. CASE Throw(r)
    BY <2>3, <1>throw
  <2> QED
    BY <1>auth, <2>1, <2>2, <2>3 DEF DoWalletAuth
<1>hand. Handshake(r) => Goto(r, "noCostEmi") \/ Goto(r, "reverseHandshake")
  BY DEF Handshake
<1>4. CASE WalletAuth(r)
  BY <1>4, <1>auth, <1>on, <1>still DEF WalletAuth
<1>5. CASE GetWalletInfo(r)
  <2>1. CASE UNCHANGED resp
    <3>1. Throw(r) \/ \E l \in BeforeValidation : Goto(r, l)
      BY <1>5, <1>hand DEF GetWalletInfo
    <3>2. Untroubled(r)
      BY <1>5 DEF GetWalletInfo, history, Untroubled
    <3> QED
      BY <2>1, <3>1, <3>2, <1>on, <1>throw
  <2>2. CASE Throw(r)
    BY <2>2, <1>throw
  <2> QED
    BY <1>5, <2>1, <2>2 DEF GetWalletInfo
<1>6. CASE ReAuth(r)
  BY <1>6, <1>auth, <1>on, <1>throw, <1>still DEF ReAuth
<1>7. CASE GetWalletInfoAgain(r)
  <2>1. Throw(r) \/ (UNCHANGED resp /\ \E l \in BeforeValidation : Goto(r, l))
    BY <1>7, <1>hand DEF GetWalletInfoAgain
  <2>2. Untroubled(r)
    BY <1>7 DEF GetWalletInfoAgain, history, Untroubled
  <2> QED
    BY <2>1, <2>2, <1>on, <1>throw
<1>8. CASE ReverseHandshake(r)
  BY <1>8, <1>throw DEF ReverseHandshake
<1>9. CASE FetchNoCostEmi(r)
  <2>1. Throw(r) \/ (UNCHANGED resp /\ Goto(r, "voucher"))
    BY <1>9 DEF FetchNoCostEmi
  <2>2. Untroubled(r)
    BY <1>9 DEF FetchNoCostEmi, history, Untroubled
  <2> QED
    BY <2>1, <2>2, <1>on, <1>throw
<1>10. CASE BlockVoucher(r)
  <2>1. \/ Throw(r)
        \/ UNCHANGED <<resp, faults>> /\ Goto(r, "validate")
        \/ UNCHANGED faults /\ Refuse(r, "REFUSED", "audit")
    BY <1>10 DEF BlockVoucher
  <2> QED
    BY <2>1, <1>on, <1>throw, <1>refuse, <1>still
<1> QED
  BY <1>1, <1>2, <1>3, <1>4, <1>5, <1>6, <1>7, <1>8, <1>9, <1>10 DEF Approach

(* The LOB's validation and the redemptions. *)
LEMMA ValidateMoves ==
  ASSUME TypeOK, NEW r \in Requests, Validate(r)
  PROVE  /\ pc[r] = "validate" /\ Kept(r) /\ Untroubled(r)
         /\ \/ Moved(r, "log", resp[r].decision, FALSE)
            \/ Moved(r, "audit", "VALIDATION_FAILURE", FALSE)
            \/ Moved(r, "audit", "REFUSED", FALSE)
            \/ Moved(r, "fullVoucher", "SUCESS_REDIRECT_TO_PORTAL", TRUE) /\ valid'[r].got
         /\ \A q \in Requests \ {r} : valid'[q] = valid[q]
<1>1. \A q \in Requests \ {r} : valid'[q] = valid[q]
  BY DEF Validate, TypeOK
<1>2. pc[r] = "validate" /\ Untroubled(r)
  BY DEF Validate, history, Untroubled
<1>3. CASE Throw(r)
  BY <1>1, <1>2, <1>3, ThrowMoves
<1>4. CASE Refuse(r, "VALIDATION_FAILURE", "audit") \/ Refuse(r, "REFUSED", "audit")
  BY <1>1, <1>2, <1>4, RefuseMoves
<1>5. CASE /\ Goto(r, "fullVoucher")
           /\ resp' = [resp EXCEPT ![r].success = TRUE, ![r].decision = "SUCESS_REDIRECT_TO_PORTAL"]
           /\ \E t \in Totals, ok, fail \in BOOLEAN :
                valid' = [valid EXCEPT ![r] = [got |-> TRUE, total |-> t, s2s |-> ok, s2sOnFailure |-> fail]]
  <2>1. /\ resp'[r].success = TRUE /\ resp'[r].decision = "SUCESS_REDIRECT_TO_PORTAL"
        /\ resp'[r].amount = resp[r].amount /\ resp'[r].agentCode = resp[r].agentCode
    BY <1>5 DEF TypeOK, ResponseType
  <2>2. valid'[r].got
    BY <1>5 DEF TypeOK
  <2> QED
    BY <1>1, <1>2, <1>5, <2>1, <2>2, GotoEffect DEF Moved, Kept
<1> QED
  BY <1>3, <1>4, <1>5 DEF Validate

LEMMA FullVoucherMoves ==
  ASSUME TypeOK, NEW r \in Requests, FullVoucher(r)
  PROVE  /\ pc[r] = "fullVoucher" /\ Kept(r)
         /\ \/ /\ Moved(r, "audit", resp[r].decision, resp[r].success)
               /\ UNCHANGED <<settled, unblock, faults>>
            \/ /\ TRUE \in FullVoucherPayment(r)
               /\ \/ /\ Moved(r, "audit", "COMPLETE_VOUCHER_SUCCESS", resp[r].success)
                     /\ settled'[r] = settled[r] \cup {"gv"} /\ UNCHANGED <<unblock, faults>>
                  \/ /\ \E noted \in {resp[r].decision, "COMPLETE_VOUCHER_SUCCESS"} :
                          Moved(r, "log", noted, FALSE)
                     /\ settled'[r] = settled[r] \cup {"gv"}
                     /\ Met(r, "lostReply") /\ UNCHANGED unblock
                  \/ /\ Moved(r, "notifyFailure", resp[r].decision, resp[r].success)
                     /\ unblock'[r] = "running" /\ UNCHANGED <<settled, faults>>
                  \/ /\ Moved(r, "log", resp[r].decision, FALSE)
                     /\ UNCHANGED <<settled, unblock, faults>>
<1> DEFINE d == "COMPLETE_VOUCHER_SUCCESS"
<1>1. pc[r] = "fullVoucher"
  BY DEF FullVoucher
<1>2. CASE Goto(r, "audit") /\ UNCHANGED <<resp, settled, unblock, faults>>
  BY <1>1, <1>2, GotoMoves
<1>3. CASE /\ TRUE \in FullVoucherPayment(r)
           /\ Settle(r, "gv") /\ Goto(r, "audit") /\ Decide(r, d) /\ UNCHANGED <<unblock, faults>>
  BY <1>1, <1>3, DecideMoves, SettleEffect
<1>4. CASE TRUE \in FullVoucherPayment(r) /\ RedeemedUnnoticed(r, "gv", d) /\ UNCHANGED unblock
  <2>1. /\ \E noted \in {resp[r].decision, d} : Moved(r, "log", noted, FALSE)
        /\ Kept(r) /\ settled'[r] = settled[r] \cup {"gv"} /\ Met(r, "lostReply")
    BY <1>4, UnnoticedMoves
  <2> QED
    BY <1>1, <1>4, <2>1
<1>5. CASE /\ TRUE \in FullVoucherPayment(r)
           /\ Goto(r, "notifyFailure") /\ StartUnblock(r) /\ UNCHANGED <<resp, settled, faults>>
  <2>1. unblock'[r] = "running"
    BY <1>5 DEF TypeOK, StartUnblock
  <2> QED
    BY <1>1, <1>5, <2>1, GotoMoves
<1>6. CASE TRUE \in FullVoucherPayment(r) /\ Throw(r) /\ UNCHANGED <<settled, unblock, faults>>
  BY <1>1, <1>6, ThrowMoves
<1> QED
  BY <1>2, <1>3, <1>4, <1>5, <1>6 DEF FullVoucher

LEMMA FullIxigoMoneyMoves ==
  ASSUME TypeOK, NEW r \in Requests, FullIxigoMoney(r)
  PROVE  /\ pc[r] = "fullIxigo" /\ Kept(r)
         /\ \/ /\ Moved(r, "fullWallet", resp[r].decision, resp[r].success)
               /\ UNCHANGED <<settled, faults>>
            \/ /\ TRUE \in FullIxigoMoneyPayment(r)
               /\ \/ /\ Moved(r, "fullWallet", "COMPLETE_IXIGO_PAYMENT_SUCCESS", resp[r].success)
                     /\ settled'[r] = settled[r] \cup {"ixigoMoney"} /\ UNCHANGED faults
                  \/ /\ \E noted \in {resp[r].decision, "COMPLETE_IXIGO_PAYMENT_SUCCESS"} :
                          Moved(r, "log", noted, FALSE)
                     /\ settled'[r] = settled[r] \cup {"ixigoMoney"} /\ Met(r, "lostReply")
                  \/ /\ Moved(r, "notifyFailure", resp[r].decision, resp[r].success)
                     /\ UNCHANGED <<settled, faults>>
                  \/ /\ Moved(r, "log", resp[r].decision, FALSE)
                     /\ UNCHANGED <<settled, faults>>
<1> DEFINE d == "COMPLETE_IXIGO_PAYMENT_SUCCESS"
<1>1. pc[r] = "fullIxigo"
  BY DEF FullIxigoMoney
<1>2. CASE Goto(r, "fullWallet") /\ UNCHANGED <<resp, settled, faults>>
  BY <1>1, <1>2, GotoMoves
<1>3. CASE /\ TRUE \in FullIxigoMoneyPayment(r)
           /\ Settle(r, "ixigoMoney") /\ Goto(r, "fullWallet") /\ Decide(r, d) /\ UNCHANGED faults
  BY <1>1, <1>3, DecideMoves, SettleEffect
<1>4. CASE TRUE \in FullIxigoMoneyPayment(r) /\ RedeemedUnnoticed(r, "ixigoMoney", d)
  <2>1. /\ \E noted \in {resp[r].decision, d} : Moved(r, "log", noted, FALSE)
        /\ Kept(r) /\ settled'[r] = settled[r] \cup {"ixigoMoney"} /\ Met(r, "lostReply")
    BY <1>4, UnnoticedMoves
  <2> QED
    BY <1>1, <1>4, <2>1
<1>5. CASE /\ TRUE \in FullIxigoMoneyPayment(r)
           /\ Goto(r, "notifyFailure") /\ UNCHANGED <<resp, settled, faults>>
  BY <1>1, <1>5, GotoMoves
<1>6. CASE TRUE \in FullIxigoMoneyPayment(r) /\ Throw(r) /\ UNCHANGED <<settled, faults>>
  BY <1>1, <1>6, ThrowMoves
<1> QED
  BY <1>2, <1>3, <1>4, <1>5, <1>6 DEF FullIxigoMoney

LEMMA CaptureWalletMoves ==
  ASSUME TypeOK, NEW r \in Requests, CaptureWallet(r)
  PROVE  /\ pc[r] = "fullWallet" /\ Kept(r)
         /\ \/ /\ Moved(r, "postCheck", resp[r].decision, resp[r].success)
               /\ UNCHANGED <<settled, faults, holds>>
            \/ /\ TRUE \in FullWalletPayment(r)
               /\ \/ /\ holds[req[r].walletId].state = "held"
                     /\ holds' = [holds EXCEPT ![req[r].walletId].state = "captured"]
                     /\ settled'[r] = settled[r] \cup {"ew"}
                     /\ \/ /\ Moved(r, "postCheck", "COMPLETE_WALLET_SUCCESS", resp[r].success)
                           /\ UNCHANGED faults
                        \/ /\ Moved(r, "reverseCapture", resp[r].decision, resp[r].success)
                           /\ Met(r, "lostReply")
                  \/ /\ Moved(r, "reverseCapture", resp[r].decision, resp[r].success)
                     /\ UNCHANGED <<settled, faults, holds>>
<1>1. pc[r] = "fullWallet"
  BY DEF CaptureWallet
<1>2. CASE Goto(r, "postCheck") /\ UNCHANGED <<resp, holds, settled, faults>>
  BY <1>1, <1>2, GotoMoves
<1>3. CASE /\ TRUE \in FullWalletPayment(r)
           /\ holds[req[r].walletId].state = "held"
           /\ holds' = [holds EXCEPT ![req[r].walletId].state = "captured"]
           /\ Settle(r, "ew")
           /\ \/ Goto(r, "postCheck") /\ Decide(r, "COMPLETE_WALLET_SUCCESS") /\ UNCHANGED faults
              \/ Goto(r, "reverseCapture") /\ Fault(r, "lostReply") /\ UNCHANGED resp
  <2>1. settled'[r] = settled[r] \cup {"ew"}
    BY <1>3, SettleEffect
  <2>2. CASE Goto(r, "postCheck") /\ Decide(r, "COMPLETE_WALLET_SUCCESS") /\ UNCHANGED faults
    BY <1>1, <1>3, <2>1, <2>2, DecideMoves
  <2>3. CASE Goto(r, "reverseCapture") /\ Fault(r, "lostReply") /\ UNCHANGED resp
    BY <1>1, <1>3, <2>1, <2>3, GotoMoves, FaultMet
  <2> QED
    BY <1>3, <2>2, <2>3
<1>4. CASE /\ TRUE \in FullWalletPayment(r)
           /\ Goto(r, "reverseCapture") /\ UNCHANGED <<resp, holds, settled, faults>>
  BY <1>1, <1>4, GotoMoves
<1> QED
  BY <1>2, <1>3, <1>4 DEF CaptureWallet

LEMMA ToldMoves ==
  ASSUME TypeOK, NEW r \in Requests, NEW b \in BOOLEAN, MakeS2SCallIfEligible(r, b)
  PROVE  /\ s2s[r] = <<>> => s2s'[r] \in {<<>>, <<b>>}
         /\ s2s[r] = <<>> /\ b /\ valid[r].s2s => s2s'[r] = <<b>>
         /\ \A q \in Requests \ {r} : s2s'[q] = s2s[q]
<1>1. s2s[r] = <<>> => Append(s2s[r], b) = <<b>>
  OBVIOUS
<1>2. /\ s2s'[r] \in {s2s[r], Append(s2s[r], b)}
      /\ b /\ valid[r].s2s => s2s'[r] = Append(s2s[r], b)
      /\ \A q \in Requests \ {r} : s2s'[q] = s2s[q]
  BY DEF MakeS2SCallIfEligible, TypeOK
<1> QED
  BY <1>1, <1>2

LEMMA NotifyFailureMoves ==
  ASSUME TypeOK, NEW r \in Requests, NotifyFailure(r)
  PROVE  /\ pc[r] = "notifyFailure" /\ Kept(r) /\ MakeS2SCallIfEligible(r, FALSE)
         /\ UNCHANGED <<settled, unblock, faults>>
         /\ \/ /\ req[r].paymentOption = "gv"
               /\ \/ Moved(r, "audit", "COMPLETE_GV_PAYMENT_FAILURE", resp[r].success)
                  \/ Moved(r, "log", "COMPLETE_GV_PAYMENT_FAILURE", FALSE)
            \/ /\ req[r].paymentOption = "ixigoMoney"
               /\ \/ Moved(r, "fullWallet", "COMPLETE_IXIGO_PAYMENT_FAILURE", resp[r].success)
                  \/ Moved(r, "log", "COMPLETE_IXIGO_PAYMENT_FAILURE", FALSE)
            \/ /\ req[r].paymentOption \notin {"gv", "ixigoMoney"}
               /\ Moved(r, "log", resp[r].decision, FALSE)
<1>1. pc[r] = "notifyFailure" /\ MakeS2SCallIfEligible(r, FALSE) /\ UNCHANGED <<settled, unblock, faults>>
  BY DEF NotifyFailure, history
<1>2. CASE req[r].paymentOption = "gv"
  <2>1. \/ Goto(r, "audit") /\ Decide(r, "COMPLETE_GV_PAYMENT_FAILURE")
        \/ Refuse(r, "COMPLETE_GV_PAYMENT_FAILURE", "log")
    BY <1>2 DEF NotifyFailure
  <2> QED
    BY <1>1, <1>2, <2>1, DecideMoves, RefuseMoves
<1>3. CASE req[r].paymentOption = "ixigoMoney"
  <2>1. \/ Goto(r, "fullWallet") /\ Decide(r, "COMPLETE_IXIGO_PAYMENT_FAILURE")
        \/ Refuse(r, "COMPLETE_IXIGO_PAYMENT_FAILURE", "log")
    BY <1>3 DEF NotifyFailure
  <2> QED
    BY <1>1, <1>3, <2>1, DecideMoves, RefuseMoves
<1>4. CASE req[r].paymentOption \notin {"gv", "ixigoMoney"}
  <2>1. Throw(r)
    BY <1>4 DEF NotifyFailure
  <2> QED
    BY <1>1, <1>4, <2>1, ThrowMoves
<1> QED
  BY <1>2, <1>3, <1>4

(* The checks after the chain and the answer. *)
LEMMA PostCheckMoves ==
  ASSUME TypeOK, NEW r \in Requests, PostCheck(r)
  PROVE  /\ pc[r] = "postCheck" /\ resp'[r].amount = resp[r].amount /\ UNCHANGED faults
         /\ \/ /\ pc'[r] = "prepare" /\ resp'[r].success = resp[r].success
               /\ \/ /\ resp'[r].decision = resp[r].decision
                     /\ \/ resp'[r].agentCode
                        \/ /\ resp'[r].agentCode = resp[r].agentCode
                           /\ \/ req[r].paymentOption # "indifi"
                              \/ resp[r].decision # "SUCESS_REDIRECT_TO_PORTAL"
                  \/ /\ resp'[r].decision = "REFUSED"
                     /\ \/ req[r].paymentOption \in {"twid", "upi", "emi"}
                        \/ resp[r].decision = "SUCESS_REDIRECT_TO_PORTAL"
            \/ /\ Moved(r, "log", resp[r].decision, FALSE)
               /\ req[r].paymentOption \in {"twid", "indifi"}
<1>1. pc[r] = "postCheck" /\ UNCHANGED faults
  BY DEF PostCheck
<1>decide. Goto(r, "prepare") /\ Decide(r, "REFUSED") => Moved(r, "prepare", "REFUSED", resp[r].success) /\ Kept(r)
  BY DecideMoves
<1>go. Goto(r, "prepare") /\ UNCHANGED resp => Moved(r, "prepare", resp[r].decision, resp[r].success) /\ Kept(r)
  BY GotoMoves
<1>throw. Throw(r) => Moved(r, "log", resp[r].decision, FALSE) /\ Kept(r)
  BY ThrowMoves
<1>2. CASE req[r].paymentOption = "indifi" /\ resp[r].decision = "SUCESS_REDIRECT_TO_PORTAL"
  <2>1. SetAgentCodeIfRequired(r)
    BY <1>2 DEF PostCheck
  <2>2. CASE Goto(r, "prepare") /\ resp' = [resp EXCEPT ![r].agentCode = TRUE]
    <3>1. /\ resp'[r].agentCode /\ resp'[r].decision = resp[r].decision
          /\ resp'[r].success = resp[r].success /\ resp'[r].amount = resp[r].amount
      BY <2>2 DEF TypeOK, ResponseType
    <3> QED
      BY <1>1, <2>2, <3>1, GotoEffect
  <2>3. CASE (Goto(r, "prepare") /\ Decide(r, "REFUSED")) \/ Throw(r)
    BY <1>1, <1>2, <2>3, <1>decide, <1>throw DEF Moved, Kept
  <2> QED
    BY <2>1, <2>2, <2>3 DEF SetAgentCodeIfRequired
<1>3. CASE ~(req[r].paymentOption = "indifi" /\ resp[r].decision = "SUCESS_REDIRECT_TO_PORTAL")
  <2>1. \/ /\ Goto(r, "prepare")
           /\ UNCHANGED resp \/ (req[r].paymentOption \in {"twid", "upi", "emi"} /\ Decide(r, "REFUSED"))
        \/ req[r].paymentOption \in {"twid", "indifi"} /\ Throw(r)
    BY <1>3 DEF PostCheck
  <2> QED
    BY <1>1, <1>3, <2>1, <1>decide, <1>go, <1>throw DEF Moved, Kept
<1> QED
  BY <1>2, <1>3

LEMMA PrepareResponseMoves ==
  ASSUME TypeOK, NEW r \in Requests, PrepareResponse(r)
  PROVE  /\ pc[r] = "prepare"
         /\ resp'[r].decision = resp[r].decision /\ resp'[r].agentCode = resp[r].agentCode
         /\ \/ /\ pc'[r] = "log" /\ resp'[r].success = FALSE
               /\ resp[r].decision \notin CompleteSuccess
               /\ resp'[r].amount # NoAmount =>
                    \/ resp'[r].amount = resp[r].amount
                    \/ /\ resp[r].decision = "SUCESS_REDIRECT_TO_PORTAL"
                       /\ Met(r, "unparsable")
               /\ Untroubled(r) \/ Met(r, "unparsable")
            \/ /\ pc'[r] = "log" /\ resp'[r].success = TRUE /\ UNCHANGED faults
               /\ resp[r].decision = "SUCESS_REDIRECT_TO_PORTAL"
               /\ resp'[r].amount \in PortalAmount(r)
            \/ /\ resp[r].decision \in CompleteSuccess /\ resp'[r].amount = resp[r].amount
               /\ \/ pc'[r] = "notifySuccess" /\ resp'[r].success = TRUE /\ UNCHANGED faults
                  \/ pc'[r] = "log" /\ resp'[r].success = FALSE /\ Met(r, "unparsable")
<1>1. pc[r] = "prepare"
  BY DEF PrepareResponse
<1>2. ASSUME NEW s, NEW u, resp' = [resp EXCEPT ![r].success = s, ![r].rurl = u]
      PROVE  /\ resp'[r].success = s /\ resp'[r].amount = resp[r].amount
             /\ resp'[r].decision = resp[r].decision /\ resp'[r].agentCode = resp[r].agentCode
  BY <1>2 DEF TypeOK, ResponseType
<1>priced. ASSUME NEW s, NEW u, NEW a,
                  resp' = [resp EXCEPT ![r].success = s, ![r].rurl = u, ![r].amount = a]
           PROVE  /\ resp'[r].success = s /\ resp'[r].amount = a
                  /\ resp'[r].decision = resp[r].decision /\ resp'[r].agentCode = resp[r].agentCode
  BY <1>priced DEF TypeOK, ResponseType
<1>3. Throw(r) => Moved(r, "log", resp[r].decision, FALSE) /\ Kept(r)
  BY ThrowMoves
<1>4. UNCHANGED faults => Untroubled(r)
  BY DEF Untroubled
<1>5. FailPromoParameters(r) => Goto(r, "log") /\ Met(r, "unparsable")
  BY FaultMet DEF FailPromoParameters
<1>6. CASE resp[r].decision = "none"
  <2>1. Throw(r) /\ UNCHANGED faults
    BY <1>6 DEF PrepareResponse, CompleteSuccess
  <2> QED
    BY <1>1, <1>3, <1>4, <1>6, <2>1 DEF Moved, Kept, CompleteSuccess
<1>7. CASE resp[r].decision = "SUCESS_REDIRECT_TO_PORTAL"
  <2>1. PreparePortal(r) /\ resp[r].decision \notin CompleteSuccess
    BY <1>7 DEF PrepareResponse, CompleteSuccess
  <2>2. CASE Throw(r) /\ UNCHANGED faults
    BY <1>1, <1>3, <1>4, <2>1, <2>2 DEF Moved, Kept
  <2>3. CASE /\ Goto(r, "log")
             /\ resp' = [resp EXCEPT ![r].success = FALSE, ![r].rurl = "portal"]
             /\ UNCHANGED faults
    <3>1. /\ resp'[r].success = FALSE /\ resp'[r].amount = resp[r].amount
          /\ resp'[r].decision = resp[r].decision /\ resp'[r].agentCode = resp[r].agentCode
      BY <2>3, <1>2
    <3> QED
      BY <1>1, <1>4, <2>1, <2>3, <3>1, GotoEffect
  <2>4. ASSUME NEW a \in PortalAmount(r), Goto(r, "log"), UNCHANGED faults,
               resp' = [resp EXCEPT ![r].success = TRUE, ![r].rurl = "portal", ![r].amount = a]
        PROVE  /\ pc'[r] = "log" /\ resp'[r].success = TRUE /\ UNCHANGED faults
               /\ resp'[r].amount \in PortalAmount(r)
               /\ resp'[r].decision = resp[r].decision /\ resp'[r].agentCode = resp[r].agentCode
    <3>1. /\ resp'[r].success = TRUE /\ resp'[r].amount = a
          /\ resp'[r].decision = resp[r].decision /\ resp'[r].agentCode = resp[r].agentCode
      BY <2>4, <1>priced
    <3> QED
      BY <2>4, <3>1, GotoEffect
  <2>5. ASSUME NEW a \in PortalAmount(r), FailPromoParameters(r),
               resp' = [resp EXCEPT ![r].success = FALSE, ![r].rurl = "portal", ![r].amount = a]
        PROVE  /\ pc'[r] = "log" /\ resp'[r].success = FALSE /\ Met(r, "unparsable")
               /\ resp'[r].decision = resp[r].decision /\ resp'[r].agentCode = resp[r].agentCode
    <3>1. /\ resp'[r].success = FALSE /\ resp'[r].amount = a
          /\ resp'[r].decision = resp[r].decision /\ resp'[r].agentCode = resp[r].agentCode
      BY <2>5, <1>priced
    <3> QED
      BY <1>5, <2>5, <3>1, GotoEffect
  <2> QED
    BY <1>1, <1>7, <2>1, <2>2, <2>3, <2>4, <2>5 DEF PreparePortal
<1>8. CASE resp[r].decision \in CompleteSuccess
  <2>1. PrepareSuccess(r)
    BY <1>8 DEF PrepareResponse, CompleteSuccess
  <2>2. CASE /\ Goto(r, "notifySuccess") /\ UNCHANGED faults
             /\ resp' = [resp EXCEPT ![r].success = TRUE, ![r].rurl = "lob"]
    <3>1. /\ resp'[r].success = TRUE /\ resp'[r].amount = resp[r].amount
          /\ resp'[r].decision = resp[r].decision /\ resp'[r].agentCode = resp[r].agentCode
      BY <2>2, <1>2
    <3> QED
      BY <1>1, <1>8, <2>2, <3>1, GotoEffect
  <2>3. CASE /\ FailPromoParameters(r)
             /\ resp' = [resp EXCEPT ![r].success = FALSE, ![r].rurl = "lob"]
    <3>1. /\ resp'[r].success = FALSE /\ resp'[r].amount = resp[r].amount
          /\ resp'[r].decision = resp[r].decision /\ resp'[r].agentCode = resp[r].agentCode
      BY <2>3, <1>2
    <3> QED
      BY <1>1, <1>5, <1>8, <2>3, <3>1, GotoEffect
  <2> QED
    BY <2>1, <2>2, <2>3 DEF PrepareSuccess
<1>9. CASE resp[r].decision \notin CompleteSuccess \cup {"none", "SUCESS_REDIRECT_TO_PORTAL"}
  <2>1. PrepareFailure(r)
    BY <1>9 DEF PrepareResponse
  <2>2. /\ resp'[r].success = FALSE /\ resp'[r].amount = resp[r].amount
        /\ resp'[r].decision = resp[r].decision /\ resp'[r].agentCode = resp[r].agentCode
    BY <1>2, <2>1 DEF PrepareFailure
  <2>3. Goto(r, "log") /\ (Untroubled(r) \/ Met(r, "unparsable"))
    BY <1>4, <1>5, <2>1 DEF PrepareFailure
  <2> QED
    BY <1>1, <1>9, <2>2, <2>3, GotoEffect
<1> QED
  BY <1>6, <1>7, <1>8, <1>9

LEMMA DispatchMoves ==
  ASSUME TypeOK, NEW r \in Requests, Dispatch(r)
  PROVE  /\ pc[r] = "dispatch"
         /\ \/ /\ Moved(r, "done", resp[r].decision, resp[r].success) /\ Kept(r)
               /\ UNCHANGED faults
            \/ /\ Moved(r, "initPayment", resp[r].decision, resp[r].success) /\ Kept(r)
               /\ UNCHANGED faults /\ resp[r].decision = "SUCESS_REDIRECT_TO_PORTAL"
            \/ /\ Moved(r, "done", "none", FALSE) /\ resp'[r].amount = NoAmount
               /\ Met(r, "logRejected")
<1>1. pc[r] = "dispatch"
  BY DEF Dispatch
<1>2. CASE req[r].initPayment /\ resp[r].decision = "SUCESS_REDIRECT_TO_PORTAL"
  <2>1. LogOrAbandon(r, "initPayment")
    BY <1>2 DEF Dispatch
  <2> QED
    BY <1>1, <1>2, <2>1, LogOrAbandonMoves
<1>3. CASE ~(req[r].initPayment /\ resp[r].decision = "SUCESS_REDIRECT_TO_PORTAL")
  <2>1. Goto(r, "done") /\ UNCHANGED <<resp, faults>>
    BY <1>3 DEF Dispatch
  <2> QED
    BY <1>1, <2>1, GotoMoves
<1> QED
  BY <1>2, <1>3

LEMMA InitPaymentMoves ==
  ASSUME TypeOK, NEW r \in Requests, InitPayment(r)
  PROVE  /\ pc[r] = "initPayment" /\ pc'[r] = "logResult" /\ Kept(r)
         /\ resp'[r].decision = resp[r].decision
         /\ \/ /\ portal'[r] = "initiated" /\ resp[r].amount # NoAmount
               /\ \/ resp'[r].success = resp[r].success /\ UNCHANGED faults
                  \/ resp'[r].success \in {FALSE, resp[r].success} /\ Met(r, "portalReply")
            \/ /\ UNCHANGED portal /\ resp'[r].success \in {FALSE, resp[r].success}
               /\ UNCHANGED faults \/ Met(r, "portalReply")
<1>1. pc[r] = "initPayment" /\ pc'[r] = "logResult"
  BY GotoEffect DEF InitPayment
<1>2. ASSUME NEW ok \in BOOLEAN, resp' = [resp EXCEPT ![r].success = @ /\ ok, ![r].rurl = "none"]
      PROVE  /\ resp'[r].success = (resp[r].success /\ ok) /\ Kept(r)
             /\ resp'[r].decision = resp[r].decision
  BY <1>2 DEF TypeOK, ResponseType, Kept
<1>3. resp[r].success \in BOOLEAN
  BY DEF TypeOK, ResponseType
<1>4. portal' = [portal EXCEPT ![r] = "initiated"] => portal'[r] = "initiated"
  BY DEF TypeOK
<1> DEFINE Initiate == resp[r].amount # NoAmount /\ portal' = [portal EXCEPT ![r] = "initiated"]
           Tell(ok) == resp' = [resp EXCEPT ![r].success = @ /\ ok, ![r].rurl = "none"]
<1>5. Initiate => portal'[r] = "initiated" /\ resp[r].amount # NoAmount
  BY <1>4
<1>6. Tell(TRUE) => /\ resp'[r].success = resp[r].success /\ Kept(r)
                     /\ resp'[r].decision = resp[r].decision
  BY <1>2, <1>3
<1>7. Tell(FALSE) => /\ resp'[r].success = FALSE /\ Kept(r)
                      /\ resp'[r].decision = resp[r].decision
  BY <1>2, <1>3
<1>8. UNCHANGED resp => /\ resp'[r].success = resp[r].success /\ Kept(r)
                        /\ resp'[r].decision = resp[r].decision
  BY DEF Kept
<1>9. Fault(r, "portalReply") => Met(r, "portalReply")
  BY FaultMet
<1>10. \/ UNCHANGED <<resp, portal, faults>>
       \/ Initiate /\ Tell(TRUE) /\ UNCHANGED faults
       \/ Tell(FALSE) /\ UNCHANGED <<portal, faults>>
       \/ (Initiate \/ UNCHANGED portal) /\ (Tell(FALSE) \/ UNCHANGED resp) /\ Fault(r, "portalReply")
  BY DEF InitPayment
<1> HIDE DEF Initiate, Tell
<1> QED
  BY <1>1, <1>5, <1>6, <1>7, <1>8, <1>9, <1>10

------------------------------------------------------------------------------
(* What a step of one request leaves alone. *)

LEMMA ApproachKeeps ==
  ASSUME NEW r \in Requests, Approach(r)
  PROVE  /\ UNCHANGED <<valid, settled, s2s, unblock, portal>>
         /\ pc[r] \in BeforeValidation
<1> USE DEF bean, outside, BeforeValidation, Early
<1>1. CASE LogRequest(r) \/ FetchBookingDetails(r) \/ SaveCard(r)
  BY <1>1 DEF LogRequest, FetchBookingDetails, SaveCard
<1>2. CASE WalletAuth(r)
  BY <1>2 DEF WalletAuth
<1>3. CASE GetWalletInfo(r)
  BY <1>3 DEF GetWalletInfo
<1>4. CASE ReAuth(r)
  BY <1>4 DEF ReAuth
<1>5. CASE GetWalletInfoAgain(r)
  BY <1>5 DEF GetWalletInfoAgain
<1>6. CASE ReverseHandshake(r)
  BY <1>6 DEF ReverseHandshake
<1>7. CASE FetchNoCostEmi(r)
  BY <1>7 DEF FetchNoCostEmi
<1>8. CASE BlockVoucher(r)
  BY <1>8 DEF BlockVoucher
<1> QED
  BY <1>1, <1>2, <1>3, <1>4, <1>5, <1>6, <1>7, <1>8 DEF Approach

(* From the validation on the request stays as it is. *)
LEMMA BeanKept ==
  ASSUME NEW r \in Requests, Step(r) \/ Unblock(r), ~Approach(r)
  PROVE  UNCHANGED req /\ (UNCHANGED valid \/ Validate(r))
<1> USE DEF bean
<1>1. CASE Validate(r)
  BY <1>1 DEF Validate
<1>2. CASE FullVoucher(r) \/ InsertNoCostEmiAudit(r) \/ FullIxigoMoney(r)
  BY <1>2 DEF FullVoucher, InsertNoCostEmiAudit, FullIxigoMoney
<1>3. CASE CaptureWallet(r) \/ ReverseCapture(r) \/ NotifyFailure(r)
  BY <1>3 DEF CaptureWallet, ReverseCapture, NotifyFailure
<1>4. CASE PostCheck(r) \/ PrepareResponse(r) \/ NotifySuccess(r)
  BY <1>4 DEF PostCheck, PrepareResponse, NotifySuccess
<1>5. CASE LogResponse(r) \/ Dispatch(r) \/ InitPayment(r) \/ LogResult(r) \/ Unblock(r)
  BY <1>5 DEF LogResponse, Dispatch, InitPayment, LogResult, Unblock
<1> QED
  BY <1>1, <1>2, <1>3, <1>4, <1>5 DEF Step, Approach

Undisturbed(q) ==
  /\ valid'[q] = valid[q] /\ s2s'[q] = s2s[q]
  /\ unblock'[q] = unblock[q] /\ faults'[q] = faults[q]

LEMMA ApproachFaults ==
  ASSUME TypeOK, NEW r \in Requests, Approach(r)
  PROVE  /\ faults'[r] = faults[r] \/ Met(r, "lostReply")
         /\ \A q \in Requests \ {r} : faults'[q] = faults[q]
<1>1. UNCHANGED faults \/ Fault(r, "lostReply")
  <2>1. CASE LogRequest(r) \/ FetchBookingDetails(r) \/ SaveCard(r)
    BY <2>1 DEF LogRequest, FetchBookingDetails, SaveCard, history
  <2>2. CASE WalletAuth(r)
    BY <2>2 DEF WalletAuth, DoWalletAuth
  <2>3. CASE ReAuth(r)
    BY <2>3 DEF ReAuth, DoWalletAuth
  <2>4. CASE GetWalletInfo(r) \/ GetWalletInfoAgain(r) \/ ReverseHandshake(r)
    BY <2>4 DEF GetWalletInfo, GetWalletInfoAgain, ReverseHandshake, history
  <2>5. CASE FetchNoCostEmi(r)
    BY <2>5 DEF FetchNoCostEmi, history
  <2>6. CASE BlockVoucher(r)
    BY <2>6 DEF BlockVoucher
  <2> QED
    BY <2>1, <2>2, <2>3, <2>4, <2>5, <2>6 DEF Approach
<1> QED
  BY <1>1, FaultMet

LEMMA OthersUndisturbed ==
  ASSUME TypeOK, NEW r \in Requests, Step(r) \/ Unblock(r), NEW q \in Requests \ {r}
  PROVE  Undisturbed(q)
<1> USE DEF Undisturbed
<1>fault. \A f : Fault(r, f) => faults'[q] = faults[q]
  BY FaultMet
<1>out. /\ UNCHANGED bean => valid'[q] = valid[q]
        /\ UNCHANGED outside => s2s'[q] = s2s[q] /\ unblock'[q] = unblock[q]
        /\ UNCHANGED history => faults'[q] = faults[q]
  BY DEF bean, outside, history
<1>unnoticed. \A i, d : RedeemedUnnoticed(r, i, d) => faults'[q] = faults[q]
  BY <1>fault DEF RedeemedUnnoticed
<1>log. \A l : LogOrAbandon(r, l) => faults'[q] = faults[q]
  BY <1>fault DEF LogOrAbandon
<1>unblock. \A u : unblock' = [unblock EXCEPT ![r] = u] => unblock'[q] = unblock[q]
  BY DEF TypeOK
<1>1. CASE Approach(r)
  BY <1>1, ApproachKeeps, ApproachFaults
<1>2. CASE Validate(r)
  BY <1>2, <1>out, ValidateMoves DEF Validate
<1>3. CASE FullVoucher(r)
  BY <1>3, <1>out, <1>unnoticed, <1>unblock DEF FullVoucher, StartUnblock
<1>4. CASE InsertNoCostEmiAudit(r)
  BY <1>4, <1>out DEF InsertNoCostEmiAudit
<1>5. CASE FullIxigoMoney(r)
  BY <1>5, <1>out, <1>unnoticed DEF FullIxigoMoney
<1>6. CASE CaptureWallet(r)
  BY <1>6, <1>out, <1>fault DEF CaptureWallet
<1>7. CASE ReverseCapture(r)
  BY <1>7, <1>out DEF ReverseCapture
<1>8. CASE NotifyFailure(r)
  BY <1>8, <1>out, ToldMoves DEF NotifyFailure
<1>9. CASE PostCheck(r)
  BY <1>9, <1>out DEF PostCheck
<1>10. CASE PrepareResponse(r)
  <2>1. UNCHANGED faults \/ FailPromoParameters(r)
    BY <1>10 DEF PrepareResponse, PreparePortal, PrepareSuccess, PrepareFailure
  <2> QED
    BY <1>10, <2>1, <1>out, <1>fault DEF PrepareResponse, FailPromoParameters
<1>11. CASE NotifySuccess(r)
  BY <1>11, <1>out, ToldMoves DEF NotifySuccess
<1>12. CASE LogResponse(r)
  BY <1>12, <1>out, <1>log DEF LogResponse
<1>13. CASE Dispatch(r)
  BY <1>13, <1>out, <1>log DEF Dispatch
<1>14. CASE InitPayment(r)
  BY <1>14, <1>out, <1>fault DEF InitPayment
<1>15. CASE LogResult(r)
  BY <1>15, <1>out, <1>log DEF LogResult
<1>16. CASE Unblock(r)
  BY <1>16, <1>out, <1>unblock DEF Unblock
<1> QED
  BY <1>1, <1>2, <1>3, <1>4, <1>5, <1>6, <1>7, <1>8, <1>9, <1>10, <1>11, <1>12, <1>13, <1>14,
     <1>15, <1>16 DEF Step, Approach
------------------------------------------------------------------------------
(* Amounts. *)

(* A verdict "paid in full" comes from credits less than two paise short   *)
(* of the total, or for a total under a rupee.                             *)
LEMMA VerdictIsEarned ==
  ASSUME NEW w \in Amount, NEW v \in Amount, NEW i \in Amount, NEW t \in Amount,
         TRUE \in ValidForFullRedemption(w, v, i, t)
  PROVE  t < w + v + i + 2 * Paisa \/ t < Rupee
<1>1. PICK redeemed \in SumOfCredits(w, v, i), floor \in FloorTillTwoDecimalPlaces(t) :
        redeemed >= floor
  BY DEF ValidForFullRedemption
<1> DEFINE sum == w + v + i
<1>2. sum \in Int
  BY DEF Amount
<1>sum. SumOfCredits(w, v, i) \subseteq {sum - 1, sum, sum + 1}
  <2> HIDE DEF sum
  <2> QED
    BY DEF SumOfCredits, sum
<1> HIDE DEF sum
<1>5. redeemed \in Int /\ redeemed <= sum + 1
  BY <1>2, <1>sum
<1>3. CASE t < Rupee
  BY <1>3
<1>4. CASE ~(t < Rupee)
  <2>1. floor \in {DownToPaisa(t), DownToPaisa(t - Hair(t))}
    BY <1>4 DEF FloorTillTwoDecimalPlaces
  <2>2. Hair(t) \in {0, 1}
    BY DEF Hair
  <2>3. \A n \in Int : DownToPaisa(n) \in Int /\ DownToPaisa(n) > n - Paisa
    BY DEF DownToPaisa, Paisa
  <2>4. t - Hair(t) \in Int /\ t - Hair(t) >= t - 1 /\ t \in Int
    BY <2>2 DEF Amount
  <2>5. floor \in Int /\ floor > t - 1 - Paisa
    BY <2>1, <2>3, <2>4 DEF Paisa
  <2> QED
    <3>1. t < sum + 2 * Paisa
      BY <1>1, <1>2, <1>5, <2>4, <2>5 DEF Paisa
    <3> QED
      BY <3>1 DEF sum
<1> QED
  BY <1>3, <1>4

LEMMA CreditsTyped ==
  ASSUME TypeOK, NEW r \in Requests
  PROVE  /\ WalletPart(r) \in Amount /\ req[r].voucherRedeemed \in Amount
         /\ req[r].ixigoMoney \in Amount /\ valid[r].total \in Amount
<1>1. req[r] \in RequestType /\ valid[r] \in ValidationType
  BY DEF TypeOK
<1> QED
  BY <1>1 DEF RequestType, ValidationType, WalletPart, Amount

LEMMA FullPaymentIsEnough ==
  ASSUME TypeOK, NEW r \in Requests,
         \/ TRUE \in FullVoucherPayment(r)
         \/ TRUE \in FullIxigoMoneyPayment(r)
         \/ TRUE \in FullWalletPayment(r)
  PROVE  Enough(r) /\ resp[r].success = TRUE
<1>0. resp[r].success \in BOOLEAN
  BY DEF TypeOK, ResponseType
<1>1. CASE TRUE \in FullVoucherPayment(r)
  <2>1. /\ resp[r].success
        /\ TRUE \in ValidForFullRedemption(WalletPart(r), req[r].voucherRedeemed,
                                           req[r].ixigoMoney, valid[r].total)
    BY <1>1 DEF FullVoucherPayment
  <2> QED
    BY <1>0, <2>1, CreditsTyped, VerdictIsEarned DEF Enough, Credits
<1>2. CASE TRUE \in FullIxigoMoneyPayment(r)
  <2>1. /\ resp[r].success
        /\ TRUE \in ValidForFullRedemption(WalletPart(r), 0, req[r].ixigoMoney, valid[r].total)
    BY <1>2 DEF FullIxigoMoneyPayment
  <2>2. valid[r].total < WalletPart(r) + 0 + req[r].ixigoMoney + 2 * Paisa \/ valid[r].total < Rupee
    BY <2>1, CreditsTyped, VerdictIsEarned DEF Amount
  <2> QED
    BY <1>0, <2>1, <2>2, CreditsTyped DEF Enough, Credits, Amount, Paisa
<1>3. CASE TRUE \in FullWalletPayment(r)
  <2>1. /\ resp[r].success /\ WalletPart(r) = req[r].walletInfo
        /\ TRUE \in ValidForFullRedemption(WalletPart(r), 0, 0, valid[r].total)
    BY <1>3 DEF FullWalletPayment, WalletPart
  <2>2. valid[r].total < WalletPart(r) + 0 + 0 + 2 * Paisa \/ valid[r].total < Rupee
    BY <2>1, CreditsTyped, VerdictIsEarned DEF Amount
  <2> QED
    BY <1>0, <2>1, <2>2, CreditsTyped DEF Enough, Credits, Amount, Paisa
<1> QED
  BY <1>1, <1>2, <1>3

------------------------------------------------------------------------------
(* Each step keeps the account of its request. *)

LEMMA BillKept ==
  ASSUME UNCHANGED <<req, valid>>, NEW r \in Requests
  PROVE  (Enough(r)' <=> Enough(r)) /\ PortalAmount(r)' = PortalAmount(r)
BY DEF Enough, Credits, PortalAmount, WalletPart

LEMMA ApproachSafe ==
  ASSUME TypeOK, RequestInv, NEW r \in Requests, Account(r), Approach(r)
  PROVE  Account(r)'
<1>1. /\ settled[r] = {} /\ resp[r].amount = NoAmount /\ portal[r] = "none"
      /\ s2s[r] = <<>> /\ unblock[r] = "idle" /\ faults[r] = {}
      /\ resp[r].decision = "none" /\ resp[r].success = FALSE
  BY ApproachKeeps DEF RequestInv, Collected, Account, Fresh, BeforeValidation, Early, Late
<1>2. /\ settled'[r] = {} /\ s2s'[r] = <<>> /\ unblock'[r] = "idle" /\ portal'[r] = "none"
      /\ resp'[r].amount = NoAmount /\ resp'[r].success = FALSE
      /\ \/ pc'[r] \in BeforeValidation /\ resp'[r].decision = "none" /\ faults'[r] = {}
         \/ /\ pc'[r] \in {"postCheck", "prepare", "audit"}
            /\ resp'[r].decision \in {"none", "REFUSED"} /\ faults'[r] = {}
         \/ pc'[r] = "log" /\ resp'[r].decision = "none"
  BY <1>1, ApproachMoves, ApproachKeeps DEF Approached, Refusing, Moved, Kept, Untroubled
<1> USE <1>2 DEF BeforeValidation, Early, Late
<1>3. Fresh(r)'
  BY DEF Fresh
<1>4. Validated(r)' /\ Redeemed(r)'
  BY DEF Validated, Redeemed, CompleteSuccess
<1>5. Told(r)'
  BY DEF Told, CompleteSuccess
<1>6. Taken(r)' /\ Handing(r)'
  BY DEF Taken, Handing
<1> QED
  BY <1>3, <1>4, <1>5, <1>6 DEF Account

LEMMA ValidateSafe ==
  ASSUME TypeOK, RequestInv, NEW r \in Requests, Account(r), Validate(r)
  PROVE  Account(r)'
<1>1. /\ settled[r] = {} /\ resp[r].amount = NoAmount /\ portal[r] = "none"
      /\ s2s[r] = <<>> /\ unblock[r] = "idle" /\ faults[r] = {}
      /\ resp[r].decision = "none" /\ resp[r].success = FALSE
  BY ValidateMoves DEF RequestInv, Collected, Account, Fresh, BeforeValidation, Early, Late
<1>2. /\ settled'[r] = {} /\ s2s'[r] = <<>> /\ unblock'[r] = "idle" /\ portal'[r] = "none"
  BY <1>1 DEF Validate, outside
<1>3. /\ resp'[r].amount = NoAmount /\ faults'[r] = {}
      /\ \/ /\ pc'[r] \in {"audit", "log"} /\ resp'[r].success = FALSE
            /\ resp'[r].decision \in {"none", "VALIDATION_FAILURE", "REFUSED"}
         \/ /\ pc'[r] = "fullVoucher" /\ resp'[r].decision = "SUCESS_REDIRECT_TO_PORTAL"
            /\ resp'[r].success = TRUE /\ valid'[r].got
  BY <1>1, ValidateMoves DEF Moved, Kept, Untroubled
<1> USE <1>2, <1>3 DEF BeforeValidation, Early, Late
<1>4. Fresh(r)'
  BY DEF Fresh
<1>5. Validated(r)' /\ Redeemed(r)'
  BY DEF Validated, Redeemed, CompleteSuccess
<1>6. Told(r)'
  BY DEF Told, CompleteSuccess
<1>7. Taken(r)' /\ Handing(r)'
  BY DEF Taken, Handing
<1> QED
  BY <1>4, <1>5, <1>6, <1>7 DEF Account

(* A redemption just made or refused: nothing had been settled or told     *)
(* before it.                                                              *)
LEMMA FullVoucherSafe ==
  ASSUME TypeOK, RequestInv, NEW r \in Requests, Account(r), FullVoucher(r)
  PROVE  Account(r)'
<1>1. /\ settled[r] = {} /\ resp[r].amount = NoAmount /\ portal[r] = "none"
      /\ s2s[r] = <<>> /\ unblock[r] = "idle" /\ faults[r] = {}
  BY FullVoucherMoves DEF RequestInv, Collected, Account, Fresh, Early, Late
<1>2. UNCHANGED <<req, valid, s2s, portal>>
  BY DEF FullVoucher, bean
<1>3. resp'[r].amount = NoAmount /\ s2s'[r] = <<>> /\ portal'[r] = "none"
  BY <1>1, <1>2, FullVoucherMoves DEF Kept
<1>4. TRUE \in FullVoucherPayment(r) => Enough(r)' /\ resp[r].success = TRUE /\ req'[r].paymentOption = "gv"
  BY <1>2, FullPaymentIsEnough, BillKept DEF FullVoucherPayment
<1>5. \/ /\ pc'[r] = "audit" /\ resp'[r].decision = resp[r].decision
         /\ resp'[r].success = resp[r].success
         /\ settled'[r] = {} /\ unblock'[r] = "idle" /\ faults'[r] = {}
      \/ /\ TRUE \in FullVoucherPayment(r)
         /\ \/ /\ pc'[r] = "audit" /\ resp'[r].decision = "COMPLETE_VOUCHER_SUCCESS"
               /\ settled'[r] = {"gv"} /\ unblock'[r] = "idle" /\ faults'[r] = {}
            \/ /\ pc'[r] = "log" /\ resp'[r].success = FALSE
               /\ resp'[r].decision \in {resp[r].decision, "COMPLETE_VOUCHER_SUCCESS"}
               /\ settled'[r] = {"gv"} /\ unblock'[r] = "idle" /\ faults'[r] = {"lostReply"}
            \/ /\ pc'[r] = "notifyFailure" /\ resp'[r].decision = resp[r].decision
               /\ settled'[r] = {} /\ unblock'[r] = "running" /\ faults'[r] = {}
            \/ /\ pc'[r] = "log" /\ resp'[r].success = FALSE
               /\ resp'[r].decision = resp[r].decision
               /\ settled'[r] = {} /\ unblock'[r] = "idle" /\ faults'[r] = {}
  BY <1>1, FullVoucherMoves DEF Moved, Met
<1>6. Validated(r) /\ Redeemed(r)
  BY DEF Account
<1>7. resp[r].decision \notin CompleteSuccess
  BY <1>1, <1>6 DEF Redeemed
<1> HIDE DEF Account
<1> USE <1>3, <1>4, <1>5 DEF BeforeValidation, Early, Late
<1>8. Fresh(r)'
  BY DEF Fresh
<1>9. Validated(r)'
  BY <1>2, <1>6 DEF Validated
<1>10. Redeemed(r)'
  BY <1>7 DEF Redeemed, CompleteSuccess, InstrumentOf, Reversing
<1>11. Told(r)'
  BY <1>7 DEF Told, CompleteSuccess
<1>12. Taken(r)'
  BY DEF Taken
<1>13. Handing(r)'
  BY DEF Handing
<1> QED
  BY <1>8, <1>9, <1>10, <1>11, <1>12, <1>13 DEF Account

LEMMA AuditSafe ==
  ASSUME TypeOK, RequestInv, NEW r \in Requests, Account(r), InsertNoCostEmiAudit(r)
  PROVE  Account(r)'
<1>1. /\ resp[r].amount = NoAmount /\ portal[r] = "none" /\ pc[r] = "audit" /\ faults[r] = {}
  BY DEF InsertNoCostEmiAudit, RequestInv, Collected, Account, Fresh, Late, Reversing
<1>2. UNCHANGED <<req, valid, s2s, portal, settled, unblock, faults>>
  BY DEF InsertNoCostEmiAudit, bean, outside, history
<1>3. /\ Kept(r) /\ resp'[r].decision = resp[r].decision
      /\ \/ pc'[r] = "fullIxigo" /\ resp'[r].success = resp[r].success
         \/ /\ pc'[r] = "log" /\ resp'[r].success = FALSE
            /\ resp[r].decision = "SUCESS_REDIRECT_TO_PORTAL"
  BY GotoMoves, ThrowMoves DEF InsertNoCostEmiAudit, Moved
<1>4. Enough(r)' <=> Enough(r)
  BY <1>2, BillKept
<1> USE <1>1, <1>2, <1>3, <1>4 DEF Early, BeforeValidation, Late, Kept
<1>5. Fresh(r)' /\ Validated(r)'
  BY DEF Account, Fresh, Validated
<1>6. Redeemed(r)'
  BY DEF Account, Redeemed, CompleteSuccess, Reversing
<1>7. Told(r)'
  BY DEF Account, Told, GoesOnRefused, CompleteSuccess, Failures
<1>8. Taken(r)'
  BY DEF Account, Taken, Redeemed, CompleteSuccess, Reversing
<1>9. Handing(r)'
  BY DEF Account, Handing, Failures
<1> QED
  BY <1>5, <1>6, <1>7, <1>8, <1>9 DEF Account

LEMMA FullIxigoMoneySafe ==
  ASSUME TypeOK, RequestInv, NEW r \in Requests, Account(r), FullIxigoMoney(r)
  PROVE  Account(r)'
<1>1. /\ resp[r].amount = NoAmount /\ portal[r] = "none" /\ pc[r] = "fullIxigo" /\ faults[r] = {}
  BY DEF FullIxigoMoney, RequestInv, Collected, Account, Fresh, Late, Reversing
<1>2. UNCHANGED <<req, valid, s2s, portal, unblock>>
  BY DEF FullIxigoMoney, bean
<1>3. Enough(r)' <=> Enough(r)
  BY <1>2, BillKept
<1>4. CASE /\ Moved(r, "fullWallet", resp[r].decision, resp[r].success) /\ Kept(r)
           /\ UNCHANGED <<settled, faults>>
  <2> USE <1>1, <1>2, <1>3, <1>4 DEF Early, BeforeValidation, Late, Kept, Moved
  <2>1. Fresh(r)' /\ Validated(r)'
    BY DEF Account, Fresh, Validated
  <2>2. Redeemed(r)'
    BY DEF Account, Redeemed, CompleteSuccess, Reversing
  <2>3. Told(r)'
    BY DEF Account, Told, GoesOnRefused, CompleteSuccess, Failures
  <2>4. Taken(r)'
    BY DEF Account, Taken
  <2>5. Handing(r)'
    BY DEF Account, Handing, Failures
  <2> QED
    BY <2>1, <2>2, <2>3, <2>4, <2>5 DEF Account
<1>5. CASE TRUE \in FullIxigoMoneyPayment(r)
  <2>1. req[r].paymentOption = "ixigoMoney" /\ resp[r].success = TRUE /\ Enough(r)
    BY <1>5, FullPaymentIsEnough DEF FullIxigoMoneyPayment
  <2>2. settled[r] = {}
    BY <1>1, <2>1 DEF RequestInv, Collected, Account, Redeemed
  <2>3. s2s[r] = <<>>
    BY <1>1, <2>1 DEF Account, Told, GoesOnRefused, Late
  <2>4. unblock[r] = "idle"
    BY <2>1 DEF Account, Handing
  <2>5. valid[r].got /\ resp[r].decision \notin CompleteSuccess
    BY <2>1, <2>2 DEF Account, Validated, Redeemed
  <2>6. /\ resp'[r].amount = NoAmount
        /\ \/ /\ pc'[r] = "fullWallet" /\ settled'[r] = {} /\ faults'[r] = {}
              /\ resp'[r].decision = resp[r].decision
           \/ /\ pc'[r] = "fullWallet" /\ settled'[r] = {"ixigoMoney"} /\ faults'[r] = {}
              /\ resp'[r].decision = "COMPLETE_IXIGO_PAYMENT_SUCCESS"
           \/ /\ pc'[r] = "log" /\ settled'[r] = {"ixigoMoney"} /\ faults'[r] = {"lostReply"}
              /\ resp'[r].decision \in {resp[r].decision, "COMPLETE_IXIGO_PAYMENT_SUCCESS"}
              /\ resp'[r].success = FALSE
           \/ /\ pc'[r] = "notifyFailure" /\ settled'[r] = {} /\ faults'[r] = {}
              /\ resp'[r].decision = resp[r].decision
           \/ /\ pc'[r] = "log" /\ settled'[r] = {} /\ faults'[r] = {}
              /\ resp'[r].decision = resp[r].decision /\ resp'[r].success = FALSE
    BY <1>1, <2>2, FullIxigoMoneyMoves DEF Moved, Met, Kept
  <2> HIDE DEF Account
  <2> USE <1>1, <1>2, <1>3, <2>1, <2>3, <2>4, <2>5, <2>6 DEF Early, BeforeValidation, Late
  <2>7. Fresh(r)' /\ Validated(r)'
    BY DEF Fresh, Validated
  <2>8. Redeemed(r)'
    BY DEF Redeemed, CompleteSuccess, InstrumentOf, Reversing
  <2>9. Told(r)'
    BY DEF Told, CompleteSuccess
  <2>10. Taken(r)' /\ Handing(r)'
    BY DEF Taken, Handing
  <2> QED
    BY <2>7, <2>8, <2>9, <2>10 DEF Account
<1> QED
  BY <1>4, <1>5, FullIxigoMoneyMoves

LEMMA CaptureWalletSafe ==
  ASSUME TypeOK, RequestInv, NEW r \in Requests, Account(r), CaptureWallet(r)
  PROVE  Account(r)'
<1>1. /\ resp[r].amount = NoAmount /\ portal[r] = "none" /\ pc[r] = "fullWallet" /\ faults[r] = {}
  BY DEF CaptureWallet, RequestInv, Collected, Account, Fresh, Late, Reversing
<1>2. UNCHANGED <<req, valid, s2s, portal, unblock>>
  BY DEF CaptureWallet, bean
<1>3. Enough(r)' <=> Enough(r)
  BY <1>2, BillKept
<1>4. CASE /\ Moved(r, "postCheck", resp[r].decision, resp[r].success) /\ Kept(r)
           /\ UNCHANGED <<settled, faults>>
  <2> USE <1>1, <1>2, <1>3, <1>4 DEF Early, BeforeValidation, Late, Kept, Moved
  <2>1. Fresh(r)' /\ Validated(r)'
    BY DEF Account, Fresh, Validated
  <2>2. Redeemed(r)'
    BY DEF Account, Redeemed, CompleteSuccess, Reversing
  <2>3. Told(r)'
    BY DEF Account, Told, GoesOnRefused, CompleteSuccess, Failures
  <2>4. Taken(r)'
    BY DEF Account, Taken
  <2>5. Handing(r)'
    BY DEF Account, Handing, Failures
  <2> QED
    BY <2>1, <2>2, <2>3, <2>4, <2>5 DEF Account
<1>5. CASE TRUE \in FullWalletPayment(r)
  <2>1. req[r].paymentOption = "ew" /\ resp[r].success = TRUE /\ Enough(r)
    BY <1>5, FullPaymentIsEnough DEF FullWalletPayment
  <2>2. settled[r] = {}
    BY <1>1, <2>1 DEF RequestInv, Collected, Account, Redeemed
  <2>3. s2s[r] = <<>>
    BY <1>1, <2>1 DEF Account, Told, GoesOnRefused, Late
  <2>4. unblock[r] = "idle"
    BY <2>1 DEF Account, Handing
  <2>5. valid[r].got /\ resp[r].decision \notin CompleteSuccess
    BY <2>1, <2>2 DEF Account, Validated, Redeemed
  <2>6. /\ resp'[r].amount = NoAmount /\ resp'[r].success = TRUE
        /\ \/ /\ pc'[r] = "postCheck" /\ settled'[r] = {} /\ faults'[r] = {}
              /\ resp'[r].decision = resp[r].decision
           \/ /\ pc'[r] = "postCheck" /\ settled'[r] = {"ew"} /\ faults'[r] = {}
              /\ resp'[r].decision = "COMPLETE_WALLET_SUCCESS"
           \/ /\ pc'[r] = "reverseCapture" /\ settled'[r] = {"ew"} /\ faults'[r] = {"lostReply"}
              /\ resp'[r].decision = resp[r].decision
           \/ /\ pc'[r] = "reverseCapture" /\ settled'[r] = {} /\ faults'[r] = {}
              /\ resp'[r].decision = resp[r].decision
    BY <1>1, <2>1, <2>2, CaptureWalletMoves DEF Moved, Met, Kept
  <2> USE <1>1, <1>2, <1>3, <2>1, <2>3, <2>4, <2>5, <2>6
      DEF Early, BeforeValidation, Late, Reversing
  <2>7. Fresh(r)' /\ Validated(r)'
    BY DEF Fresh, Validated
  <2>8. Redeemed(r)'
    BY DEF Redeemed, CompleteSuccess, InstrumentOf
  <2>9. Told(r)'
    BY DEF Told, CompleteSuccess
  <2>10. Taken(r)' /\ Handing(r)'
    BY DEF Taken, Handing
  <2> QED
    BY <2>7, <2>8, <2>9, <2>10 DEF Account
<1> QED
  BY <1>4, <1>5, CaptureWalletMoves

LEMMA ReverseCaptureSafe ==
  ASSUME TypeOK, RequestInv, NEW r \in Requests, Account(r), ReverseCapture(r)
  PROVE  Account(r)'
<1>1. /\ resp[r].amount = NoAmount /\ portal[r] = "none" /\ pc[r] = "reverseCapture"
  BY DEF ReverseCapture, RequestInv, Collected, Late
<1>2. UNCHANGED <<req, valid, resp, s2s, portal, settled, unblock, faults>>
  BY DEF ReverseCapture, bean, history
<1>3. pc'[r] = "notifyFailure"
  BY GotoEffect DEF ReverseCapture
<1>4. Enough(r)' <=> Enough(r)
  BY <1>2, BillKept
<1> USE <1>1, <1>2, <1>3, <1>4 DEF Early, BeforeValidation, Late, Reversing
<1>5. Fresh(r)' /\ Validated(r)'
  BY DEF Account, Fresh, Validated
<1>6. Redeemed(r)'
  BY DEF Account, Redeemed, CompleteSuccess
<1>7. Told(r)'
  BY DEF Account, Told, GoesOnRefused, CompleteSuccess, Failures
<1>8. Taken(r)' /\ Handing(r)'
  BY DEF Account, Taken, Handing
<1> QED
  BY <1>5, <1>6, <1>7, <1>8 DEF Account

LEMMA NotifyFailureSafe ==
  ASSUME TypeOK, RequestInv, NEW r \in Requests, Account(r), NotifyFailure(r)
  PROVE  Account(r)'
<1>1. /\ resp[r].amount = NoAmount /\ portal[r] = "none" /\ pc[r] = "notifyFailure"
      /\ s2s[r] = <<>>
      /\ settled[r] # {} => "lostReply" \in faults[r] /\ Enough(r)
      /\ faults[r] # {} => req[r].paymentOption = "ew"
      /\ unblock[r] # "idle" => req[r].paymentOption = "gv"
  BY DEF NotifyFailure, RequestInv, Collected, Account, Fresh, Redeemed, Told, GoesOnRefused,
         Handing, Late, Reversing
<1>2. UNCHANGED <<req, valid, portal, settled, unblock, faults>>
  BY DEF NotifyFailure, bean, history
<1>3. s2s'[r] \in {<<>>, <<FALSE>>}
  BY <1>1, NotifyFailureMoves, ToldMoves
<1>4. Enough(r)' <=> Enough(r)
  BY <1>2, BillKept
<1>5. /\ Kept(r)
      /\ \/ /\ req[r].paymentOption = "gv"
            /\ resp'[r].decision = "COMPLETE_GV_PAYMENT_FAILURE"
            /\ \/ pc'[r] = "audit" /\ resp'[r].success = resp[r].success
               \/ pc'[r] = "log" /\ resp'[r].success = FALSE
         \/ /\ req[r].paymentOption = "ixigoMoney"
            /\ resp'[r].decision = "COMPLETE_IXIGO_PAYMENT_FAILURE"
            /\ \/ pc'[r] = "fullWallet" /\ resp'[r].success = resp[r].success
               \/ pc'[r] = "log" /\ resp'[r].success = FALSE
         \/ /\ req[r].paymentOption \notin {"gv", "ixigoMoney"}
            /\ pc'[r] = "log" /\ resp'[r].decision = resp[r].decision
            /\ resp'[r].success = FALSE
  BY NotifyFailureMoves DEF Moved
<1> USE <1>1, <1>2, <1>3, <1>4, <1>5 DEF Early, BeforeValidation, Late, Reversing, Kept
<1>6. Fresh(r)'
  BY DEF Fresh
<1>7. Validated(r)'
  BY DEF Account, Validated, CompleteSuccess
<1>8. Redeemed(r)'
  BY DEF Account, Redeemed, CompleteSuccess
<1>9. <<FALSE>> # <<>> /\ <<FALSE>> # <<TRUE>>
  OBVIOUS
<1>10. Told(r)'
  BY <1>9 DEF Told, GoesOnRefused, CompleteSuccess, Failures
<1>11. Taken(r)'
  BY DEF Taken
<1>12. Handing(r)'
  BY DEF Handing, Failures
<1> QED
  BY <1>6, <1>7, <1>8, <1>10, <1>11, <1>12 DEF Account

LEMMA PostCheckSafe ==
  ASSUME TypeOK, RequestInv, NEW r \in Requests, Account(r), PostCheck(r)
  PROVE  Account(r)'
<1>1. /\ resp[r].amount = NoAmount /\ portal[r] = "none" /\ pc[r] = "postCheck" /\ faults[r] = {}
      /\ settled[r] \subseteq {req[r].paymentOption} /\ settled[r] \subseteq Instruments
  BY DEF PostCheck, RequestInv, Collected, Account, Fresh, Late, Reversing, TypeOK
<1>2. UNCHANGED <<req, valid, s2s, portal, settled, unblock, faults>>
  BY DEF PostCheck, bean, outside
<1>3. Enough(r)' <=> Enough(r)
  BY <1>2, BillKept
<1>4. /\ settled[r] # {} => req[r].paymentOption \in Instruments
      /\ settled[r] # {} => resp[r].decision \in CompleteSuccess
      /\ s2s[r] = <<>> \/ (s2s[r] = <<FALSE>> /\ resp[r].decision \in Failures /\ GoesOnRefused(r))
  BY <1>1 DEF Account, Redeemed, Told, Reversing, Late
<1> USE <1>1, <1>2, <1>3, <1>4, PostCheckMoves DEF Early, BeforeValidation, Late, Moved
<1>5. Fresh(r)' /\ Validated(r)'
  BY DEF Account, Fresh, Validated, CompleteSuccess
<1>6. Redeemed(r)'
  BY DEF Account, Redeemed, CompleteSuccess, Reversing, Instruments
<1>7. Told(r)'
  BY DEF Account, Told, GoesOnRefused, CompleteSuccess, Failures
<1>8. Taken(r)'
  BY DEF Account, Taken, Instruments
<1>9. Handing(r)'
  BY DEF Account, Handing, Failures
<1> QED
  BY <1>5, <1>6, <1>7, <1>8, <1>9 DEF Account

LEMMA PrepareResponseSafe ==
  ASSUME TypeOK, RequestInv, NEW r \in Requests, Account(r), PrepareResponse(r)
  PROVE  Account(r)'
<1>1. /\ resp[r].amount = NoAmount /\ portal[r] = "none" /\ pc[r] = "prepare" /\ faults[r] = {}
  BY DEF PrepareResponse, RequestInv, Collected, Account, Fresh, Late, Reversing
<1>2. UNCHANGED <<req, valid, s2s, portal, settled, unblock>>
  BY DEF PrepareResponse, bean, outside
<1>3. (Enough(r)' <=> Enough(r)) /\ PortalAmount(r)' = PortalAmount(r)
  BY <1>2, BillKept
<1>4. /\ settled[r] # {} => Enough(r) /\ resp[r].decision \in CompleteSuccess
      /\ s2s[r] = <<>> \/ (s2s[r] = <<FALSE>> /\ resp[r].decision \in Failures)
      /\ settled[r] # {} => s2s[r] = <<>>
      /\ unblock[r] # "idle" => resp[r].decision \in Failures /\ req[r].paymentOption = "gv"
      /\ resp[r].decision \in CompleteSuccess => InstrumentOf(resp[r].decision) \in settled[r]
  BY <1>1 DEF Account, Redeemed, Told, Handing, Reversing, Late, Failures, CompleteSuccess
<1>5. /\ Validated(r)
      /\ req[r].paymentOption = "indifi" /\ resp[r].decision = "SUCESS_REDIRECT_TO_PORTAL"
           => resp[r].agentCode
  BY <1>1 DEF Account, Handing
<1>6. resp'[r].decision = resp[r].decision /\ resp'[r].agentCode = resp[r].agentCode
  BY PrepareResponseMoves
<1>7. CASE /\ pc'[r] = "log" /\ resp'[r].success = FALSE
           /\ resp[r].decision \notin CompleteSuccess
           /\ resp'[r].amount # NoAmount =>
                resp[r].decision = "SUCESS_REDIRECT_TO_PORTAL" /\ Met(r, "unparsable")
           /\ Untroubled(r) \/ Met(r, "unparsable")
  <2> USE <1>1, <1>2, <1>3, <1>4, <1>5, <1>6, <1>7 DEF Early, BeforeValidation, Late
  <2>1. settled[r] = {}
    OBVIOUS
  <2>2. Fresh(r)' /\ Validated(r)' /\ Redeemed(r)'
    BY <2>1 DEF Fresh, Validated, Redeemed
  <2>3. Told(r)'
    BY <2>1 DEF Told, Failures
  <2>4. Taken(r)'
    BY <2>1 DEF Taken, Met
  <2>5. Handing(r)'
    BY DEF Handing
  <2> QED
    BY <2>2, <2>3, <2>4, <2>5 DEF Account
<1>8. CASE /\ pc'[r] = "log" /\ resp'[r].success = TRUE /\ UNCHANGED faults
           /\ resp[r].decision = "SUCESS_REDIRECT_TO_PORTAL"
           /\ resp'[r].amount \in PortalAmount(r)
  <2> USE <1>1, <1>2, <1>3, <1>4, <1>5, <1>6, <1>8 DEF Early, BeforeValidation, Late
  <2>1. settled[r] = {} /\ s2s[r] = <<>> /\ unblock[r] = "idle"
    BY DEF CompleteSuccess, Failures
  <2>2. Fresh(r)' /\ Validated(r)' /\ Redeemed(r)'
    BY <2>1 DEF Fresh, Validated, Redeemed, CompleteSuccess
  <2>3. Told(r)'
    BY <2>1 DEF Told, CompleteSuccess
  <2>4. Taken(r)' /\ Handing(r)'
    BY <2>1 DEF Taken, Handing
  <2> QED
    BY <2>2, <2>3, <2>4 DEF Account
<1>9. CASE /\ resp[r].decision \in CompleteSuccess /\ resp'[r].amount = resp[r].amount
           /\ \/ pc'[r] = "notifySuccess" /\ resp'[r].success = TRUE /\ UNCHANGED faults
              \/ pc'[r] = "log" /\ resp'[r].success = FALSE /\ Met(r, "unparsable")
  <2> USE <1>1, <1>2, <1>3, <1>4, <1>5, <1>6, <1>9 DEF Early, BeforeValidation, Late
  <2>1. settled[r] # {} /\ s2s[r] = <<>> /\ unblock[r] = "idle"
    BY DEF CompleteSuccess, Failures
  <2>2. Fresh(r)' /\ Validated(r)' /\ Redeemed(r)'
    BY <2>1 DEF Fresh, Validated, Redeemed, Reversing, Met
  <2>3. Told(r)'
    BY <2>1 DEF Told
  <2>4. Taken(r)' /\ Handing(r)'
    BY <2>1 DEF Taken, Handing, Met, CompleteSuccess
  <2> QED
    BY <2>2, <2>3, <2>4 DEF Account
<1> QED
  BY <1>1, <1>7, <1>8, <1>9, PrepareResponseMoves

LEMMA NotifySuccessSafe ==
  ASSUME TypeOK, RequestInv, NEW r \in Requests, Account(r), NotifySuccess(r)
  PROVE  Account(r)'
<1>1. /\ resp[r].amount = NoAmount /\ portal[r] = "none" /\ pc[r] = "notifySuccess"
      /\ resp[r].decision \in CompleteSuccess /\ s2s[r] = <<>> /\ settled[r] # {}
      /\ unblock[r] = "idle" /\ faults[r] = {} /\ resp[r].success = TRUE
  BY DEF NotifySuccess, RequestInv, Collected, Account, Fresh, Redeemed, Told, Handing,
         GoesOnRefused, Late, Reversing
<1>2. /\ UNCHANGED <<req, valid, resp, portal, settled, unblock, faults>>
      /\ pc'[r] = "log"
  BY GotoEffect DEF NotifySuccess, bean, history
<1>3. s2s'[r] \in {<<>>, <<TRUE>>} /\ (valid[r].s2s => s2s'[r] = <<TRUE>>)
  BY <1>1, ToldMoves DEF NotifySuccess
<1>4. (Enough(r)' <=> Enough(r)) /\ resp[r].decision # "SUCESS_REDIRECT_TO_PORTAL"
  BY <1>1, <1>2, BillKept DEF CompleteSuccess
<1> USE <1>1, <1>2, <1>3, <1>4 DEF Early, BeforeValidation, Late
<1>6. Fresh(r)' /\ Validated(r)'
  BY DEF Account, Fresh, Validated
<1>7. Redeemed(r)'
  BY DEF Account, Redeemed, Reversing
<1>8. Told(r)'
  BY DEF Told
<1>9. Taken(r)' /\ Handing(r)'
  BY DEF Account, Taken, Handing
<1> QED
  BY <1>6, <1>7, <1>8, <1>9 DEF Account

(* From the log on the request only keeps or loses its answer.             *)
LEMMA LateSafe ==
  ASSUME TypeOK, RequestInv, NEW r \in Requests, Account(r),
         UNCHANGED <<req, valid, s2s, portal, settled, unblock>>,
         pc[r] \in Late, pc'[r] \in Late,
         \/ /\ resp'[r].success = resp[r].success /\ resp'[r].decision = resp[r].decision
            /\ Kept(r) /\ UNCHANGED faults
            /\ pc'[r] \in {"dispatch", "initPayment"} => pc[r] \in {"log", "dispatch", "initPayment"}
            /\ pc'[r] = "initPayment" => resp[r].decision = "SUCESS_REDIRECT_TO_PORTAL"
         \/ /\ pc'[r] = "done" /\ resp'[r].success = FALSE /\ resp'[r].decision = "none"
            /\ resp'[r].amount = NoAmount /\ Met(r, "logRejected"),
         pc'[r] # "log"
  PROVE  Account(r)'
<1>1. (Enough(r)' <=> Enough(r)) /\ PortalAmount(r)' = PortalAmount(r)
  BY BillKept
<1> USE <1>1 DEF Early, BeforeValidation, Late, Met, Kept
<1>2. Fresh(r)' /\ Validated(r)'
  BY DEF Account, Fresh, Validated, CompleteSuccess
<1>3. Redeemed(r)'
  BY DEF Account, Redeemed, CompleteSuccess
<1>4. Told(r)'
  BY DEF Account, Told, GoesOnRefused, CompleteSuccess
<1>5. Taken(r)'
  BY DEF Account, Taken
<1>6. Handing(r)'
  BY DEF Account, Handing
<1> QED
  BY <1>2, <1>3, <1>4, <1>5, <1>6 DEF Account

LEMMA LoggingSafe ==
  ASSUME TypeOK, RequestInv, NEW r \in Requests, Account(r),
         LogResponse(r) \/ Dispatch(r) \/ LogResult(r)
  PROVE  Account(r)'
<1>1. UNCHANGED <<req, valid, s2s, portal, settled, unblock>>
  BY DEF LogResponse, Dispatch, LogResult, bean, outside
<1>2. CASE LogResponse(r)
  BY <1>1, <1>2, LogOrAbandonMoves, LateSafe DEF LogResponse, Moved, Late
<1>3. CASE Dispatch(r)
  BY <1>1, <1>3, DispatchMoves, LateSafe DEF Moved, Late
<1>4. CASE LogResult(r)
  BY <1>1, <1>4, LogOrAbandonMoves, LateSafe DEF LogResult, Moved, Late
<1> QED
  BY <1>2, <1>3, <1>4

LEMMA InitPaymentSafe ==
  ASSUME TypeOK, RequestInv, NEW r \in Requests, Account(r), InitPayment(r)
  PROVE  Account(r)'
<1>1. /\ pc[r] = "initPayment" /\ portal[r] = "none"
      /\ resp[r].decision = "SUCESS_REDIRECT_TO_PORTAL"
      /\ settled[r] # {} => resp[r].amount = NoAmount /\ resp[r].success = FALSE
  BY InitPaymentMoves DEF RequestInv, Collected, Account, Taken, Reversing
<1>2. UNCHANGED <<req, valid, s2s, settled, unblock>>
  BY DEF InitPayment, bean
<1>3. (Enough(r)' <=> Enough(r)) /\ PortalAmount(r)' = PortalAmount(r)
  BY <1>2, BillKept
<1>4. resp[r].success \in BOOLEAN
  BY DEF TypeOK, ResponseType
<1> USE <1>1, <1>2, <1>3, <1>4, InitPaymentMoves
    DEF Early, BeforeValidation, Late, Met, Kept
<1>5. Fresh(r)' /\ Validated(r)'
  BY DEF Account, Fresh, Validated, CompleteSuccess
<1>6. Redeemed(r)'
  BY DEF Account, Redeemed, CompleteSuccess
<1>7. Told(r)'
  BY DEF Account, Told, GoesOnRefused, CompleteSuccess
<1>8. Taken(r)'
  BY DEF Account, Taken
<1>9. Handing(r)'
  BY DEF Account, Handing
<1> QED
  BY <1>5, <1>6, <1>7, <1>8, <1>9 DEF Account

LEMMA UnblockSafe ==
  ASSUME TypeOK, RequestInv, NEW r \in Requests, Account(r), Unblock(r)
  PROVE  Account(r)'
<1>1. UNCHANGED <<pc, req, valid, resp, settled, s2s, portal, faults>>
  BY DEF Unblock, bean, history
<1>2. unblock[r] # "idle"
  BY DEF Unblock
<1>3. (Enough(r)' <=> Enough(r)) /\ PortalAmount(r)' = PortalAmount(r)
  BY <1>1, BillKept
<1> USE <1>1, <1>2, <1>3
<1>4. Fresh(r)' /\ Validated(r)' /\ Redeemed(r)'
  BY DEF Account, Fresh, Validated, Redeemed
<1>5. Told(r)' /\ Taken(r)'
  BY DEF Account, Told, Taken, GoesOnRefused
<1>6. Handing(r)'
  BY DEF Account, Handing
<1> QED
  BY <1>4, <1>5, <1>6 DEF Account

------------------------------------------------------------------------------
(* The holds. *)

(* From the validation on a request does not go back to the wallet, keeps  *)
(* what it settled, and ends a reversal in a failed answer.                *)
LEMMA GoesOn ==
  ASSUME TypeOK, NEW r \in Requests, Step(r) \/ Unblock(r), ~Approach(r)
  PROVE  /\ pc'[r] \in BeforeHandshake => pc'[r] = pc[r]
         /\ settled[r] # {} => settled'[r] # {}
         /\ pc[r] \in Reversing /\ req[r].paymentOption = "ew" =>
              pc'[r] \in Reversing \/ (pc'[r] \in Late /\ resp'[r].success = FALSE)
         /\ pc[r] \in Late /\ resp[r].success = FALSE => pc'[r] \in Late /\ resp'[r].success = FALSE
<1> USE DEF Late, Reversing, BeforeHandshake
<1>out. UNCHANGED outside => UNCHANGED settled
  BY DEF outside
<1>1. CASE Validate(r)
  BY <1>1, <1>out, ValidateMoves DEF Validate, Moved
<1>2. CASE FullVoucher(r)
  BY <1>2, FullVoucherMoves DEF Moved
<1>3. CASE InsertNoCostEmiAudit(r)
  <2>1. pc[r] = "audit" /\ UNCHANGED settled
    BY <1>3, <1>out DEF InsertNoCostEmiAudit
  <2>2. pc'[r] \in {"fullIxigo", "log"}
    BY <1>3, GotoEffect, ThrowEffect DEF InsertNoCostEmiAudit
  <2> QED
    BY <2>1, <2>2
<1>4. CASE FullIxigoMoney(r)
  BY <1>4, FullIxigoMoneyMoves DEF Moved
<1>5. CASE CaptureWallet(r)
  BY <1>5, CaptureWalletMoves DEF Moved
<1>6. CASE ReverseCapture(r)
  BY <1>6, GotoMoves DEF ReverseCapture, Moved
<1>7. CASE NotifyFailure(r)
  BY <1>7, NotifyFailureMoves DEF Moved
<1>8. CASE PostCheck(r)
  BY <1>8, <1>out, PostCheckMoves DEF PostCheck, Moved
<1>9. CASE PrepareResponse(r)
  BY <1>9, <1>out, PrepareResponseMoves DEF PrepareResponse
<1>10. CASE NotifySuccess(r)
  BY <1>10, GotoMoves DEF NotifySuccess, Moved
<1>11. CASE LogResponse(r)
  BY <1>11, <1>out, LogOrAbandonMoves DEF LogResponse, Moved
<1>12. CASE Dispatch(r)
  BY <1>12, <1>out, DispatchMoves DEF Dispatch, Moved
<1>13. CASE InitPayment(r)
  BY <1>13, InitPaymentMoves DEF InitPayment
<1>14. CASE LogResult(r)
  BY <1>14, <1>out, LogOrAbandonMoves DEF LogResult, Moved
<1>15. CASE Unblock(r)
  BY <1>15 DEF Unblock
<1> QED
  BY <1>1, <1>2, <1>3, <1>4, <1>5, <1>6, <1>7, <1>8, <1>9, <1>10, <1>11, <1>12, <1>13, <1>14,
     <1>15 DEF Step, Approach

(* A hold once placed is never placed again, keeps its amount, and stops   *)
(* being held only by a request past its handshake that names it.          *)
HoldsMove(r) ==
  \A h \in Holds :
    /\ holds[h].state # "free" =>
         holds'[h].state # "free" /\ holds'[h].amount = holds[h].amount
    /\ holds[h].state = "held" =>
         \/ holds'[h].state = "held"
         \/ h = req'[r].walletId /\ pc'[r] \notin BeforeHandshake

LEMMA PlacedMove ==
  ASSUME TypeOK, NEW r \in Requests, NEW h \in Holds, NEW a \in WalletAmounts, PlaceHold(h, a)
  PROVE  HoldsMove(r)
BY DEF TypeOK, PlaceHold, HoldsMove

LEMMA EndedMove ==
  ASSUME TypeOK, NEW r \in Requests, UNCHANGED req, pc'[r] \notin BeforeHandshake,
         NEW s \in {"captured", "released"},
         holds' = [holds EXCEPT ![req[r].walletId].state = s]
  PROVE  HoldsMove(r)
<1> DEFINE g == req[r].walletId
<1>1. ASSUME NEW h \in Holds
      PROVE  /\ h # g => holds'[h] = holds[h]
             /\ h = g => holds'[h].state = s /\ holds'[h].amount = holds[h].amount
  BY <1>1 DEF TypeOK
<1>2. s # "free"
  OBVIOUS
<1> HIDE DEF g
<1>3. ASSUME NEW h \in Holds
      PROVE  /\ holds[h].state # "free" =>
                  holds'[h].state # "free" /\ holds'[h].amount = holds[h].amount
             /\ holds[h].state = "held" => holds'[h].state = "held" \/ h = g
  BY <1>1, <1>2, <1>3
<1> QED
  BY <1>3 DEF HoldsMove, g

LEMMA EveryHoldMove ==
  ASSUME TypeOK, NEW r \in Requests, Step(r) \/ Unblock(r)
  PROVE  HoldsMove(r)
<1>1. UNCHANGED holds => HoldsMove(r)
  BY DEF HoldsMove
<1>auth. \A l : DoWalletAuth(r, l) => HoldsMove(r)
  BY <1>1, PlacedMove DEF DoWalletAuth
<1>out. UNCHANGED outside => UNCHANGED holds
  BY DEF outside
<1>bean. UNCHANGED bean => UNCHANGED req
  BY DEF bean
<1>reverse. ReverseAuth(r) /\ UNCHANGED req /\ pc'[r] \notin BeforeHandshake => HoldsMove(r)
  BY <1>1, EndedMove DEF ReverseAuth
<1>2. CASE LogRequest(r) \/ FetchBookingDetails(r) \/ SaveCard(r)
  BY <1>1, <1>2, <1>out DEF LogRequest, FetchBookingDetails, SaveCard
<1>3. CASE WalletAuth(r)
  BY <1>1, <1>3, <1>auth DEF WalletAuth
<1>4. CASE ReAuth(r)
  BY <1>1, <1>4, <1>auth DEF ReAuth
<1>5. CASE GetWalletInfo(r) \/ GetWalletInfoAgain(r)
  BY <1>1, <1>5, <1>out DEF GetWalletInfo, GetWalletInfoAgain
<1>6. CASE ReverseHandshake(r)
  <2>1. pc'[r] = "log"
    BY <1>6, ThrowEffect DEF ReverseHandshake
  <2> QED
    BY <1>6, <2>1, <1>reverse, <1>bean DEF ReverseHandshake, BeforeHandshake
<1>7. CASE FetchNoCostEmi(r) \/ BlockVoucher(r) \/ Validate(r)
  BY <1>1, <1>7, <1>out DEF FetchNoCostEmi, BlockVoucher, Validate
<1>8. CASE FullVoucher(r) \/ InsertNoCostEmiAudit(r) \/ FullIxigoMoney(r) \/ NotifyFailure(r)
  BY <1>1, <1>8, <1>out DEF FullVoucher, InsertNoCostEmiAudit, FullIxigoMoney, NotifyFailure
<1>9. CASE CaptureWallet(r)
  <2>1. pc'[r] \notin BeforeHandshake
    BY <1>9, CaptureWalletMoves DEF Moved, BeforeHandshake
  <2>2. UNCHANGED holds \/ holds' = [holds EXCEPT ![req[r].walletId].state = "captured"]
    BY <1>9, CaptureWalletMoves
  <2>3. UNCHANGED req
    BY <1>9 DEF CaptureWallet, bean
  <2> QED
    BY <2>1, <2>2, <2>3, <1>1, EndedMove
<1>10. CASE ReverseCapture(r)
  <2>1. pc'[r] = "notifyFailure"
    BY <1>10, GotoEffect DEF ReverseCapture
  <2> QED
    BY <1>10, <2>1, <1>reverse, <1>bean DEF ReverseCapture, BeforeHandshake
<1>11. CASE PostCheck(r) \/ PrepareResponse(r) \/ NotifySuccess(r) \/ LogResponse(r)
  BY <1>1, <1>11, <1>out DEF PostCheck, PrepareResponse, NotifySuccess, LogResponse
<1>12. CASE Dispatch(r) \/ InitPayment(r) \/ LogResult(r) \/ Unblock(r)
  BY <1>1, <1>12, <1>out DEF Dispatch, InitPayment, LogResult, Unblock
<1> QED
  BY <1>2, <1>3, <1>4, <1>5, <1>6, <1>7, <1>8, <1>9, <1>10, <1>11, <1>12 DEF Step

LEMMA OthersHold ==
  ASSUME TypeOK, NEW r \in Requests, Step(r) \/ Unblock(r), NEW q \in Requests \ {r}, OnHold(q),
         pc[r] \notin BeforeHandshake =>
           pc'[r] \notin BeforeHandshake /\ req'[r].walletId = req[r].walletId
  PROVE  OnHold(q)'
<1>1. /\ pc'[q] = pc[q] /\ req'[q] = req[q] /\ resp'[q] = resp[q] /\ settled'[q] = settled[q]
      /\ \A x \in Requests \ {r} : pc'[x] = pc[x] /\ req'[x] = req[x]
  BY StepsAreOwn DEF OthersStay
<1>2. Shared(q) => Shared(q)'
  <2>1. ASSUME NEW x \in Requests \ {q}, req[x].walletId = req[q].walletId,
               pc[x] \notin BeforeHandshake
        PROVE  req'[x].walletId = req'[q].walletId /\ pc'[x] \notin BeforeHandshake
    BY <1>1, <2>1
  <2> QED
    BY <2>1 DEF Shared
<1>3. CASE req[q].walletInfo = NoAmount
  BY <1>1, <1>3 DEF OnHold
<1>4. CASE req[q].walletInfo # NoAmount
  <2> DEFINE h == req[q].walletId
  <2>1. /\ h \in Holds /\ holds[h].state # "free" /\ holds[h].amount = req[q].walletInfo
        /\ req[q].walletAmount = req[q].walletInfo
    BY <1>4 DEF OnHold
  <2>2. holds'[h].state # "free" /\ holds'[h].amount = holds[h].amount
    BY <2>1, EveryHoldMove DEF HoldsMove
  <2>3. holds[h].state = "held" => holds'[h].state = "held" \/ Shared(q)'
    <3>1. holds[h].state = "held" =>
            \/ holds'[h].state = "held"
            \/ h = req'[r].walletId /\ pc'[r] \notin BeforeHandshake
      BY <2>1, EveryHoldMove DEF HoldsMove
    <3>2. h = req'[r].walletId /\ pc'[r] \notin BeforeHandshake => Shared(q)'
      BY <1>1 DEF Shared
    <3> QED
      BY <3>1, <3>2
  <2>4. \/ holds'[h].state = "held"
        \/ settled'[q] # {}
        \/ pc'[q] \in Reversing /\ req'[q].paymentOption = "ew"
        \/ pc'[q] \in Late /\ resp'[q].success = FALSE
        \/ Shared(q)'
    BY <1>1, <1>2, <1>4, <2>3 DEF OnHold
  <2> QED
    BY <1>1, <1>4, <2>1, <2>2, <2>4 DEF OnHold
<1> QED
  BY <1>3, <1>4

LEMMA OwnHoldGoesOn ==
  ASSUME TypeOK, NEW r \in Requests, Step(r) \/ Unblock(r), OnHold(r), ~Approach(r),
         holds[req[r].walletId].state = "held" =>
           \/ holds'[req[r].walletId].state = "held"
           \/ settled'[r] # {}
           \/ pc'[r] \in Reversing /\ req[r].paymentOption = "ew"
  PROVE  OnHold(r)'
<1>1. UNCHANGED req
  BY BeanKept
<1>2. Shared(r) => Shared(r)'
  BY <1>1, StepsAreOwn DEF OthersStay, Shared
<1>3. CASE req[r].walletInfo = NoAmount
  BY <1>1, <1>3 DEF OnHold
<1>4. CASE req[r].walletInfo # NoAmount
  <2> DEFINE h == req[r].walletId
  <2>1. /\ h \in Holds /\ holds[h].state # "free" /\ holds[h].amount = req[r].walletInfo
        /\ req[r].walletAmount = req[r].walletInfo /\ pc[r] \notin BeforeHandshake
    BY <1>4 DEF OnHold
  <2>2. holds'[h].state # "free" /\ holds'[h].amount = holds[h].amount
    BY <2>1, EveryHoldMove DEF HoldsMove
  <2>3. pc'[r] \notin BeforeHandshake
    BY <2>1, GoesOn
  <2>4. \/ holds'[h].state = "held"
        \/ settled'[r] # {}
        \/ pc'[r] \in Reversing /\ req[r].paymentOption = "ew"
        \/ pc'[r] \in Late /\ resp'[r].success = FALSE
        \/ Shared(r)'
    BY <1>2, <1>4, GoesOn DEF OnHold
  <2> QED
    BY <1>1, <1>4, <2>1, <2>2, <2>3, <2>4 DEF OnHold
<1> QED
  BY <1>3, <1>4

LEMMA BlockVoucherGoesOn ==
  ASSUME TypeOK, NEW r \in Requests, BlockVoucher(r)
  PROVE  pc'[r] \in {"validate", "audit", "log"}
<1>1. Goto(r, "validate") \/ Refuse(r, "REFUSED", "audit") \/ Throw(r)
  BY DEF BlockVoucher
<1> QED
  BY <1>1, GotoEffect, ThrowEffect, RefuseEffect

LEMMA OwnHold ==
  ASSUME TypeOK, RequestInv, NEW r \in Requests, Step(r) \/ Unblock(r), OnHold(r), Account(r)
  PROVE  /\ OnHold(r)'
         /\ pc[r] \notin BeforeHandshake =>
              pc'[r] \notin BeforeHandshake /\ req'[r].walletId = req[r].walletId
<1>bean. UNCHANGED bean => UNCHANGED req
  BY DEF bean
<1>1. ASSUME UNCHANGED req, pc[r] \in BeforeHandshake PROVE OnHold(r)'
  BY <1>1 DEF OnHold
<1>2. CASE LogRequest(r) \/ FetchBookingDetails(r) \/ SaveCard(r) \/ ReverseHandshake(r)
  BY <1>1, <1>2, <1>bean
     DEF LogRequest, FetchBookingDetails, SaveCard, ReverseHandshake, BeforeHandshake
<1>auth. ASSUME NEW l, DoWalletAuth(r, l), pc[r] \in BeforeHandshake PROVE OnHold(r)'
  <2>1. CASE UNCHANGED req
    BY <1>1, <1>auth, <2>1
  <2>2. ASSUME NEW h \in Holds, NEW a \in WalletAmounts,
               req' = [req EXCEPT ![r].walletId = h, ![r].walletAmount = RoundToRupees(a)]
        PROVE  OnHold(r)'
    <3>1. req'[r].walletInfo = req[r].walletInfo
      BY <2>2 DEF TypeOK, RequestType
    <3> QED
      BY <1>auth, <3>1 DEF OnHold
  <2> QED
    BY <1>auth, <2>1, <2>2 DEF DoWalletAuth
<1>3. CASE WalletAuth(r)
  BY <1>1, <1>3, <1>auth DEF WalletAuth, BeforeHandshake
<1>4. CASE ReAuth(r)
  BY <1>1, <1>4, <1>auth DEF ReAuth, BeforeHandshake
<1>hand. ASSUME Handshake(r), UNCHANGED holds, req[r].walletId \in Holds, pc[r] \in BeforeHandshake
         PROVE  OnHold(r)'
  <2>1. CASE UNCHANGED req
    BY <1>1, <1>hand, <2>1
  <2>2. CASE /\ holds[req[r].walletId].amount = req[r].walletAmount
             /\ Goto(r, "noCostEmi")
             /\ req' = [req EXCEPT ![r].walletInfo = holds[req[r].walletId].amount]
    <3>1. /\ req'[r].walletId = req[r].walletId /\ req'[r].walletAmount = req[r].walletAmount
          /\ req'[r].walletInfo = holds[req[r].walletId].amount
      BY <2>2 DEF TypeOK, RequestType
    <3>2. holds[req[r].walletId].state = "held" /\ pc'[r] = "noCostEmi"
      BY <1>hand, <2>2, GotoEffect DEF Handshake
    <3> QED
      BY <1>hand, <2>2, <3>1, <3>2 DEF OnHold, BeforeHandshake
  <2> QED
    BY <1>hand, <2>1, <2>2 DEF Handshake, AreAmountEqual
<1>holds. UNCHANGED outside => UNCHANGED holds
  BY DEF outside
<1>5. CASE GetWalletInfo(r)
  <2>1. req[r].walletId # NoHold => req[r].walletId \in Holds
    BY DEF TypeOK, RequestType
  <2>2. (Handshake(r) /\ req[r].walletId # NoHold) \/ UNCHANGED req
    BY <1>5 DEF GetWalletInfo
  <2>3. UNCHANGED holds /\ pc[r] \in BeforeHandshake
    BY <1>5, <1>holds DEF GetWalletInfo, BeforeHandshake
  <2> QED
    BY <1>1, <1>5, <1>hand, <2>1, <2>2, <2>3 DEF BeforeHandshake, GetWalletInfo
<1>6. CASE GetWalletInfoAgain(r)
  <2>1. req[r].walletId \in Holds /\ UNCHANGED holds /\ pc[r] \in BeforeHandshake
    BY <1>6, <1>holds DEF GetWalletInfoAgain, RequestInv, Named, BeforeHandshake
  <2>2. Handshake(r) \/ UNCHANGED req
    BY <1>6 DEF GetWalletInfoAgain
  <2> QED
    BY <1>1, <1>6, <1>hand, <2>1, <2>2 DEF BeforeHandshake, GetWalletInfoAgain
<1>keep. ASSUME req'[r].walletId = req[r].walletId, req'[r].walletInfo = req[r].walletInfo,
                req'[r].walletAmount = req[r].walletAmount, UNCHANGED <<holds, settled>>,
                pc[r] \in {"noCostEmi", "voucher"}, pc'[r] \in {"voucher", "validate", "audit", "log"}
         PROVE  /\ OnHold(r)'
                /\ pc'[r] \notin BeforeHandshake
  <2>1. Shared(r) => Shared(r)'
    BY <1>keep, StepsAreOwn DEF OthersStay, Shared
  <2> QED
    BY <1>keep, <2>1 DEF OnHold, BeforeHandshake, Late, Reversing
<1>7. CASE FetchNoCostEmi(r)
  <2>1. pc[r] = "noCostEmi" /\ pc'[r] \in {"voucher", "log"}
    BY <1>7, GotoEffect, ThrowEffect DEF FetchNoCostEmi
  <2>2. ASSUME NEW b, req' = [req EXCEPT ![r].noCostEmi = b]
        PROVE  /\ req'[r].walletId = req[r].walletId /\ req'[r].walletInfo = req[r].walletInfo
               /\ req'[r].walletAmount = req[r].walletAmount
    BY <2>2 DEF TypeOK, RequestType
  <2>3. /\ req'[r].walletId = req[r].walletId /\ req'[r].walletInfo = req[r].walletInfo
        /\ req'[r].walletAmount = req[r].walletAmount
    BY <1>7, <2>2 DEF FetchNoCostEmi
  <2>4. UNCHANGED <<holds, settled>>
    BY <1>7 DEF FetchNoCostEmi, outside
  <2> QED
    BY <1>keep, <2>1, <2>3, <2>4
<1>8. CASE BlockVoucher(r)
  <2>1. pc[r] = "voucher" /\ pc'[r] \in {"validate", "audit", "log"}
    BY <1>8, BlockVoucherGoesOn DEF BlockVoucher
  <2>2. ASSUME NEW a, req' = [req EXCEPT ![r].voucherRedeemed = a]
        PROVE  /\ req'[r].walletId = req[r].walletId /\ req'[r].walletInfo = req[r].walletInfo
               /\ req'[r].walletAmount = req[r].walletAmount
    BY <2>2 DEF TypeOK, RequestType
  <2>3. /\ req'[r].walletId = req[r].walletId /\ req'[r].walletInfo = req[r].walletInfo
        /\ req'[r].walletAmount = req[r].walletAmount
    BY <1>8, <2>2 DEF BlockVoucher
  <2>4. UNCHANGED <<holds, settled>>
    BY <1>8 DEF BlockVoucher
  <2> QED
    BY <1>keep, <2>1, <2>3, <2>4
<1>9. CASE ~Approach(r)
  <2>1. pc[r] \notin BeforeHandshake =>
          pc'[r] \notin BeforeHandshake /\ req'[r].walletId = req[r].walletId
    BY <1>9, GoesOn, BeanKept
  <2>2. CASE CaptureWallet(r)
    BY <1>9, <2>1, <2>2, CaptureWalletMoves, OwnHoldGoesOn
  <2>3. CASE ReverseCapture(r)
    <3>1. pc'[r] \in Reversing /\ req[r].paymentOption = "ew"
      BY <2>3, GotoEffect DEF ReverseCapture, Account, Redeemed, Reversing
    <3> QED
      BY <1>9, <2>1, <2>3, <3>1, OwnHoldGoesOn
  <2>4. CASE ~CaptureWallet(r) /\ ~ReverseCapture(r)
    <3>1. UNCHANGED holds
      <4>1. CASE Validate(r) \/ FullVoucher(r) \/ InsertNoCostEmiAudit(r) \/ FullIxigoMoney(r)
        BY <4>1, <1>holds DEF Validate, FullVoucher, InsertNoCostEmiAudit, FullIxigoMoney
      <4>2. CASE NotifyFailure(r) \/ PostCheck(r) \/ PrepareResponse(r) \/ NotifySuccess(r)
        BY <4>2, <1>holds DEF NotifyFailure, PostCheck, PrepareResponse, NotifySuccess
      <4>3. CASE LogResponse(r) \/ Dispatch(r) \/ InitPayment(r) \/ LogResult(r) \/ Unblock(r)
        BY <4>3, <1>holds DEF LogResponse, Dispatch, InitPayment, LogResult, Unblock
      <4> QED
        BY <1>9, <2>4, <4>1, <4>2, <4>3 DEF Step, Approach
    <3> QED
      BY <1>9, <2>1, <3>1, OwnHoldGoesOn
  <2> QED
    BY <2>2, <2>3, <2>4
<1>11. LogRequest(r) \/ FetchBookingDetails(r) \/ SaveCard(r) \/ ReverseHandshake(r) \/ WalletAuth(r)
       \/ ReAuth(r) \/ GetWalletInfo(r) \/ GetWalletInfoAgain(r) => pc[r] \in BeforeHandshake
  BY DEF LogRequest, FetchBookingDetails, SaveCard, ReverseHandshake, WalletAuth, ReAuth,
         GetWalletInfo, GetWalletInfoAgain, BeforeHandshake
<1>12. FetchNoCostEmi(r) \/ BlockVoucher(r) =>
         pc'[r] \notin BeforeHandshake /\ req'[r].walletId = req[r].walletId
  <2>1. ASSUME NEW b, \/ req' = [req EXCEPT ![r].noCostEmi = b]
                      \/ req' = [req EXCEPT ![r].voucherRedeemed = b]
        PROVE  req'[r].walletId = req[r].walletId
    BY <2>1 DEF TypeOK, RequestType
  <2>2. FetchNoCostEmi(r) => pc'[r] \in {"voucher", "log"}
    BY GotoEffect, ThrowEffect DEF FetchNoCostEmi
  <2>3. BlockVoucher(r) => pc'[r] \in {"validate", "audit", "log"}
    BY BlockVoucherGoesOn
  <2> QED
    BY <2>1, <2>2, <2>3 DEF FetchNoCostEmi, BlockVoucher, BeforeHandshake
<1> QED
  BY <1>2, <1>3, <1>4, <1>5, <1>6, <1>7, <1>8, <1>9, <1>11, <1>12 DEF Approach

------------------------------------------------------------------------------
(* The invariant is inductive. *)

LEMMA OwnAccount ==
  ASSUME TypeOK, RequestInv, NEW r \in Requests, Step(r) \/ Unblock(r), Account(r)
  PROVE  Account(r)'
<1>1. CASE Approach(r)
  BY <1>1, ApproachSafe
<1>2. CASE Validate(r) \/ FullVoucher(r) \/ InsertNoCostEmiAudit(r) \/ FullIxigoMoney(r)
  BY <1>2, ValidateSafe, FullVoucherSafe, AuditSafe, FullIxigoMoneySafe
<1>3. CASE CaptureWallet(r) \/ ReverseCapture(r) \/ NotifyFailure(r)
  BY <1>3, CaptureWalletSafe, ReverseCaptureSafe, NotifyFailureSafe
<1>4. CASE PostCheck(r) \/ PrepareResponse(r) \/ NotifySuccess(r)
  BY <1>4, PostCheckSafe, PrepareResponseSafe, NotifySuccessSafe
<1>5. CASE LogResponse(r) \/ Dispatch(r) \/ LogResult(r) \/ InitPayment(r) \/ Unblock(r)
  BY <1>5, LoggingSafe, InitPaymentSafe, UnblockSafe
<1> QED
  BY <1>1, <1>2, <1>3, <1>4, <1>5 DEF Step, Approach

(* An account is a matter of the request's own fields. *)
LEMMA AccountIsOwn ==
  ASSUME NEW q \in Requests, Account(q), Undisturbed(q),
         pc'[q] = pc[q], req'[q] = req[q], resp'[q] = resp[q],
         settled'[q] = settled[q], portal'[q] = portal[q]
  PROVE  Account(q)'
<1>1. valid'[q] = valid[q] /\ s2s'[q] = s2s[q] /\ unblock'[q] = unblock[q] /\ faults'[q] = faults[q]
  BY DEF Undisturbed
<1>2. (Enough(q)' <=> Enough(q)) /\ PortalAmount(q)' = PortalAmount(q)
  BY <1>1 DEF Enough, Credits, PortalAmount, WalletPart
<1>3. Fresh(q)' /\ Validated(q)'
  BY <1>1 DEF Account, Fresh, Validated
<1>4. Redeemed(q)'
  BY <1>1, <1>2 DEF Account, Redeemed
<1>5. Told(q)' /\ Taken(q)'
  BY <1>1 DEF Account, Told, GoesOnRefused, Taken
<1>6. Handing(q)'
  BY <1>1, <1>2 DEF Account, Handing
<1> QED
  BY <1>3, <1>4, <1>5, <1>6 DEF Account

LEMMA SafetyInvStep ==
  ASSUME TypeOK, RequestInv, SafetyInv, NEW r \in Requests, Step(r) \/ Unblock(r)
  PROVE  SafetyInv'
<1>1. Account(r) /\ OnHold(r)
  BY DEF SafetyInv
<1>2. Account(r)' /\ OnHold(r)'
  BY <1>1, OwnAccount, OwnHold
<1>3. ASSUME NEW q \in Requests \ {r} PROVE Account(q)' /\ OnHold(q)'
  <2>1. Account(q) /\ OnHold(q)
    BY DEF SafetyInv
  <2>2. Account(q)'
    BY <2>1, StepsAreOwn, OthersUndisturbed, AccountIsOwn DEF OthersStay
  <2>3. OnHold(q)'
    BY <1>1, <2>1, OwnHold, OthersHold
  <2> QED
    BY <2>2, <2>3
<1> QED
  BY <1>2, <1>3 DEF SafetyInv

LEMMA SafetyInvInit == Init => SafetyInv
<1> SUFFICES ASSUME Init, NEW r \in Requests PROVE Account(r) /\ OnHold(r)
  BY DEF SafetyInv
<1>1. /\ pc[r] = "received" /\ resp[r] = NewResponse /\ settled[r] = {} /\ s2s[r] = <<>>
      /\ unblock[r] = "idle" /\ portal[r] = "none" /\ faults[r] = {}
  BY DEF Init
<1>2. req[r] \in Forms /\ req[r].walletInfo = NoAmount
  BY DEF Init
<1>3. resp[r].decision = "none" /\ resp[r].success = FALSE /\ resp[r].amount = NoAmount
  BY <1>1 DEF NewResponse
<1>4. Fresh(r) /\ Validated(r) /\ Redeemed(r)
  BY <1>1, <1>3 DEF Fresh, Validated, Redeemed, CompleteSuccess, Late, Reversing
<1>5. Told(r) /\ Taken(r) /\ Handing(r)
  BY <1>1, <1>3 DEF Told, Taken, Handing, Late
<1> QED
  BY <1>2, <1>4, <1>5 DEF Account, OnHold

(* The holds a stuttering step leaves as they are. *)
LEMMA SafetyInvKept == SafetyInv /\ UNCHANGED vars => SafetyInv'
<1> SUFFICES ASSUME SafetyInv, UNCHANGED vars, NEW r \in Requests PROVE Account(r)' /\ OnHold(r)'
  BY DEF SafetyInv
<1>1. /\ UNCHANGED <<pc, req, valid, resp, holds, settled, s2s, unblock, portal, faults>>
  BY DEF vars, bean, outside, history
<1>2. Account(r) /\ OnHold(r)
  BY DEF SafetyInv
<1>3. Account(r)'
  BY <1>1, <1>2, AccountIsOwn DEF Undisturbed
<1>4. Shared(r)' <=> Shared(r)
  BY <1>1 DEF Shared
<1>5. OnHold(r)'
  BY <1>1, <1>2, <1>4 DEF OnHold
<1> QED
  BY <1>3, <1>5

LEMMA SafetyInductive == Spec => [](TypeOK /\ RequestInv /\ SafetyInv)
<1>1. Init => SafetyInv
  BY SafetyInvInit
<1>2. TypeOK /\ RequestInv /\ SafetyInv /\ [Next]_vars => SafetyInv'
  <2> SUFFICES ASSUME TypeOK, RequestInv, SafetyInv, [Next]_vars PROVE SafetyInv'
    OBVIOUS
  <2>1. CASE UNCHANGED vars
    BY <2>1, SafetyInvKept
  <2>2. CASE Answered
    BY <2>2, SafetyInvKept DEF Answered
  <2>3. ASSUME NEW r \in Requests, Step(r) \/ Unblock(r) PROVE SafetyInv'
    BY <2>3, SafetyInvStep
  <2> QED
    BY <2>1, <2>2, <2>3 DEF Next
<1> QED
  BY <1>1, <1>2, Inductive, PTL DEF Spec

------------------------------------------------------------------------------
(* The properties of an answer. *)

(* An answer that says the booking is paid is backed by a redemption of    *)
(* credits that reach the total but for the rounding, and the LOB was told *)
(* if it asked to be: for any number of requests, any amounts and whatever *)
(* replies are lost.                                                       *)
THEOREM PaidAnswerIsBacked == Spec => []AnsweredPaidIsPaid
<1>1. SafetyInv => AnsweredPaidIsPaid
  <2> SUFFICES ASSUME SafetyInv, NEW r \in Requests, AnsweredPaid(r)
               PROVE  /\ InstrumentOf(resp[r].decision) \in settled[r]
                      /\ \/ valid[r].total < Credits(r) + 2 * Paisa
                         \/ valid[r].total < Rupee
                      /\ valid[r].s2s => s2s[r] = <<TRUE>>
    BY DEF AnsweredPaidIsPaid
  <2>1. Redeemed(r) /\ Told(r)
    BY DEF SafetyInv, Account
  <2>2. pc[r] \in Late /\ resp[r].success /\ resp[r].decision \in CompleteSuccess
    BY DEF AnsweredPaid, Late
  <2>3. InstrumentOf(resp[r].decision) \in settled[r]
    BY <2>1, <2>2 DEF Redeemed
  <2>4. Enough(r)
    BY <2>1, <2>3 DEF Redeemed
  <2> QED
    BY <2>1, <2>2, <2>3, <2>4 DEF Told, Enough
<1> QED
  BY <1>1, SafetyInductive, PTL

(* The LOB hears at most one outcome of a request, "paid" only of money    *)
(* collected and "failed" never of a request answered as a success.        *)
THEOREM LobIsToldTheTruth == Spec => []LobHearsTheTruth
<1>1. SafetyInv => LobHearsTheTruth
  <2> SUFFICES ASSUME SafetyInv, NEW r \in Requests
               PROVE  /\ Len(s2s[r]) <= 1
                      /\ s2s[r] = <<TRUE>> => settled[r] # {}
                      /\ s2s[r] = <<FALSE>> => /\ settled[r] # {} => "lostReply" \in faults[r]
                                               /\ pc[r] = "done" => ~resp[r].success
    BY DEF LobHearsTheTruth
  <2>1. Told(r)
    BY DEF SafetyInv, Account
  <2>2. ~GoesOnRefused(r) \/ pc[r] # "done"
    BY DEF GoesOnRefused
  <2>3. <<TRUE>> # <<>> /\ <<FALSE>> # <<>> /\ <<TRUE>> # <<FALSE>>
    OBVIOUS
  <2>4. s2s[r] \in {<<>>, <<TRUE>>, <<FALSE>>}
    BY <2>1 DEF Told
  <2>5. Len(<<>>) = 0 /\ Len(<<TRUE>>) = 1 /\ Len(<<FALSE>>) = 1
    OBVIOUS
  <2>6. Len(s2s[r]) <= 1
    <3>1. CASE s2s[r] = <<>>
      BY <2>5, <3>1
    <3>2. CASE s2s[r] = <<TRUE>>
      BY <2>5, <3>2
    <3>3. CASE s2s[r] = <<FALSE>>
      BY <2>5, <3>3
    <3> QED
      BY <2>4, <3>1, <3>2, <3>3
  <2> QED
    BY <2>1, <2>2, <2>3, <2>6 DEF Told
<1> QED
  BY <1>1, SafetyInductive, PTL

(* "Failed, please try again" is said of money that was taken only after   *)
(* something the code has no answer for.                                   *)
THEOREM FailedButTaken == Spec => []FailedButTakenIsExplained
<1>1. SafetyInv => FailedButTakenIsExplained
  BY DEF SafetyInv, Account, Taken, FailedButTakenIsExplained, Late
<1> QED
  BY <1>1, SafetyInductive, PTL

(* What the portal is asked for, together with the credits, covers the     *)
(* LOB's total and exceeds it by at most a paisa, for every amount; and    *)
(* whoever is handed over was validated, neither refused nor told to the   *)
(* LOB.                                                                    *)
THEOREM HandOffCovers == Spec => []HandOffCollectsTheRest
<1>1. TypeOK /\ RequestInv /\ SafetyInv => HandOffCollectsTheRest
  <2> SUFFICES ASSUME TypeOK, RequestInv, SafetyInv, NEW r \in Requests, HandedOff(r)
               PROVE  /\ valid[r].got /\ s2s[r] = <<>> /\ unblock[r] = "idle"
                      /\ req[r].paymentOption = "indifi" => resp[r].agentCode
                      /\ resp[r].amount + Credits(r) >= valid[r].total
                      /\ Credits(r) <= valid[r].total =>
                           resp[r].amount + Credits(r) <= valid[r].total + Paisa
    BY DEF HandOffCollectsTheRest
  <2>1. /\ pc[r] = "done" /\ resp[r].success
        /\ resp[r].decision = "SUCESS_REDIRECT_TO_PORTAL" /\ pc[r] \in Late
    BY DEF HandedOff, Late
  <2>2. Validated(r) /\ Told(r) /\ Handing(r) /\ Collected(r)
    BY DEF SafetyInv, Account, RequestInv
  <2>3. valid[r].got /\ (req[r].paymentOption = "indifi" => resp[r].agentCode)
    BY <2>1, <2>2 DEF Validated, Handing
  <2>4. unblock[r] = "idle"
    BY <2>1, <2>2 DEF Handing
  <2>5. settled[r] = {}
    BY <2>1, <2>2 DEF Collected, Reversing, Late
  <2>6. s2s[r] = <<>>
    BY <2>1, <2>2, <2>5 DEF Told, GoesOnRefused
  <2>7. resp[r].amount \in PortalAmount(r)
    BY <2>1, <2>2 DEF Handing
  <2> DEFINE total == valid[r].total
             w == WalletPart(r)
             v == req[r].voucherRedeemed
             i == req[r].ixigoMoney
             a == resp[r].amount
  <2>8. total \in Amount /\ w \in Amount /\ v \in Amount /\ i \in Amount
    BY CreditsTyped
  <2>9. a \in AmountToCollectFromPG(total, w, v, i) \/ (w + v + i = 0 /\ a = total)
    BY <2>7 DEF PortalAmount
  <2>10. Credits(r) = w + v + i
    BY DEF Credits
  <2> HIDE DEF total, w, v, i, a
  <2>11. CASE w + v + i = 0 /\ a = total
    <3>1. a + Credits(r) >= total /\ a + Credits(r) <= total + Paisa
      BY <2>8, <2>10, <2>11 DEF Amount, Paisa
    <3> QED
      BY <2>3, <2>4, <2>6, <3>1 DEF total, a
  <2>12. CASE a \in AmountToCollectFromPG(total, w, v, i)
    <3>1. /\ a \in Amount /\ a + w + v + i >= total
          /\ w + v + i <= total => a + w + v + i <= total + Paisa
      BY <2>8, <2>12, PortalAmountCovers
    <3>2. a + w + v + i = a + (w + v + i)
      BY <2>8, <3>1 DEF Amount
    <3> QED
      BY <2>3, <2>4, <2>6, <2>10, <3>1, <3>2 DEF total, a
  <2> QED
    BY <2>9, <2>11, <2>12
<1> QED
  BY <1>1, SafetyInductive, PTL

(* Whoever is handed to the portal leaves with the wallet part still on    *)
(* hold, for the amount that was deducted, unless another request named    *)
(* the same hold.                                                          *)
THEOREM HandOffHold == Spec => []HandOffHoldIsLive
<1>1. TypeOK /\ RequestInv /\ SafetyInv => HandOffHoldIsLive
  <2> SUFFICES ASSUME TypeOK, RequestInv, SafetyInv, NEW r \in Requests,
                      HandedOff(r), req[r].walletInfo # NoAmount
               PROVE  \/ holds[req[r].walletId] = [state |-> "held", amount |-> req[r].walletInfo]
                      \/ \E q \in Requests \ {r} : req[q].walletId = req[r].walletId
    BY DEF HandOffHoldIsLive
  <2>1. OnHold(r) /\ Collected(r)
    BY DEF SafetyInv, RequestInv
  <2>2. /\ pc[r] = "done" /\ resp[r].success
        /\ resp[r].decision = "SUCESS_REDIRECT_TO_PORTAL"
    BY DEF HandedOff
  <2>3. settled[r] = {}
    BY <2>1, <2>2 DEF Collected, Reversing, Late
  <2>4. /\ req[r].walletId \in Holds
        /\ holds[req[r].walletId].amount = req[r].walletInfo
        /\ holds[req[r].walletId].state = "held" \/ Shared(r)
    BY <2>1, <2>2, <2>3 DEF OnHold, Reversing
  <2>5. holds[req[r].walletId] \in [state : {"free", "held", "captured", "released"}, amount : Amount]
    BY <2>4 DEF TypeOK
  <2>6. CASE holds[req[r].walletId].state = "held"
    BY <2>4, <2>5, <2>6
  <2>7. CASE Shared(r)
    BY <2>7 DEF Shared
  <2> QED
    BY <2>4, <2>6, <2>7
<1> QED
  BY <1>1, SafetyInductive, PTL

(* Only the capture settles through the wallet. *)
LEMMA OnlyCaptureTakesHolds ==
  ASSUME TypeOK, NEW r \in Requests, Step(r) \/ Unblock(r), ~CaptureWallet(r)
  PROVE  "ew" \notin settled'[r] \ settled[r]
<1>out. UNCHANGED outside => UNCHANGED settled
  BY DEF outside
<1>1. CASE Approach(r)
  BY <1>1, ApproachKeeps
<1>2. CASE FullVoucher(r)
  <2>1. UNCHANGED settled \/ settled'[r] = settled[r] \cup {"gv"}
    BY <1>2, FullVoucherMoves
  <2> QED
    BY <2>1
<1>3. CASE FullIxigoMoney(r)
  <2>1. UNCHANGED settled \/ settled'[r] = settled[r] \cup {"ixigoMoney"}
    BY <1>3, FullIxigoMoneyMoves
  <2> QED
    BY <2>1
<1>4. CASE Validate(r) \/ InsertNoCostEmiAudit(r) \/ ReverseCapture(r) \/ NotifyFailure(r)
  BY <1>4, <1>out DEF Validate, InsertNoCostEmiAudit, ReverseCapture, NotifyFailure
<1>5. CASE PostCheck(r) \/ PrepareResponse(r) \/ NotifySuccess(r) \/ LogResponse(r)
  BY <1>5, <1>out DEF PostCheck, PrepareResponse, NotifySuccess, LogResponse
<1>6. CASE Dispatch(r) \/ InitPayment(r) \/ LogResult(r) \/ Unblock(r)
  BY <1>6, <1>out DEF Dispatch, InitPayment, LogResult, Unblock
<1> QED
  BY <1>1, <1>2, <1>3, <1>4, <1>5, <1>6 DEF Step, Approach

(* A hold is captured only for a request the LOB validated, in the amount  *)
(* shown to the customer, and never after its release was asked for.       *)
THEOREM CapturedAsShown == Spec => CaptureWhatWasShown
<1> DEFINE Shown(r) == /\ valid[r].got
                       /\ req[r].walletId \in Holds
                       /\ holds[req[r].walletId] = [state |-> "held", amount |-> req[r].walletAmount]
           Capture == \A r \in Requests : "ew" \in settled'[r] \ settled[r] => Shown(r)
<1>1. TypeOK /\ SafetyInv /\ [Next]_vars => [Capture]_vars
  <2> SUFFICES ASSUME TypeOK, SafetyInv, Next, NEW q \in Requests, "ew" \in settled'[q] \ settled[q]
               PROVE  Shown(q)
    OBVIOUS
  <2>1. CASE Answered
    BY <2>1 DEF Answered, vars, outside
  <2>2. ASSUME NEW r \in Requests, Step(r) \/ Unblock(r) PROVE Shown(q)
    <3>1. r = q
      BY <2>2, StepsAreOwn DEF OthersStay
    <3>2. CaptureWallet(q)
      BY <2>2, <3>1, OnlyCaptureTakesHolds
    <3>3. TRUE \in FullWalletPayment(q) /\ holds[req[q].walletId].state = "held"
      BY <3>2, CaptureWalletMoves
    <3>4. resp[q].success /\ req[q].walletInfo # NoAmount
      BY <3>3 DEF FullWalletPayment
    <3>5. Validated(q) /\ OnHold(q)
      BY DEF SafetyInv, Account
    <3>6. /\ req[q].walletId \in Holds
          /\ holds[req[q].walletId].amount = req[q].walletAmount
      BY <3>4, <3>5 DEF OnHold
    <3>7. holds[req[q].walletId] \in [state : {"free", "held", "captured", "released"}, amount : Amount]
      BY <3>6 DEF TypeOK
    <3>8. holds[req[q].walletId] = [state |-> "held", amount |-> req[q].walletAmount]
      BY <3>3, <3>6, <3>7
    <3> QED
      BY <3>4, <3>5, <3>6, <3>8 DEF Validated
  <2> QED
    BY <2>1, <2>2 DEF Next
<1>2. Spec => [][Capture]_vars
  BY <1>1, SafetyInductive, PTL DEF Spec
<1> QED
  BY <1>2 DEF CaptureWhatWasShown

------------------------------------------------------------------------------
(* The refinement: every step is a step of the checkout, or one it does    *)
(* not see.                                                                *)

(* What the checkout sees of a request stays the same. *)
Unseen(r) ==
  /\ Money(r)' = Money(r) /\ Lob(r)' = Lob(r) /\ Answer(r)' = Answer(r)
  /\ faults'[r] # {} <=> faults[r] # {}

Tracked(r) == faults[r] # {} => faults'[r] # {}

(* The checkout's actions, for one request at a time. *)
Takes(r, how) ==
  /\ Answer(r) = "open" /\ Money(r) = "none" /\ Lob(r) = "silent"
  /\ Money(r)' = how /\ Lob(r)' = Lob(r) /\ Answer(r)' = Answer(r) /\ Tracked(r)

LosesTrack(r) ==
  /\ Answer(r) = "open" /\ faults'[r] # {}
  /\ Money(r)' = Money(r) /\ Lob(r)' = Lob(r) /\ Answer(r)' = Answer(r)

Confirms(r) ==
  /\ Answer(r) = "open" /\ Lob(r) = "silent" /\ Money(r) = "collected"
  /\ Lob(r)' = "paid" /\ Money(r)' = Money(r) /\ Answer(r)' = Answer(r)
  /\ faults'[r] # {} <=> faults[r] # {}

ReportsFailure(r) ==
  /\ Answer(r) = "open" /\ Lob(r) = "silent" /\ (Money(r) = "none" \/ faults[r] # {})
  /\ Lob(r)' = "failed" /\ Money(r)' = Money(r) /\ Answer(r)' = Answer(r)
  /\ faults'[r] # {} <=> faults[r] # {}

Answers(r, a) ==
  /\ Answer(r) = "open" /\ Answer(r)' = a /\ Tracked(r)
  /\ a = "paid" => Money(r) = "collected" /\ Lob(r) # "failed"
  /\ a = "portal" => Money(r) # "collected" /\ Lob(r) = "silent"
  /\ a = "failed" => Money(r) = "none" \/ faults'[r] # {}
  /\ Money(r)' = Money(r) /\ Lob(r)' = Lob(r)

Promised(r) ==
  \/ Unseen(r) \/ LosesTrack(r) \/ Confirms(r) \/ ReportsFailure(r)
  \/ \E how \in {"collected", "initiated"} : Takes(r, how)
  \/ \E a \in {"paid", "portal", "failed"} : Answers(r, a)

(* A step that takes no money, tells the LOB nothing and does not answer.  *)
LEMMA QuietStep ==
  ASSUME TypeOK, NEW r \in Requests, pc[r] # "done", pc'[r] # "done",
         settled'[r] = settled[r], portal'[r] = portal[r], s2s'[r] = s2s[r],
         faults'[r] = faults[r] \/ \E f : Met(r, f)
  PROVE  Promised(r)
<1>1. Money(r)' = Money(r) /\ Lob(r)' = Lob(r)
  BY DEF Money, Lob
<1>2. Answer(r) = "open" /\ Answer(r)' = "open"
  BY DEF Answer
<1>3. CASE faults'[r] = faults[r]
  BY <1>1, <1>2, <1>3 DEF Promised, Unseen
<1>4. CASE \E f : Met(r, f)
  <2>1. faults'[r] # {}
    BY <1>4 DEF Met
  <2> QED
    BY <1>1, <1>2, <2>1 DEF Promised, LosesTrack
<1> QED
  BY <1>3, <1>4

(* A redemption that was applied. *)
LEMMA TakingStep ==
  ASSUME NEW r \in Requests, NEW i, pc[r] # "done", pc'[r] # "done",
         settled[r] = {}, portal[r] = "none", s2s[r] = <<>>,
         settled'[r] = settled[r] \cup {i}, portal'[r] = portal[r], s2s'[r] = s2s[r],
         faults'[r] = faults[r] \/ \E f : Met(r, f)
  PROVE  Promised(r)
<1>1. Answer(r) = "open" /\ Answer(r)' = "open"
  BY DEF Answer
<1>2. settled'[r] # {}
  OBVIOUS
<1>3. Money(r) = "none" /\ Lob(r) = "silent" /\ Lob(r)' = Lob(r) /\ Money(r)' = "collected"
  BY <1>2 DEF Money, Lob
<1>4. Tracked(r)
  BY DEF Tracked, Met
<1> QED
  BY <1>1, <1>3, <1>4 DEF Promised, Takes

(* The answer. *)
LEMMA AnsweringStep ==
  ASSUME TypeOK, RequestInv, NEW r \in Requests, Account(r), pc[r] \in Late, pc[r] # "done",
         pc'[r] = "done", UNCHANGED <<settled, portal, s2s>>,
         \/ /\ resp'[r].success = resp[r].success /\ resp'[r].decision = resp[r].decision
            /\ UNCHANGED faults
         \/ resp'[r].success = FALSE /\ Met(r, "logRejected")
  PROVE  Promised(r)
<1>1. Answer(r) = "open" /\ Money(r)' = Money(r) /\ Lob(r)' = Lob(r)
  BY DEF Answer, Money, Lob
<1>2. Tracked(r)
  BY DEF Tracked, Met
<1>3. resp[r].success \in BOOLEAN /\ portal[r] \in {"none", "initiated"}
  BY DEF TypeOK, ResponseType
<1>4. ~GoesOnRefused(r)
  BY DEF GoesOnRefused, Late
<1>5. Told(r) /\ Redeemed(r) /\ Taken(r) /\ Collected(r)
  BY DEF Account, RequestInv
<1>6. <<TRUE>> # <<>> /\ <<FALSE>> # <<>> /\ <<TRUE>> # <<FALSE>>
  OBVIOUS
<1>7. CASE Met(r, "logRejected") /\ resp'[r].success = FALSE
  <2>1. Answer(r)' = "failed"
    BY <1>7 DEF Answer, AnsweredPaid, HandedOff
  <2>2. faults'[r] # {}
    BY <1>7 DEF Met
  <2> QED
    BY <1>1, <1>2, <2>1, <2>2 DEF Promised, Answers
<1>8. CASE /\ resp'[r].success = resp[r].success /\ resp'[r].decision = resp[r].decision
           /\ UNCHANGED faults
  <2>1. CASE resp[r].success /\ resp[r].decision \in CompleteSuccess
    <3>1. Answer(r)' = "paid"
      BY <1>8, <2>1 DEF Answer, AnsweredPaid
    <3>2. settled[r] # {} /\ s2s[r] # <<FALSE>>
      BY <1>3, <1>4, <1>5, <1>6, <2>1 DEF Redeemed, Told
    <3>3. Money(r) = "collected" /\ Lob(r) # "failed"
      BY <1>5, <1>6, <3>2 DEF Money, Lob, Told
    <3> QED
      BY <1>1, <1>2, <3>1, <3>3 DEF Promised, Answers
  <2>2. CASE resp[r].success /\ resp[r].decision = "SUCESS_REDIRECT_TO_PORTAL"
    <3>1. Answer(r)' = "portal"
      BY <1>8, <2>2 DEF Answer, AnsweredPaid, HandedOff, CompleteSuccess
    <3>2. settled[r] = {}
      BY <1>5, <2>2 DEF Collected, Late, Reversing
    <3>3. s2s[r] = <<>>
      BY <1>4, <1>5, <2>2, <3>2 DEF Told
    <3>4. Money(r) # "collected" /\ Lob(r) = "silent"
      BY <3>2, <3>3 DEF Money, Lob
    <3> QED
      BY <1>1, <1>2, <3>1, <3>4 DEF Promised, Answers
  <2>3. CASE ~resp[r].success
    <3>1. Answer(r)' = "failed"
      BY <1>8, <2>3 DEF Answer, AnsweredPaid, HandedOff
    <3>2. (settled[r] # {} \/ portal[r] = "initiated") => faults'[r] # {}
      BY <1>5, <1>8, <2>3 DEF Taken
    <3>3. Money(r) = "none" \/ faults'[r] # {}
      BY <3>2 DEF Money
    <3> QED
      BY <1>1, <1>2, <3>1, <3>3 DEF Promised, Answers
  <2> QED
    BY <1>5, <2>1, <2>2, <2>3 DEF Taken
<1> QED
  BY <1>7, <1>8

LEMMA ApproachPromised ==
  ASSUME TypeOK, NEW r \in Requests, Approach(r)
  PROVE  Promised(r)
<1>1. /\ UNCHANGED <<settled, s2s, portal>> /\ pc[r] # "done"
      /\ faults'[r] = faults[r] \/ Met(r, "lostReply")
  BY ApproachKeeps, ApproachFaults DEF BeforeValidation, Early
<1>2. pc'[r] # "done"
  BY ApproachMoves DEF Approached, Refusing, Moved, BeforeValidation, Early
<1> QED
  BY <1>1, <1>2, QuietStep

LEMMA FullVoucherPromised ==
  ASSUME TypeOK, RequestInv, NEW r \in Requests, Account(r), FullVoucher(r)
  PROVE  Promised(r)
<1>1. /\ pc[r] = "fullVoucher" /\ UNCHANGED <<s2s, portal>>
      /\ s2s[r] = <<>> /\ settled[r] = {} /\ portal[r] = "none"
  BY DEF FullVoucher, Account, Fresh, RequestInv, Collected, Early, Late
<1>2. /\ pc'[r] # "done"
      /\ settled'[r] = settled[r] \/ settled'[r] = settled[r] \cup {"gv"}
      /\ faults'[r] = faults[r] \/ Met(r, "lostReply")
  BY FullVoucherMoves DEF Moved
<1> QED
  BY <1>1, <1>2, QuietStep, TakingStep

LEMMA FullIxigoMoneyPromised ==
  ASSUME TypeOK, RequestInv, NEW r \in Requests, Account(r), FullIxigoMoney(r)
  PROVE  Promised(r)
<1>1. pc[r] = "fullIxigo" /\ UNCHANGED <<s2s, portal>> /\ portal[r] = "none"
  BY DEF FullIxigoMoney, RequestInv, Collected, Late
<1>2. /\ pc'[r] # "done"
      /\ faults'[r] = faults[r] \/ Met(r, "lostReply")
      /\ \/ settled'[r] = settled[r]
         \/ /\ settled'[r] = settled[r] \cup {"ixigoMoney"}
            /\ TRUE \in FullIxigoMoneyPayment(r)
  BY FullIxigoMoneyMoves DEF Moved
<1>3. TRUE \in FullIxigoMoneyPayment(r) => settled[r] = {} /\ s2s[r] = <<>>
  <2> SUFFICES ASSUME TRUE \in FullIxigoMoneyPayment(r) PROVE settled[r] = {} /\ s2s[r] = <<>>
    OBVIOUS
  <2>1. req[r].paymentOption = "ixigoMoney"
    BY DEF FullIxigoMoneyPayment
  <2>2. settled[r] = {}
    BY <1>1, <2>1 DEF RequestInv, Collected, Account, Redeemed
  <2>3. s2s[r] = <<>>
    BY <1>1, <2>1 DEF Account, Told, GoesOnRefused, Late
  <2> QED
    BY <2>2, <2>3
<1> QED
  BY <1>1, <1>2, <1>3, QuietStep, TakingStep

LEMMA CaptureWalletPromised ==
  ASSUME TypeOK, RequestInv, NEW r \in Requests, Account(r), CaptureWallet(r)
  PROVE  Promised(r)
<1>1. pc[r] = "fullWallet" /\ UNCHANGED <<s2s, portal>> /\ portal[r] = "none"
  BY DEF CaptureWallet, RequestInv, Collected, Late
<1>2. /\ pc'[r] # "done"
      /\ faults'[r] = faults[r] \/ Met(r, "lostReply")
      /\ \/ settled'[r] = settled[r]
         \/ settled'[r] = settled[r] \cup {"ew"} /\ TRUE \in FullWalletPayment(r)
  BY CaptureWalletMoves DEF Moved
<1>3. TRUE \in FullWalletPayment(r) => settled[r] = {} /\ s2s[r] = <<>>
  <2> SUFFICES ASSUME TRUE \in FullWalletPayment(r) PROVE settled[r] = {} /\ s2s[r] = <<>>
    OBVIOUS
  <2>1. req[r].paymentOption = "ew"
    BY DEF FullWalletPayment
  <2>2. settled[r] = {}
    BY <1>1, <2>1 DEF RequestInv, Collected, Account, Redeemed
  <2>3. s2s[r] = <<>>
    BY <1>1, <2>1 DEF Account, Told, GoesOnRefused, Late
  <2> QED
    BY <2>2, <2>3
<1> QED
  BY <1>1, <1>2, <1>3, QuietStep, TakingStep

(* The LOB is told. *)
LEMMA TellingPromised ==
  ASSUME TypeOK, RequestInv, NEW r \in Requests, Account(r), NotifyFailure(r) \/ NotifySuccess(r)
  PROVE  Promised(r)
<1>1. /\ UNCHANGED <<settled, portal, faults>> /\ portal[r] = "none"
      /\ pc[r] \in {"notifyFailure", "notifySuccess"}
  BY DEF NotifyFailure, NotifySuccess, RequestInv, Collected, Late, history
<1>2. pc'[r] # "done"
  <2>1. NotifySuccess(r) => pc'[r] = "log"
    BY GotoEffect DEF NotifySuccess
  <2> QED
    BY <2>1, NotifyFailureMoves DEF Moved
<1>3. s2s[r] = <<>>
  BY <1>1 DEF RequestInv, Account, Told, GoesOnRefused, Late, Failures, CompleteSuccess
<1>4. CASE s2s'[r] = s2s[r]
  BY <1>1, <1>2, <1>4, QuietStep
<1>5. Answer(r) = "open" /\ Answer(r)' = "open" /\ Lob(r) = "silent" /\ Money(r)' = Money(r)
  BY <1>1, <1>2, <1>3 DEF Answer, Lob, Money
<1>6. <<TRUE>> # <<>> /\ <<FALSE>> # <<>> /\ <<TRUE>> # <<FALSE>>
  OBVIOUS
<1>7. CASE NotifyFailure(r) /\ s2s'[r] # s2s[r]
  <2>1. s2s'[r] = <<FALSE>>
    BY <1>3, <1>7, NotifyFailureMoves, ToldMoves
  <2>2. Lob(r)' = "failed"
    BY <1>6, <2>1 DEF Lob
  <2>3. settled[r] # {} => faults[r] # {}
    BY <1>7 DEF NotifyFailure, Account, Redeemed, Late, Reversing
  <2>4. Money(r) = "none" \/ faults[r] # {}
    BY <1>1, <2>3 DEF Money
  <2> QED
    BY <1>1, <1>5, <2>2, <2>4 DEF Promised, ReportsFailure
<1>8. CASE NotifySuccess(r) /\ s2s'[r] # s2s[r]
  <2>1. s2s'[r] = <<TRUE>>
    BY <1>3, <1>8, ToldMoves DEF NotifySuccess
  <2>2. Lob(r)' = "paid"
    BY <1>6, <2>1 DEF Lob
  <2>3. settled[r] # {}
    BY <1>8 DEF NotifySuccess, Account, Redeemed, Told
  <2>4. Money(r) = "collected"
    BY <2>3 DEF Money
  <2> QED
    BY <1>1, <1>5, <2>2, <2>4 DEF Promised, Confirms
<1> QED
  BY <1>4, <1>7, <1>8

(* The portal initiates the payment. *)
LEMMA InitPaymentPromised ==
  ASSUME TypeOK, RequestInv, NEW r \in Requests, Account(r), InitPayment(r)
  PROVE  Promised(r)
<1>1. /\ pc[r] = "initPayment" /\ pc'[r] = "logResult" /\ UNCHANGED <<settled, s2s>>
      /\ faults'[r] = faults[r] \/ Met(r, "portalReply")
      /\ portal'[r] = portal[r] \/ (portal'[r] = "initiated" /\ resp[r].amount # NoAmount)
  BY InitPaymentMoves DEF InitPayment
<1>2. CASE portal'[r] = portal[r]
  BY <1>1, <1>2, QuietStep
<1>3. CASE portal'[r] = "initiated" /\ resp[r].amount # NoAmount
  <2>1. portal[r] = "none" /\ settled[r] = {} /\ s2s[r] = <<>>
    BY <1>1, <1>3 DEF Account, Taken, Told, RequestInv, Collected
  <2>2. /\ Money(r) = "none" /\ Lob(r) = "silent" /\ Money(r)' = "initiated" /\ Lob(r)' = "silent"
        /\ Answer(r) = "open" /\ Answer(r)' = "open"
    BY <1>1, <1>3, <2>1 DEF Money, Lob, Answer
  <2>3. Tracked(r)
    BY <1>1 DEF Tracked, Met
  <2> QED
    BY <2>2, <2>3 DEF Promised, Takes
<1> QED
  BY <1>1, <1>2, <1>3

LEMMA LoggingPromised ==
  ASSUME TypeOK, RequestInv, NEW r \in Requests, Account(r),
         LogResponse(r) \/ Dispatch(r) \/ LogResult(r)
  PROVE  Promised(r)
<1>1. /\ UNCHANGED <<settled, s2s, portal>>
      /\ pc[r] \in Late /\ pc[r] # "done"
  BY DEF LogResponse, Dispatch, LogResult, outside, Late
<1>2. \/ /\ resp'[r].success = resp[r].success /\ resp'[r].decision = resp[r].decision
         /\ UNCHANGED faults
      \/ pc'[r] = "done" /\ resp'[r].success = FALSE /\ Met(r, "logRejected")
  BY LogOrAbandonMoves, DispatchMoves DEF LogResponse, LogResult, Moved
<1>3. CASE pc'[r] = "done"
  BY <1>1, <1>2, <1>3, AnsweringStep
<1>4. CASE pc'[r] # "done"
  BY <1>1, <1>2, <1>4, QuietStep
<1> QED
  BY <1>3, <1>4

LEMMA StepPromised ==
  ASSUME TypeOK, RequestInv, NEW r \in Requests, Account(r), Step(r) \/ Unblock(r)
  PROVE  Promised(r)
<1>out. UNCHANGED outside => UNCHANGED <<settled, s2s, portal>>
  BY DEF outside
<1>1. CASE Approach(r)
  BY <1>1, ApproachPromised
<1>2. CASE FullVoucher(r) \/ FullIxigoMoney(r) \/ CaptureWallet(r)
  BY <1>2, FullVoucherPromised, FullIxigoMoneyPromised, CaptureWalletPromised
<1>3. CASE NotifyFailure(r) \/ NotifySuccess(r) \/ InitPayment(r)
  BY <1>3, TellingPromised, InitPaymentPromised
<1>4. CASE LogResponse(r) \/ Dispatch(r) \/ LogResult(r)
  BY <1>4, LoggingPromised
<1>5. CASE Validate(r)
  <2>1. UNCHANGED <<settled, s2s, portal>>
    BY <1>5, <1>out DEF Validate
  <2> QED
    BY <1>5, <2>1, ValidateMoves, QuietStep DEF Moved, Untroubled
<1>6. CASE InsertNoCostEmiAudit(r)
  <2>1. UNCHANGED <<settled, s2s, portal, faults>> /\ pc[r] = "audit"
    BY <1>6, <1>out DEF InsertNoCostEmiAudit, history
  <2>2. pc'[r] # "done"
    BY <1>6, GotoEffect, ThrowEffect DEF InsertNoCostEmiAudit
  <2> QED
    BY <2>1, <2>2, QuietStep
<1>7. CASE ReverseCapture(r)
  <2>1. UNCHANGED <<settled, s2s, portal, faults>> /\ pc[r] = "reverseCapture"
    BY <1>7 DEF ReverseCapture, history
  <2>2. pc'[r] # "done"
    BY <1>7, GotoEffect DEF ReverseCapture
  <2> QED
    BY <2>1, <2>2, QuietStep
<1>8. CASE PostCheck(r)
  <2>1. UNCHANGED <<settled, s2s, portal>>
    BY <1>8, <1>out DEF PostCheck
  <2>2. pc[r] # "done" /\ pc'[r] # "done" /\ UNCHANGED faults
    BY <1>8, PostCheckMoves DEF Moved
  <2> QED
    BY <2>1, <2>2, QuietStep
<1>9. CASE PrepareResponse(r)
  <2>1. UNCHANGED <<settled, s2s, portal>>
    BY <1>9, <1>out DEF PrepareResponse
  <2>2. /\ pc[r] # "done" /\ pc'[r] # "done"
        /\ faults'[r] = faults[r] \/ Met(r, "unparsable")
    BY <1>9, PrepareResponseMoves DEF Untroubled
  <2> QED
    BY <2>1, <2>2, QuietStep
<1>10. CASE Unblock(r)
  <2>1. UNCHANGED <<pc, resp, settled, s2s, portal, faults>>
    BY <1>10 DEF Unblock, history
  <2> QED
    BY <2>1 DEF Promised, Unseen, Money, Lob, Answer, AnsweredPaid, HandedOff
<1> QED
  BY <1>1, <1>2, <1>3, <1>4, <1>5, <1>6, <1>7, <1>8, <1>9, <1>10 DEF Step, Approach

(* What the checkout sees of the other requests stays the same. *)
LEMMA OthersUnseen ==
  ASSUME TypeOK, NEW r \in Requests, Step(r) \/ Unblock(r), NEW q \in Requests \ {r}
  PROVE  Unseen(q)
<1>1. /\ pc'[q] = pc[q] /\ resp'[q] = resp[q] /\ settled'[q] = settled[q]
      /\ portal'[q] = portal[q] /\ s2s'[q] = s2s[q] /\ faults'[q] = faults[q]
  BY StepsAreOwn, OthersUndisturbed DEF OthersStay, Undisturbed
<1> QED
  BY <1>1 DEF Unseen, Money, Lob, Answer, AnsweredPaid, HandedOff

(* From one request to all: the functions the checkout's variables are.    *)
LEMMA PromisedNext ==
  ASSUME NEW r \in Requests, Promised(r), \A q \in Requests \ {r} : Unseen(q)
  PROVE  Promise!Next \/ UNCHANGED Promise!vars
<1> DEFINE money   == [q \in Requests |-> Money(q)]
           lob     == [q \in Requests |-> Lob(q)]
           answer  == [q \in Requests |-> Answer(q)]
           muddled == [q \in Requests |-> faults[q] # {}]
<1>1. /\ money[r] = Money(r) /\ lob[r] = Lob(r) /\ answer[r] = Answer(r)
      /\ muddled[r] = (faults[r] # {})
      /\ muddled'[r] = (faults'[r] # {})
  OBVIOUS
<1>money. ASSUME NEW x, Money(r)' = x PROVE money' = [money EXCEPT ![r] = x]
  BY <1>money DEF Unseen
<1>lob. ASSUME NEW x, Lob(r)' = x PROVE lob' = [lob EXCEPT ![r] = x]
  BY <1>lob DEF Unseen
<1>answer. ASSUME NEW x, Answer(r)' = x PROVE answer' = [answer EXCEPT ![r] = x]
  BY <1>answer DEF Unseen
<1>muddled. ASSUME NEW x \in BOOLEAN, (faults'[r] # {}) = x
            PROVE  muddled' = [muddled EXCEPT ![r] = x]
  BY <1>muddled DEF Unseen
<1>2. /\ [money EXCEPT ![r] = Money(r)] = money
      /\ [lob EXCEPT ![r] = Lob(r)] = lob
      /\ [answer EXCEPT ![r] = Answer(r)] = answer
      /\ [muddled EXCEPT ![r] = (faults[r] # {})] = muddled
  OBVIOUS
<1>same. /\ Money(r)' = Money(r) => money' = money
         /\ Lob(r)' = Lob(r) => lob' = lob
         /\ Answer(r)' = Answer(r) => answer' = answer
         /\ (faults'[r] # {} <=> faults[r] # {}) => muddled' = muddled
  BY <1>2, <1>money, <1>lob, <1>answer, <1>muddled
<1>track. Tracked(r) => muddled' = muddled \/ muddled' = [muddled EXCEPT ![r] = TRUE]
  BY <1>same, <1>muddled DEF Tracked
<1> HIDE DEF money, lob, answer, muddled
<1>3. CASE Unseen(r)
  <2>1. money' = money /\ lob' = lob /\ answer' = answer /\ muddled' = muddled
    BY <1>3, <1>same DEF Unseen
  <2> QED
    BY <2>1 DEF Promise!vars, money, lob, answer, muddled
<1>4. CASE LosesTrack(r)
  <2>1. /\ answer[r] = "open" /\ muddled' = [muddled EXCEPT ![r] = TRUE]
        /\ money' = money /\ lob' = lob /\ answer' = answer
    BY <1>1, <1>4, <1>same, <1>muddled DEF LosesTrack
  <2>2. Promise!LoseTrack(r)
    BY <2>1 DEF Promise!LoseTrack, money, lob, answer, muddled
  <2> QED
    BY <2>2 DEF Promise!Next
<1>5. CASE Confirms(r)
  <2>1. /\ answer[r] = "open" /\ lob[r] = "silent" /\ money[r] = "collected"
        /\ lob' = [lob EXCEPT ![r] = "paid"]
        /\ money' = money /\ answer' = answer /\ muddled' = muddled
    BY <1>1, <1>5, <1>same, <1>lob DEF Confirms
  <2>2. Promise!ConfirmToLob(r)
    BY <2>1 DEF Promise!ConfirmToLob, money, lob, answer, muddled
  <2> QED
    BY <2>2 DEF Promise!Next
<1>6. CASE ReportsFailure(r)
  <2>1. /\ answer[r] = "open" /\ lob[r] = "silent" /\ (money[r] = "none" \/ muddled[r])
        /\ lob' = [lob EXCEPT ![r] = "failed"]
        /\ money' = money /\ answer' = answer /\ muddled' = muddled
    BY <1>1, <1>6, <1>same, <1>lob DEF ReportsFailure
  <2>2. Promise!ReportFailureToLob(r)
    BY <2>1 DEF Promise!ReportFailureToLob, money, lob, answer, muddled
  <2> QED
    BY <2>2 DEF Promise!Next
<1>7. ASSUME NEW how \in {"collected", "initiated"}, Takes(r, how)
      PROVE  Promise!Next
  <2>1. /\ answer[r] = "open" /\ money[r] = "none" /\ lob[r] = "silent"
        /\ money' = [money EXCEPT ![r] = how] /\ lob' = lob /\ answer' = answer
        /\ muddled' = muddled \/ muddled' = [muddled EXCEPT ![r] = TRUE]
    BY <1>1, <1>7, <1>same, <1>money, <1>track DEF Takes
  <2>2. Promise!Take(r, how)
    BY <2>1 DEF Promise!Take, Promise!Track, money, lob, answer, muddled
  <2> QED
    BY <2>2 DEF Promise!Next
<1>8. ASSUME NEW a \in {"paid", "portal", "failed"}, Answers(r, a)
      PROVE  Promise!Next
  <2>1. /\ answer[r] = "open" /\ answer' = [answer EXCEPT ![r] = a]
        /\ money' = money /\ lob' = lob
        /\ muddled' = muddled \/ muddled' = [muddled EXCEPT ![r] = TRUE]
    BY <1>1, <1>8, <1>same, <1>answer, <1>track DEF Answers
  <2>2. /\ a = "paid" => money[r] = "collected" /\ lob[r] # "failed"
        /\ a = "portal" => money[r] # "collected" /\ lob[r] = "silent"
        /\ a = "failed" => money[r] = "none" \/ muddled'[r]
    BY <1>1, <1>8 DEF Answers
  <2>3. (CASE a = "paid"   -> money[r] = "collected" /\ lob[r] # "failed"
           [] a = "portal" -> money[r] # "collected" /\ lob[r] = "silent"
           [] a = "failed" -> money[r] = "none" \/ muddled'[r])
    BY <2>2
  <2>4. Promise!Answer(r, a)
    BY <2>1, <2>3 DEF Promise!Answer, Promise!Track, money, lob, answer, muddled
  <2> QED
    BY <2>4 DEF Promise!Next
<1> QED
  BY <1>3, <1>4, <1>5, <1>6, <1>7, <1>8 DEF Promised

LEMMA PromiseInit == Init => Promise!Init
<1> SUFFICES ASSUME Init, NEW r \in Requests
             PROVE  /\ Money(r) = "none" /\ Lob(r) = "silent" /\ Answer(r) = "open"
                    /\ faults[r] = {}
  BY DEF Promise!Init
<1> QED
  BY DEF Init, Money, Lob, Answer

LEMMA PromiseKept ==
  TypeOK /\ RequestInv /\ SafetyInv /\ [Next]_vars => [Promise!Next]_(Promise!vars)
<1> SUFFICES ASSUME TypeOK, RequestInv, SafetyInv, [Next]_vars
             PROVE  Promise!Next \/ UNCHANGED Promise!vars
  OBVIOUS
<1>1. UNCHANGED vars => UNCHANGED Promise!vars
  BY DEF vars, outside, history, Promise!vars, Money, Lob, Answer, AnsweredPaid, HandedOff
<1>2. CASE Answered
  BY <1>1, <1>2 DEF Answered
<1>3. ASSUME NEW r \in Requests, Step(r) \/ Unblock(r)
      PROVE  Promise!Next \/ UNCHANGED Promise!vars
  <2>1. Account(r)
    BY DEF SafetyInv
  <2> QED
    BY <1>3, <2>1, StepPromised, OthersUnseen, PromisedNext
<1> QED
  BY <1>1, <1>2, <1>3 DEF Next

(* The pipeline implements the checkout: for any number of requests that   *)
(* share holds, whatever is refused, lost or rejected, every step is one   *)
(* the checkout allows or does not see.                                    *)
THEOREM PipelineImplementsCheckout == Spec => CheckoutImplemented
<1>1. Spec => Promise!Spec
  BY PromiseInit, PromiseKept, SafetyInductive, PTL DEF Spec, Promise!Spec
<1> QED
  BY <1>1 DEF CheckoutImplemented

====
