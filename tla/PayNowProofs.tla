---------------------------- MODULE PayNowProofs ----------------------------
(***************************************************************************)
(* Proofs about PayNow: its type invariant, and that no request collects   *)
(* its money twice.                                                        *)
(***************************************************************************)
EXTENDS PayNow, SequenceTheorems, FiniteSetTheorems, TLAPS

USE PayNowAssumption DEF PayNowAssumption

(* The type invariant, one part per group of variables. *)
BeanType == req \in [Requests -> RequestType] /\ valid \in [Requests -> ValidationType]

AnswerType == pc \in [Requests -> Locations] /\ resp \in [Requests -> ResponseType]

OutsideType ==
  /\ holds \in [Holds -> [state : {"free", "held", "captured", "released"}, amount : Amount]]
  /\ voucher \in [Requests -> {"none", "blocked", "redeemed", "released"}]
  /\ settled \in [Requests -> SUBSET Instruments]
  /\ s2s \in [Requests -> Seq(BOOLEAN)]
  /\ unblock \in [Requests -> {"idle", "running", "done"}]
  /\ portal \in [Requests -> {"none", "initiated"}]

HistoryType == faults \in [Requests -> SUBSET Faults] /\ profileCode \in {"clean", "customised"}

LEMMA TypeParts ==
  /\ TypeOK <=> BeanType /\ AnswerType /\ OutsideType /\ HistoryType
  /\ TypeOK' <=> BeanType' /\ AnswerType' /\ OutsideType' /\ HistoryType'
BY DEF TypeOK, BeanType, AnswerType, OutsideType, HistoryType

------------------------------------------------------------------------------
(* Amounts. *)

LEMMA RoundingTyped ==
  ASSUME NEW a \in Amount
  PROVE  /\ RoundToRupees(a) \in Amount
         /\ CeilTillTwoDecimalPlaces(a) \in Amount
BY DEF Amount, RoundToRupees, CeilTillTwoDecimalPlaces, UpToPaisa, DownToPaisa, Rupee, Paisa

LEMMA CeilTyped == \A a \in Int : CeilTillTwoDecimalPlaces(a) \in Amount
BY DEF Amount, CeilTillTwoDecimalPlaces, UpToPaisa, DownToPaisa, Rupee, Paisa

(* The amount for the portal covers what is left after the credits, and    *)
(* exceeds it by less than a paisa and a hair.                             *)
LEMMA PortalAmountCovers ==
  ASSUME NEW total \in Amount, NEW w \in Amount, NEW v \in Amount, NEW i \in Amount,
         NEW a \in AmountToCollectFromPG(total, w, v, i)
  PROVE  /\ a \in Amount
         /\ a + w + v + i >= total
         /\ w + v + i <= total => a + w + v + i <= total + Paisa
<1> DEFINE rest == total - w - v - i
<1>1. \A b \in Int : b > 0 => /\ UpToPaisa(b) >= b
                              /\ UpToPaisa(b) < b + Paisa
  BY DEF UpToPaisa, DownToPaisa, Paisa
<1>2. PICK high \in {0, 1} : a = CeilTillTwoDecimalPlaces(rest + high)
  BY DEF AmountToCollectFromPG, Amount
<1> QED
  BY <1>1, <1>2, CeilTyped DEF CeilTillTwoDecimalPlaces, Amount, Paisa
------------------------------------------------------------------------------
(* How the parts of steps keep the types. *)

LEMMA GotoTyped ==
  ASSUME AnswerType, NEW r \in Requests, NEW l \in Locations, Goto(r, l)
  PROVE  pc' \in [Requests -> Locations]
BY DEF AnswerType, Goto

LEMMA DecideTyped ==
  ASSUME AnswerType, NEW r \in Requests, NEW d \in Decisions, Decide(r, d)
  PROVE  resp' \in [Requests -> ResponseType]
BY DEF AnswerType, Decide, ResponseType

LEMMA ThrowTyped ==
  ASSUME AnswerType, NEW r \in Requests, Throw(r)
  PROVE  AnswerType'
<1>1. pc' \in [Requests -> Locations]
  BY GotoTyped DEF Throw, Locations
<1>2. [resp[r] EXCEPT !.success = FALSE] \in ResponseType
  BY DEF AnswerType, ResponseType
<1> QED
  BY <1>1, <1>2 DEF AnswerType, Throw

LEMMA AbandonTyped ==
  ASSUME AnswerType, NEW r \in Requests, Abandon(r)
  PROVE  AnswerType'
BY DEF AnswerType, Abandon, Goto, ResponseType, NewResponse, Locations, Decisions, NoAmount

LEMMA RefuseTyped ==
  ASSUME AnswerType, NEW r \in Requests, NEW d \in Decisions, NEW l \in Locations, Refuse(r, d, l)
  PROVE  AnswerType'
<1>1. pc' \in [Requests -> Locations]
  BY GotoTyped DEF Refuse
<1>2. [resp[r] EXCEPT !.success = FALSE, !.decision = d] \in ResponseType
  BY DEF AnswerType, ResponseType
<1> QED
  BY <1>1, <1>2 DEF AnswerType, Refuse

LEMMA FaultTyped ==
  ASSUME HistoryType, NEW r \in Requests, NEW f \in Faults, Fault(r, f)
  PROVE  faults' \in [Requests -> SUBSET Faults]
BY DEF HistoryType, Fault

LEMMA FieldsTyped ==
  /\ \A a \in ResponseType : [a EXCEPT !.agentCode = TRUE] \in ResponseType
  /\ \A f \in RequestType, h \in Holds, m \in Amount :
       [f EXCEPT !.walletId = h, !.walletAmount = m] \in RequestType
  /\ \A h \in [state : {"free", "held", "captured", "released"}, amount : Amount],
        t \in {"captured", "released"} :
       [h EXCEPT !.state = t] \in [state : {"free", "held", "captured", "released"}, amount : Amount]
<1>1. \A a \in ResponseType : [a EXCEPT !.agentCode = TRUE] \in ResponseType
  BY DEF ResponseType
<1>2. \A f \in RequestType, h \in Holds, m \in Amount :
        [f EXCEPT !.walletId = h, !.walletAmount = m] \in RequestType
  BY DEF RequestType
<1> QED
  BY <1>1, <1>2

LEMMA SettleTyped ==
  ASSUME OutsideType, NEW r \in Requests, NEW i \in Instruments, Settle(r, i)
  PROVE  settled' \in [Requests -> SUBSET Instruments]
BY DEF OutsideType, Settle

LEMMA PlaceHoldTyped ==
  ASSUME OutsideType, NEW h \in Holds, NEW a \in WalletAmounts, PlaceHold(h, a)
  PROVE  holds' \in [Holds -> [state : {"free", "held", "captured", "released"}, amount : Amount]]
BY DEF OutsideType, PlaceHold

LEMMA S2STyped ==
  ASSUME OutsideType, NEW r \in Requests, NEW b \in BOOLEAN, MakeS2SCallIfEligible(r, b)
  PROVE  s2s' \in [Requests -> Seq(BOOLEAN)]
<1>1. Append(s2s[r], b) \in Seq(BOOLEAN)
  BY AppendProperties DEF OutsideType
<1> QED
  BY <1>1 DEF OutsideType, MakeS2SCallIfEligible

LEMMA UnchangedTyped ==
  /\ BeanType /\ UNCHANGED bean => BeanType'
  /\ OutsideType /\ UNCHANGED outside => OutsideType'
  /\ HistoryType /\ UNCHANGED history => HistoryType'
  /\ AnswerType /\ UNCHANGED <<pc, resp>> => AnswerType'
BY DEF BeanType, OutsideType, HistoryType, AnswerType, bean, outside, history
------------------------------------------------------------------------------
(* Every step keeps the types. *)

LEMMA DoWalletAuthTyped ==
  ASSUME TypeOK, NEW r \in Requests, NEW l \in Locations, DoWalletAuth(r, l)
  PROVE  /\ AnswerType'
         /\ req' \in [Requests -> RequestType]
         /\ holds' \in [Holds -> [state : {"free", "held", "captured", "released"}, amount : Amount]]
         /\ faults' \in [Requests -> SUBSET Faults]
<1> USE TypeParts
<1>1. CASE /\ \E h \in Holds, a \in WalletAmounts :
                /\ PlaceHold(h, a)
                /\ req' = [req EXCEPT ![r].walletId = h, ![r].walletAmount = RoundToRupees(a)]
           /\ Goto(r, l)
           /\ UNCHANGED <<resp, faults>>
  <2>1. PICK h \in Holds, a \in WalletAmounts :
           /\ PlaceHold(h, a)
           /\ req' = [req EXCEPT ![r].walletId = h, ![r].walletAmount = RoundToRupees(a)]
    BY <1>1
  <2>2. req' \in [Requests -> RequestType]
    <3>1. RoundToRupees(a) \in Amount
      BY RoundingTyped
    <3>2. [req[r] EXCEPT !.walletId = h, !.walletAmount = RoundToRupees(a)] \in RequestType
      BY <3>1, FieldsTyped DEF BeanType
    <3>3. req' = [req EXCEPT ![r] = [req[r] EXCEPT !.walletId = h, !.walletAmount = RoundToRupees(a)]]
      BY <2>1
    <3> QED
      BY <3>2, <3>3 DEF BeanType
  <2> QED
    BY <1>1, <2>1, <2>2, GotoTyped, PlaceHoldTyped DEF AnswerType, HistoryType
<1>2. CASE /\ Goto(r, IF req[r].walletId = NoHold THEN "postCheck" ELSE l)
           /\ UNCHANGED <<resp, req, holds, faults>>
  BY <1>2, GotoTyped DEF AnswerType, HistoryType, BeanType, OutsideType, Locations
<1>3. CASE /\ \E h \in Holds, a \in WalletAmounts : PlaceHold(h, a)
           /\ Fault(r, "lostReply") /\ Throw(r) /\ UNCHANGED req
  BY <1>3, ThrowTyped, FaultTyped, PlaceHoldTyped DEF BeanType, Faults
<1>4. CASE Throw(r) /\ UNCHANGED <<req, holds, faults>>
  BY <1>4, ThrowTyped DEF HistoryType, BeanType, OutsideType
<1> QED
  BY <1>1, <1>2, <1>3, <1>4 DEF DoWalletAuth

LEMMA GatesTyped ==
  ASSUME TypeOK, NEW r \in Requests,
         LogRequest(r) \/ FetchBookingDetails(r) \/ SaveCard(r)
  PROVE  TypeOK'
<1> USE TypeParts, UnchangedTyped
<1>1. AnswerType'
  <2>1. CASE LogRequest(r)
    BY <2>1, GotoTyped, ThrowTyped DEF LogRequest, AnswerType, Locations
  <2>2. CASE FetchBookingDetails(r)
    BY <2>2, GotoTyped, DecideTyped, ThrowTyped
       DEF FetchBookingDetails, AnswerType, Locations, Decisions
  <2>3. CASE SaveCard(r)
    BY <2>3, GotoTyped, DecideTyped, ThrowTyped DEF SaveCard, AnswerType, Locations, Decisions
  <2> QED
    BY <2>1, <2>2, <2>3
<1>2. UNCHANGED <<bean, outside, history>>
  BY DEF LogRequest, FetchBookingDetails, SaveCard
<1> QED
  BY <1>1, <1>2

LEMMA HandshakeTyped ==
  ASSUME TypeOK, NEW r \in Requests, req[r].walletId \in Holds, Handshake(r)
  PROVE  pc' \in [Requests -> Locations] /\ req' \in [Requests -> RequestType]
<1> USE TypeParts
<1>1. holds[req[r].walletId].amount \in Amount
  BY DEF OutsideType
<1>2. CASE Goto(r, "noCostEmi") /\ req' = [req EXCEPT ![r].walletInfo = holds[req[r].walletId].amount]
  <2>1. [req[r] EXCEPT !.walletInfo = holds[req[r].walletId].amount] \in RequestType
    BY <1>1 DEF BeanType, RequestType
  <2>2. req' \in [Requests -> RequestType]
    BY <1>2, <2>1 DEF BeanType
  <2> QED
    BY <1>2, <2>2, GotoTyped DEF Locations
<1>3. CASE Goto(r, "reverseHandshake") /\ UNCHANGED req
  BY <1>3, GotoTyped DEF BeanType, Locations
<1> QED
  BY <1>2, <1>3 DEF Handshake

(* A request looks at a hold a second time only when it names one: without *)
(* this the type invariant is not inductive.                               *)
HoldNamed ==
  \A r \in Requests :
    pc[r] \in {"reAuth", "reInfo", "reverseHandshake"} => req[r].walletId \in Holds

LEMMA WalletTyped ==
  ASSUME TypeOK, HoldNamed, NEW r \in Requests,
         WalletAuth(r) \/ GetWalletInfo(r) \/ ReAuth(r) \/ GetWalletInfoAgain(r)
  PROVE  TypeOK'
<1> USE TypeParts DEF Locations
<1>1. CASE WalletAuth(r)
  <2>1. /\ AnswerType'
        /\ req' \in [Requests -> RequestType]
        /\ holds' \in [Holds -> [state : {"free", "held", "captured", "released"}, amount : Amount]]
        /\ faults' \in [Requests -> SUBSET Faults]
    BY <1>1, DoWalletAuthTyped, GotoTyped
       DEF WalletAuth, AnswerType, BeanType, OutsideType, HistoryType
  <2> QED
    BY <1>1, <2>1 DEF WalletAuth, BeanType, OutsideType, HistoryType
<1>2. CASE ReAuth(r)
  <2>1. /\ AnswerType'
        /\ req' \in [Requests -> RequestType]
        /\ holds' \in [Holds -> [state : {"free", "held", "captured", "released"}, amount : Amount]]
        /\ faults' \in [Requests -> SUBSET Faults]
    <3>1. CASE Throw(r) /\ UNCHANGED <<req, holds, faults>>
      BY <3>1, ThrowTyped DEF BeanType, OutsideType, HistoryType
    <3>2. CASE Goto(r, "reInfo") /\ UNCHANGED <<resp, req, holds, faults>>
      BY <3>2, GotoTyped DEF AnswerType, BeanType, OutsideType, HistoryType
    <3>3. CASE DoWalletAuth(r, "reInfo")
      BY <3>3, DoWalletAuthTyped
    <3> QED
      BY <1>2, <3>1, <3>2, <3>3 DEF ReAuth
  <2> QED
    BY <1>2, <2>1 DEF ReAuth, BeanType, OutsideType, HistoryType

<1>3. CASE GetWalletInfo(r)
  <2>1. AnswerType' /\ BeanType'
    <3>1. CASE req[r].walletId = NoHold
      BY <1>3, <3>1, GotoTyped DEF GetWalletInfo, AnswerType, BeanType
    <3>2. CASE req[r].walletId # NoHold
      <4>1. req[r].walletId \in Holds
        BY <3>2 DEF BeanType, RequestType
      <4> QED
        BY <1>3, <3>2, <4>1, HandshakeTyped, GotoTyped, ThrowTyped
           DEF GetWalletInfo, AnswerType, BeanType
    <3> QED
      BY <3>1, <3>2
  <2> QED
    BY <1>3, <2>1, UnchangedTyped DEF GetWalletInfo
<1>4. CASE GetWalletInfoAgain(r)
  <2>1. req[r].walletId \in Holds
    BY <1>4 DEF HoldNamed, GetWalletInfoAgain
  <2>2. AnswerType' /\ BeanType'
    BY <1>4, <2>1, HandshakeTyped, GotoTyped, ThrowTyped
       DEF GetWalletInfoAgain, AnswerType, BeanType
  <2> QED
    BY <1>4, <2>2, UnchangedTyped DEF GetWalletInfoAgain
<1> QED
  BY <1>1, <1>2, <1>3, <1>4

LEMMA HoldMovedTyped ==
  ASSUME OutsideType, NEW h, NEW s \in {"captured", "released"},
         holds' = [holds EXCEPT ![h] = [holds[h] EXCEPT !.state = s]]
  PROVE  holds' \in [Holds -> [state : {"free", "held", "captured", "released"}, amount : Amount]]
<1> DEFINE HoldRecord == [state : {"free", "held", "captured", "released"}, amount : Amount]
<1>1. holds \in [Holds -> HoldRecord]
  BY DEF OutsideType
<1>2. ASSUME h \in Holds PROVE [holds[h] EXCEPT !.state = s] \in HoldRecord
  <2>1. holds[h] \in HoldRecord
    BY <1>1, <1>2
  <2> QED
    BY <2>1, FieldsTyped
<1> HIDE DEF HoldRecord
<1>3. holds' \in [Holds -> HoldRecord]
  BY <1>1, <1>2
<1> QED
  BY <1>3 DEF HoldRecord

LEMMA CapturedHoldTyped ==
  ASSUME OutsideType, NEW h, holds' = [holds EXCEPT ![h].state = "captured"]
  PROVE  holds' \in [Holds -> [state : {"free", "held", "captured", "released"}, amount : Amount]]
<1>1. holds' = [holds EXCEPT ![h] = [holds[h] EXCEPT !.state = "captured"]]
  OBVIOUS
<1> QED
  BY <1>1, HoldMovedTyped

LEMMA ReverseAuthTyped ==
  ASSUME OutsideType, NEW r \in Requests, ReverseAuth(r)
  PROVE  holds' \in [Holds -> [state : {"free", "held", "captured", "released"}, amount : Amount]]
<1> DEFINE h == req[r].walletId
<1>1. CASE holds' = [holds EXCEPT ![h].state = "released"]
  <2>1. holds' = [holds EXCEPT ![h] = [holds[h] EXCEPT !.state = "released"]]
    BY <1>1
  <2> QED
    BY <2>1, HoldMovedTyped
<1>2. CASE UNCHANGED holds
  BY <1>2 DEF OutsideType
<1> QED
  BY <1>1, <1>2 DEF ReverseAuth

LEMMA BeforeValidationTyped ==
  ASSUME TypeOK, NEW r \in Requests,
         ReverseHandshake(r) \/ FetchNoCostEmi(r) \/ BlockVoucher(r) \/ Validate(r)
  PROVE  TypeOK'
<1> USE TypeParts DEF Locations
<1>1. CASE ReverseHandshake(r)
  BY <1>1, ReverseAuthTyped, ThrowTyped, UnchangedTyped DEF ReverseHandshake, OutsideType
<1>2. CASE FetchNoCostEmi(r)
  <2>1. AnswerType'
    BY <1>2, GotoTyped, ThrowTyped DEF FetchNoCostEmi, AnswerType
  <2>2. BeanType'
    BY <1>2 DEF FetchNoCostEmi, BeanType, RequestType
  <2> QED
    BY <1>2, <2>1, <2>2, UnchangedTyped DEF FetchNoCostEmi
<1>3. CASE BlockVoucher(r)
  <2>1. AnswerType'
    BY <1>3, GotoTyped, ThrowTyped, RefuseTyped DEF BlockVoucher, AnswerType, Decisions
  <2>2. BeanType'
    BY <1>3 DEF BlockVoucher, BeanType, RequestType
  <2>3. OutsideType'
    BY <1>3 DEF BlockVoucher, OutsideType
  <2>4. HistoryType'
    BY <1>3, FaultTyped DEF BlockVoucher, HistoryType, Faults
  <2> QED
    BY <2>1, <2>2, <2>3, <2>4
<1>4. CASE Validate(r)
  <2>1. AnswerType' /\ BeanType'
    <3>1. CASE Throw(r) /\ UNCHANGED valid
      BY <1>4, <3>1, ThrowTyped DEF Validate, BeanType
    <3>2. ASSUME NEW t \in Totals, NEW ok \in BOOLEAN, NEW fail \in BOOLEAN,
                 valid' = [valid EXCEPT ![r] =
                             [got |-> TRUE, total |-> t, s2s |-> ok, s2sOnFailure |-> fail]]
          PROVE  BeanType'
      BY <1>4, <3>2 DEF Validate, BeanType, ValidationType
    <3>3. ASSUME Goto(r, "fullVoucher"),
                 resp' = [resp EXCEPT ![r].success = TRUE,
                                      ![r].decision = "SUCESS_REDIRECT_TO_PORTAL"]
          PROVE  AnswerType'
      <4> DEFINE a == [resp[r] EXCEPT !.success = TRUE, !.decision = "SUCESS_REDIRECT_TO_PORTAL"]
      <4>1. a \in ResponseType
        <5>1. "SUCESS_REDIRECT_TO_PORTAL" \in Decisions /\ resp[r] \in ResponseType
          BY DEF AnswerType, Decisions
        <5> QED
          BY <5>1 DEF ResponseType
      <4>2. resp' = [resp EXCEPT ![r] = a]
        BY <3>3
      <4> QED
        BY <3>3, <4>1, <4>2, GotoTyped DEF AnswerType
    <3>4. ASSUME Refuse(r, "VALIDATION_FAILURE", "audit") \/ Refuse(r, "REFUSED", "audit") \/ Throw(r)
          PROVE  AnswerType'
      BY <3>4, RefuseTyped, ThrowTyped DEF Decisions
    <3> QED
      BY <1>4, <3>1, <3>2, <3>3, <3>4 DEF Validate
  <2> QED
    BY <1>4, <2>1, UnchangedTyped DEF Validate
<1> QED
  BY <1>1, <1>2, <1>3, <1>4


LEMMA RedeemedUnnoticedTyped ==
  ASSUME TypeOK, NEW r \in Requests, NEW i \in Instruments, NEW d \in Decisions,
         RedeemedUnnoticed(r, i, d)
  PROVE  /\ AnswerType'
         /\ settled' \in [Requests -> SUBSET Instruments]
         /\ faults' \in [Requests -> SUBSET Faults]
<1> USE TypeParts
<1>1. PICK noted \in {resp[r].decision, d} :
        resp' = [resp EXCEPT ![r].success = FALSE, ![r].decision = noted]
  BY DEF RedeemedUnnoticed
<1> DEFINE a == [resp[r] EXCEPT !.success = FALSE, !.decision = noted]
<1>2. a \in ResponseType
  BY <1>1 DEF AnswerType, ResponseType
<1>3. AnswerType'
  BY <1>1, <1>2, GotoTyped DEF RedeemedUnnoticed, AnswerType, Locations
<1> QED
  BY <1>3, SettleTyped, FaultTyped DEF RedeemedUnnoticed, Faults

LEMMA RedemptionTyped ==
  ASSUME TypeOK, NEW r \in Requests,
         \/ FullVoucher(r) \/ Unblock(r) \/ InsertNoCostEmiAudit(r) \/ FullIxigoMoney(r)
         \/ CaptureWallet(r) \/ ReverseCapture(r) \/ NotifyFailure(r)
  PROVE  TypeOK'
<1> USE TypeParts DEF Locations, Instruments
<1>1. CASE FullVoucher(r)
  <2>1. AnswerType'
    BY <1>1, GotoTyped, DecideTyped, ThrowTyped, RedeemedUnnoticedTyped
       DEF FullVoucher, AnswerType, Decisions
  <2>2. OutsideType'
    BY <1>1, SettleTyped, RedeemedUnnoticedTyped
       DEF FullVoucher, OutsideType, StartUnblock, Decisions
  <2>3. HistoryType'
    BY <1>1, RedeemedUnnoticedTyped DEF FullVoucher, HistoryType, Decisions
  <2> QED
    BY <1>1, <2>1, <2>2, <2>3, UnchangedTyped DEF FullVoucher
<1>2. CASE Unblock(r)
  <2>1. OutsideType'
    BY <1>2 DEF Unblock, OutsideType
  <2> QED
    BY <1>2, <2>1, UnchangedTyped DEF Unblock
<1>3. CASE InsertNoCostEmiAudit(r)
  BY <1>3, GotoTyped, ThrowTyped, UnchangedTyped DEF InsertNoCostEmiAudit, AnswerType
<1>4. CASE FullIxigoMoney(r)
  <2>1. AnswerType'
    BY <1>4, GotoTyped, DecideTyped, ThrowTyped, RedeemedUnnoticedTyped
       DEF FullIxigoMoney, AnswerType, Decisions
  <2>2. OutsideType' /\ HistoryType'
    BY <1>4, SettleTyped, RedeemedUnnoticedTyped
       DEF FullIxigoMoney, OutsideType, HistoryType, Decisions
  <2> QED
    BY <1>4, <2>1, <2>2, UnchangedTyped DEF FullIxigoMoney
<1>5. CASE CaptureWallet(r)
  <2>1. AnswerType'
    BY <1>5, GotoTyped, DecideTyped DEF CaptureWallet, AnswerType, Decisions
  <2>2. OutsideType'
    <3>1. settled' \in [Requests -> SUBSET Instruments]
      BY <1>5, SettleTyped DEF CaptureWallet, OutsideType
    <3>2. holds' \in [Holds -> [state : {"free", "held", "captured", "released"}, amount : Amount]]
      <4>1. \/ holds' = [holds EXCEPT ![req[r].walletId].state = "captured"]
            \/ UNCHANGED holds
        BY <1>5 DEF CaptureWallet
      <4> QED
        BY <4>1, CapturedHoldTyped DEF OutsideType
    <3> QED
      BY <1>5, <3>1, <3>2 DEF CaptureWallet, OutsideType
  <2>3. HistoryType'
    BY <1>5, FaultTyped DEF CaptureWallet, HistoryType, Faults
  <2> QED
    BY <1>5, <2>1, <2>2, <2>3, UnchangedTyped DEF CaptureWallet
<1>6. CASE ReverseCapture(r)
  BY <1>6, ReverseAuthTyped, GotoTyped, UnchangedTyped DEF ReverseCapture, OutsideType, AnswerType
<1>7. CASE NotifyFailure(r)
  <2>1. AnswerType'
    BY <1>7, GotoTyped, DecideTyped, RefuseTyped, ThrowTyped
       DEF NotifyFailure, AnswerType, Decisions
  <2>2. OutsideType'
    BY <1>7, S2STyped DEF NotifyFailure, OutsideType
  <2> QED
    BY <1>7, <2>1, <2>2, UnchangedTyped DEF NotifyFailure
<1> QED
  BY <1>1, <1>2, <1>3, <1>4, <1>5, <1>6, <1>7


LEMMA PortalAmountTyped ==
  ASSUME TypeOK, NEW r \in Requests, NEW a \in PortalAmount(r)
  PROVE  a \in Amount
<1> DEFINE w == WalletPart(r)  v == req[r].voucherRedeemed  i == req[r].ixigoMoney
<1>1. /\ w \in Amount /\ v \in Amount /\ i \in Amount
      /\ valid[r].total \in Amount
  BY DEF TypeOK, RequestType, ValidationType, WalletPart, Amount, NoAmount
<1> HIDE DEF w, v, i
<1>2. a \in AmountToCollectFromPG(valid[r].total, w, v, i) => a \in Amount
  BY <1>1, PortalAmountCovers
<1> QED
  BY <1>1, <1>2 DEF PortalAmount, w, v, i

LEMMA LogOrAbandonTyped ==
  ASSUME TypeOK, NEW r \in Requests, NEW l \in Locations, LogOrAbandon(r, l)
  PROVE  AnswerType' /\ faults' \in [Requests -> SUBSET Faults]
BY TypeParts, GotoTyped, AbandonTyped, FaultTyped DEF LogOrAbandon, AnswerType, HistoryType, Faults

LEMMA AnswerTyped ==
  ASSUME TypeOK, NEW r \in Requests, NEW ok \in BOOLEAN, NEW rurl \in {"none", "lob", "portal"},
         NEW a \in Amount \cup {NoAmount}
  PROVE  /\ [resp[r] EXCEPT !.success = ok, !.rurl = rurl] \in ResponseType
         /\ [resp[r] EXCEPT !.success = ok, !.rurl = rurl, !.amount = a] \in ResponseType
<1>1. resp[r] \in ResponseType
  BY DEF TypeOK
<1> QED
  BY <1>1 DEF ResponseType

LEMMA AnswerStepTyped ==
  ASSUME TypeOK, NEW r \in Requests, PrepareResponse(r)
  PROVE  AnswerType' /\ faults' \in [Requests -> SUBSET Faults]
<1> USE TypeParts DEF Locations
<1>1. CASE Throw(r) /\ UNCHANGED faults
  BY <1>1, ThrowTyped DEF HistoryType
<1>2. ASSUME NEW a \in ResponseType, NEW l \in {"log", "notifySuccess"}, Goto(r, l),
             UNCHANGED faults \/ FailPromoParameters(r), resp' = [resp EXCEPT ![r] = a]
      PROVE  AnswerType' /\ faults' \in [Requests -> SUBSET Faults]
  BY <1>2, GotoTyped, FaultTyped DEF FailPromoParameters, Faults, AnswerType, HistoryType
<1>3. ASSUME NEW ok \in BOOLEAN, NEW rurl \in {"none", "lob", "portal"},
             NEW l \in {"log", "notifySuccess"},
             Goto(r, l), UNCHANGED faults \/ FailPromoParameters(r),
             resp' = [resp EXCEPT ![r].success = ok, ![r].rurl = rurl]
      PROVE  AnswerType' /\ faults' \in [Requests -> SUBSET Faults]
  <2>1. resp' = [resp EXCEPT ![r] = [resp[r] EXCEPT !.success = ok, !.rurl = rurl]]
    BY <1>3
  <2>2. NoAmount \in Amount \cup {NoAmount}
    OBVIOUS
  <2>3. [resp[r] EXCEPT !.success = ok, !.rurl = rurl] \in ResponseType
    BY <2>2, AnswerTyped
  <2> QED
    BY <1>2, <1>3, <2>1, <2>3
<1>4. CASE PreparePortal(r)
  <2>1. CASE Throw(r) /\ UNCHANGED faults
    BY <2>1, <1>1
  <2>2. CASE /\ Goto(r, "log")
             /\ resp' = [resp EXCEPT ![r].success = FALSE, ![r].rurl = "portal"]
             /\ UNCHANGED faults
    BY <1>3, <2>2
  <2>3. ASSUME NEW a \in PortalAmount(r), NEW ok \in BOOLEAN,
               Goto(r, "log"), UNCHANGED faults \/ FailPromoParameters(r),
               resp' = [resp EXCEPT ![r].success = ok, ![r].rurl = "portal", ![r].amount = a]
        PROVE  AnswerType' /\ faults' \in [Requests -> SUBSET Faults]
    <3>1. a \in Amount
      BY PortalAmountTyped
    <3>2. resp' = [resp EXCEPT ![r] = [resp[r] EXCEPT !.success = ok, !.rurl = "portal", !.amount = a]]
      BY <2>3
    <3>3. [resp[r] EXCEPT !.success = ok, !.rurl = "portal", !.amount = a] \in ResponseType
      BY <3>1, AnswerTyped
    <3> QED
      BY <1>2, <2>3, <3>2, <3>3
  <2> QED
    BY <1>4, <2>1, <2>2, <2>3 DEF PreparePortal, FailPromoParameters
<1>5. CASE PrepareSuccess(r)
  BY <1>3, <1>5 DEF PrepareSuccess, FailPromoParameters
<1>6. CASE PrepareFailure(r)
  BY <1>3, <1>6 DEF PrepareFailure, FailPromoParameters
<1> QED
  BY <1>1, <1>4, <1>5, <1>6 DEF PrepareResponse

LEMMA AfterChainTyped ==
  ASSUME TypeOK, NEW r \in Requests,
         \/ PostCheck(r) \/ PrepareResponse(r) \/ NotifySuccess(r) \/ LogResponse(r)
         \/ Dispatch(r) \/ InitPayment(r) \/ LogResult(r)
  PROVE  TypeOK'
<1> USE TypeParts DEF Locations
<1>1. CASE PostCheck(r)
  <2>1. "REFUSED" \in Decisions
    BY DEF Decisions
  <2>2. CASE SetAgentCodeIfRequired(r)
    <3>1. AnswerType'
      <4>1. ASSUME Goto(r, "prepare"), resp' = [resp EXCEPT ![r].agentCode = TRUE]
            PROVE  AnswerType'
        <5>1. [resp[r] EXCEPT !.agentCode = TRUE] \in ResponseType
          BY FieldsTyped DEF AnswerType
        <5>2. pc' \in [Requests -> Locations]
          BY <4>1, GotoTyped
        <5> QED
          BY <4>1, <5>1, <5>2 DEF AnswerType
      <4> QED
        BY <2>1, <2>2, <4>1, GotoTyped, DecideTyped, ThrowTyped
           DEF SetAgentCodeIfRequired, AnswerType
    <3> QED
      BY <1>1, <2>2, <3>1, UnchangedTyped DEF PostCheck, SetAgentCodeIfRequired, HistoryType
  <2>3. CASE AnswerType' /\ UNCHANGED profileCode
    BY <1>1, <2>3, UnchangedTyped DEF PostCheck, HistoryType
  <2>4. \/ SetAgentCodeIfRequired(r)
        \/ AnswerType' /\ UNCHANGED profileCode
    BY <1>1, <2>1, GotoTyped, DecideTyped, ThrowTyped DEF PostCheck, AnswerType
  <2> QED
    BY <2>2, <2>3, <2>4
<1>2. CASE PrepareResponse(r)
  BY <1>2, AnswerStepTyped, UnchangedTyped DEF PrepareResponse, HistoryType
<1>3. CASE NotifySuccess(r)
  BY <1>3, S2STyped, GotoTyped, UnchangedTyped DEF NotifySuccess, AnswerType, OutsideType
<1>4. CASE LogResponse(r)
  BY <1>4, LogOrAbandonTyped, UnchangedTyped DEF LogResponse, HistoryType
<1>5. CASE Dispatch(r)
  BY <1>5, LogOrAbandonTyped, GotoTyped, UnchangedTyped DEF Dispatch, AnswerType, HistoryType
<1>6. CASE InitPayment(r)
  <2>1. ASSUME NEW ok \in BOOLEAN
        PROVE  [resp EXCEPT ![r].success = @ /\ ok, ![r].rurl = "none"] \in [Requests -> ResponseType]
    <3> DEFINE both == resp[r].success /\ ok
    <3>1. both \in BOOLEAN /\ NoAmount \in Amount \cup {NoAmount}
      OBVIOUS
    <3> HIDE DEF both
    <3>2. [resp[r] EXCEPT !.success = both, !.rurl = "none"] \in ResponseType
      BY <3>1, AnswerTyped
    <3>3. [resp EXCEPT ![r] = [resp[r] EXCEPT !.success = both, !.rurl = "none"]]
            \in [Requests -> ResponseType]
      BY <3>2 DEF AnswerType
    <3> QED
      BY <3>3 DEF both
  <2>2. AnswerType'
    BY <1>6, <2>1, GotoTyped DEF InitPayment, AnswerType
  <2>3. OutsideType' /\ HistoryType'
    BY <1>6, FaultTyped DEF InitPayment, OutsideType, HistoryType, Faults
  <2> QED
    BY <1>6, <2>2, <2>3, UnchangedTyped DEF InitPayment
<1>7. CASE LogResult(r)
  BY <1>7, LogOrAbandonTyped, UnchangedTyped DEF LogResult, HistoryType
<1> QED
  BY <1>1, <1>2, <1>3, <1>4, <1>5, <1>6, <1>7


LEMMA StepTyped ==
  ASSUME TypeOK, HoldNamed, NEW r \in Requests, Step(r) \/ Unblock(r)
  PROVE  TypeOK'
BY GatesTyped, WalletTyped, BeforeValidationTyped, RedemptionTyped, AfterChainTyped DEF Step

LEMMA InitTyped == Init => TypeOK
<1> SUFFICES ASSUME Init PROVE TypeOK
  OBVIOUS
<1>1. req \in [Requests -> RequestType]
  BY DEF Init
<1>2. holds \in [Holds -> [state : {"free", "held", "captured", "released"}, amount : Amount]]
  <2>1. PICK amount \in [Holds -> WalletAmounts] :
          holds = [h \in Holds |-> IF \E r \in Requests : req[r].walletId = h
                                   THEN [state |-> "held", amount |-> amount[h]]
                                   ELSE [state |-> "free", amount |-> 0]]
    BY DEF Init
  <2>2. \A h \in Holds : amount[h] \in Amount
    OBVIOUS
  <2>3. 0 \in Amount
    BY DEF Amount
  <2> QED
    BY <2>1, <2>2, <2>3
<1>3. \A r \in Requests : NoValidation \in ValidationType /\ NewResponse \in ResponseType
  BY DEF NoValidation, ValidationType, NewResponse, ResponseType, Decisions, Amount
<1>4. <<>> \in Seq(BOOLEAN)
  OBVIOUS
<1> QED
  BY <1>1, <1>2, <1>3, <1>4 DEF Init, TypeOK, Locations
------------------------------------------------------------------------------
(* What the parts of steps do to the request they are about. *)

OthersStay(r) ==
  \A q \in Requests \ {r} : /\ pc'[q] = pc[q] /\ req'[q] = req[q] /\ resp'[q] = resp[q]
                            /\ settled'[q] = settled[q] /\ portal'[q] = portal[q]

LEMMA GotoEffect ==
  ASSUME TypeOK, NEW r \in Requests, NEW l, Goto(r, l)
  PROVE  pc'[r] = l /\ \A q \in Requests \ {r} : pc'[q] = pc[q]
BY DEF TypeOK, Goto

LEMMA DecideEffect ==
  ASSUME TypeOK, NEW r \in Requests, NEW d, Decide(r, d)
  PROVE  /\ resp'[r].decision = d /\ resp'[r].success = resp[r].success
         /\ resp'[r].amount = resp[r].amount
         /\ \A q \in Requests \ {r} : resp'[q] = resp[q]
BY DEF TypeOK, Decide, ResponseType

LEMMA ThrowEffect ==
  ASSUME TypeOK, NEW r \in Requests, Throw(r)
  PROVE  /\ pc'[r] = "log"
         /\ resp'[r].decision = resp[r].decision /\ resp'[r].success = FALSE
         /\ resp'[r].amount = resp[r].amount
         /\ \A q \in Requests \ {r} : pc'[q] = pc[q] /\ resp'[q] = resp[q]
BY DEF TypeOK, Throw, Goto, ResponseType

LEMMA AbandonEffect ==
  ASSUME TypeOK, NEW r \in Requests, Abandon(r)
  PROVE  /\ pc'[r] = "done"
         /\ resp'[r].decision = "none" /\ resp'[r].success = FALSE /\ resp'[r].amount = NoAmount
         /\ \A q \in Requests \ {r} : pc'[q] = pc[q] /\ resp'[q] = resp[q]
BY DEF TypeOK, Abandon, Goto, NewResponse

LEMMA RefuseEffect ==
  ASSUME TypeOK, NEW r \in Requests, NEW d, NEW l, Refuse(r, d, l)
  PROVE  /\ pc'[r] = l
         /\ resp'[r].decision = d /\ resp'[r].success = FALSE
         /\ resp'[r].amount = resp[r].amount
         /\ \A q \in Requests \ {r} : pc'[q] = pc[q] /\ resp'[q] = resp[q]
BY DEF TypeOK, Refuse, Goto, ResponseType

LEMMA SettleEffect ==
  ASSUME TypeOK, NEW r \in Requests, NEW i, Settle(r, i)
  PROVE  /\ settled'[r] = settled[r] \cup {i}
         /\ \A q \in Requests \ {r} : settled'[q] = settled[q]
BY DEF TypeOK, Settle

LEMMA RedeemedUnnoticedEffect ==
  ASSUME TypeOK, NEW r \in Requests, NEW i, NEW d, RedeemedUnnoticed(r, i, d)
  PROVE  /\ pc'[r] = "log" /\ settled'[r] = settled[r] \cup {i}
         /\ resp'[r].success = FALSE /\ resp'[r].amount = resp[r].amount
         /\ \A q \in Requests \ {r} :
              pc'[q] = pc[q] /\ resp'[q] = resp[q] /\ settled'[q] = settled[q]
BY GotoEffect, SettleEffect DEF TypeOK, RedeemedUnnoticed, ResponseType

LEMMA LogOrAbandonEffect ==
  ASSUME TypeOK, NEW r \in Requests, NEW l, LogOrAbandon(r, l)
  PROVE  /\ \/ pc'[r] = l /\ UNCHANGED resp
            \/ pc'[r] = "done" /\ resp'[r].decision = "none"
               /\ resp'[r].success = FALSE /\ resp'[r].amount = NoAmount
         /\ \A q \in Requests \ {r} : pc'[q] = pc[q] /\ resp'[q] = resp[q]
<1>1. CASE Goto(r, l) /\ UNCHANGED resp
  BY <1>1, GotoEffect
<1>2. CASE Abandon(r)
  BY <1>2, AbandonEffect
<1> QED
  BY <1>1, <1>2 DEF LogOrAbandon

LEMMA UnchangedParts ==
  /\ UNCHANGED bean => UNCHANGED req
  /\ UNCHANGED outside => UNCHANGED <<settled, portal, holds>>
BY DEF bean, outside

LEMMA DoWalletAuthIsOwn ==
  ASSUME TypeOK, NEW r \in Requests, NEW l, DoWalletAuth(r, l)
  PROVE  \A q \in Requests \ {r} : pc'[q] = pc[q] /\ req'[q] = req[q] /\ resp'[q] = resp[q]
<1>1. CASE /\ \E h \in Holds, a \in WalletAmounts :
                req' = [req EXCEPT ![r].walletId = h, ![r].walletAmount = RoundToRupees(a)]
           /\ Goto(r, l) /\ UNCHANGED resp
  <2>1. PICK h \in Holds, a \in WalletAmounts :
           req' = [req EXCEPT ![r].walletId = h, ![r].walletAmount = RoundToRupees(a)]
    BY <1>1
  <2> QED
    BY <1>1, <2>1, GotoEffect DEF TypeOK
<1>2. CASE Goto(r, IF req[r].walletId = NoHold THEN "postCheck" ELSE l) /\ UNCHANGED <<resp, req>>
  BY <1>2, GotoEffect
<1>3. CASE Throw(r) /\ UNCHANGED req
  BY <1>3, ThrowEffect
<1> QED
  BY <1>1, <1>2, <1>3 DEF DoWalletAuth

LEMMA HandshakeIsOwn ==
  ASSUME TypeOK, NEW r \in Requests, Handshake(r)
  PROVE  \A q \in Requests \ {r} : pc'[q] = pc[q] /\ req'[q] = req[q]
BY GotoEffect DEF Handshake, TypeOK

(* A step of one request changes nothing of another. *)
LEMMA StepsAreOwn ==
  ASSUME TypeOK, NEW r \in Requests, Step(r) \/ Unblock(r)
  PROVE  OthersStay(r)
<1> SUFFICES ASSUME NEW q \in Requests \ {r}
             PROVE  /\ pc'[q] = pc[q] /\ req'[q] = req[q] /\ resp'[q] = resp[q]
                    /\ settled'[q] = settled[q] /\ portal'[q] = portal[q]
  BY DEF OthersStay
<1> DEFINE Placed == pc'[q] = pc[q]
           Answer == resp'[q] = resp[q]
<1>go. \A l : Goto(r, l) => Placed
  BY GotoEffect
<1>decide. \A d : Decide(r, d) => Answer
  BY DecideEffect
<1>throw. Throw(r) => Placed /\ Answer
  BY ThrowEffect
<1>refuse. \A d, l : Refuse(r, d, l) => Placed /\ Answer
  BY RefuseEffect
<1>settle. \A i : Settle(r, i) => settled'[q] = settled[q]
  BY SettleEffect
<1>unnoticed. \A i, d : RedeemedUnnoticed(r, i, d) => Placed /\ Answer /\ settled'[q] = settled[q]
  BY RedeemedUnnoticedEffect
<1>log. \A l : LogOrAbandon(r, l) => Placed /\ Answer
  BY LogOrAbandonEffect
<1>resp. /\ UNCHANGED resp => Answer
         /\ \A a : resp' = [resp EXCEPT ![r] = a] => Answer
  BY DEF TypeOK
<1>req. /\ UNCHANGED req => req'[q] = req[q]
        /\ \A a : req' = [req EXCEPT ![r] = a] => req'[q] = req[q]
  BY DEF TypeOK
<1>out. /\ UNCHANGED bean => req'[q] = req[q]
        /\ UNCHANGED outside => settled'[q] = settled[q] /\ portal'[q] = portal[q]
        /\ UNCHANGED settled => settled'[q] = settled[q]
        /\ UNCHANGED portal => portal'[q] = portal[q]
        /\ UNCHANGED pc => Placed
  BY DEF bean, outside
<1>1. CASE LogRequest(r)
  BY <1>1, <1>go, <1>throw, <1>resp, <1>out DEF LogRequest
<1>2. CASE FetchBookingDetails(r)
  BY <1>2, <1>go, <1>decide, <1>throw, <1>resp, <1>out DEF FetchBookingDetails
<1>3. CASE SaveCard(r)
  BY <1>3, <1>go, <1>decide, <1>throw, <1>resp, <1>out DEF SaveCard
<1>auth. \A l : DoWalletAuth(r, l) => Placed /\ Answer /\ req'[q] = req[q]
  BY DoWalletAuthIsOwn
<1>hand. Handshake(r) => Placed /\ req'[q] = req[q]
  BY HandshakeIsOwn
<1>4. CASE WalletAuth(r)
  BY <1>4, <1>auth, <1>go, <1>resp, <1>req, <1>out DEF WalletAuth
<1>5. CASE GetWalletInfo(r)
  BY <1>5, <1>hand, <1>go, <1>throw, <1>resp, <1>req, <1>out DEF GetWalletInfo
<1>6. CASE ReAuth(r)
  BY <1>6, <1>auth, <1>go, <1>throw, <1>resp, <1>req, <1>out DEF ReAuth
<1>7. CASE GetWalletInfoAgain(r)
  BY <1>7, <1>hand, <1>go, <1>throw, <1>resp, <1>req, <1>out DEF GetWalletInfoAgain
<1>8. CASE ReverseHandshake(r)
  BY <1>8, <1>throw, <1>out DEF ReverseHandshake
<1>9. CASE FetchNoCostEmi(r)
  <2>1. req'[q] = req[q]
    BY <1>9, <1>req DEF FetchNoCostEmi
  <2> QED
    BY <1>9, <2>1, <1>go, <1>throw, <1>resp, <1>out DEF FetchNoCostEmi
<1>10. CASE BlockVoucher(r)
  <2>1. req'[q] = req[q]
    BY <1>10, <1>req DEF BlockVoucher
  <2> QED
    BY <1>10, <2>1, <1>go, <1>throw, <1>refuse, <1>resp, <1>out DEF BlockVoucher
<1>11. CASE Validate(r)
  <2>1. Placed /\ Answer
    BY <1>11, <1>go, <1>throw, <1>refuse, <1>resp DEF Validate
  <2> QED
    BY <1>11, <2>1, <1>req, <1>out DEF Validate
<1>12. CASE FullVoucher(r)
  BY <1>12, <1>go, <1>decide, <1>throw, <1>settle, <1>unnoticed, <1>resp, <1>out DEF FullVoucher
<1>13. CASE InsertNoCostEmiAudit(r)
  BY <1>13, <1>go, <1>throw, <1>resp, <1>out DEF InsertNoCostEmiAudit
<1>14. CASE FullIxigoMoney(r)
  BY <1>14, <1>go, <1>decide, <1>throw, <1>settle, <1>unnoticed, <1>resp, <1>out DEF FullIxigoMoney
<1>15. CASE CaptureWallet(r)
  BY <1>15, <1>go, <1>decide, <1>settle, <1>resp, <1>out DEF CaptureWallet
<1>16. CASE ReverseCapture(r)
  BY <1>16, <1>go, <1>resp, <1>out DEF ReverseCapture
<1>17. CASE NotifyFailure(r)
  BY <1>17, <1>go, <1>decide, <1>throw, <1>refuse, <1>out DEF NotifyFailure
<1>18. CASE PostCheck(r)
  <2>1. CASE SetAgentCodeIfRequired(r)
    BY <1>18, <2>1, <1>go, <1>decide, <1>throw, <1>resp, <1>out DEF PostCheck, SetAgentCodeIfRequired
  <2>2. CASE ~SetAgentCodeIfRequired(r)
    BY <1>18, <2>2, <1>go, <1>decide, <1>throw, <1>resp, <1>out DEF PostCheck
  <2> QED
    BY <2>1, <2>2
<1>19. CASE PrepareResponse(r)
  <2>1. PreparePortal(r) => Placed /\ Answer
    BY <1>go, <1>throw, <1>resp DEF PreparePortal, FailPromoParameters
  <2>2. PrepareSuccess(r) => Placed /\ Answer
    BY <1>go, <1>resp DEF PrepareSuccess, FailPromoParameters
  <2>3. PrepareFailure(r) => Placed /\ Answer
    BY <1>go, <1>resp DEF PrepareFailure, FailPromoParameters
  <2> QED
    BY <1>19, <2>1, <2>2, <2>3, <1>throw, <1>out DEF PrepareResponse
<1>20. CASE NotifySuccess(r)
  BY <1>20, <1>go, <1>resp, <1>out DEF NotifySuccess
<1>21. CASE LogResponse(r)
  BY <1>21, <1>log, <1>out DEF LogResponse
<1>22. CASE Dispatch(r)
  BY <1>22, <1>log, <1>go, <1>resp, <1>out DEF Dispatch
<1>23. CASE InitPayment(r)
  <2>1. /\ portal'[q] = portal[q]
        /\ Answer
    BY <1>23, <1>resp DEF InitPayment, TypeOK
  <2> QED
    BY <1>23, <2>1, <1>go, <1>out DEF InitPayment
<1>24. CASE LogResult(r)
  BY <1>24, <1>log, <1>out DEF LogResult
<1>25. CASE Unblock(r)
  BY <1>25, <1>resp, <1>out DEF Unblock
<1> QED
  BY <1>1, <1>2, <1>3, <1>4, <1>5, <1>6, <1>7, <1>8, <1>9, <1>10, <1>11, <1>12, <1>13, <1>14,
     <1>15, <1>16, <1>17, <1>18, <1>19, <1>20, <1>21, <1>22, <1>23, <1>24, <1>25
     DEF Step
------------------------------------------------------------------------------
(* The inductive invariant behind CollectedAtMostOnce.  A request settles  *)
(* only through the instrument of its payment option, and nothing before   *)
(* the redemptions; the map for the portal is prepared only for a request  *)
(* that has settled nothing.  After a redemption either the decision       *)
(* names it, or the answer has failed on its way to the log, or the        *)
(* request is one for a wallet whose capture is being reversed.            *)
Early ==
  {"received", "details", "saveCard", "walletAuth", "walletInfo", "reAuth", "reInfo",
   "reverseHandshake", "noCostEmi", "voucher", "validate", "fullVoucher"}

Late == {"log", "dispatch", "initPayment", "logResult", "done"}

Reversing == {"reverseCapture", "notifyFailure"}

Collected(r) ==
  /\ settled[r] \subseteq {req[r].paymentOption}
  /\ pc[r] \in Early => settled[r] = {}
  /\ pc[r] \notin Late => resp[r].amount = NoAmount /\ portal[r] = "none"
  /\ settled[r] # {} =>
       /\ resp[r].amount = NoAmount /\ portal[r] = "none"
       /\ \/ resp[r].decision # "SUCESS_REDIRECT_TO_PORTAL"
          \/ resp[r].success = FALSE /\ pc[r] \in Late
          \/ req[r].paymentOption = "ew" /\ pc[r] \in Reversing

Named(r) ==
  pc[r] \in {"reAuth", "reInfo", "reverseHandshake"} => req[r].walletId \in Holds

RequestInv == \A r \in Requests : Named(r) /\ Collected(r)


LEMMA RequestInvInit == Init => RequestInv
BY DEF Init, RequestInv, Named, Collected, Early, Late, NewResponse

LEMMA EarlyStep ==
  ASSUME NEW r \in Requests, Collected(r), pc[r] \in Early,
         UNCHANGED <<settled, portal>>, resp'[r].amount = resp[r].amount
  PROVE  Collected(r)'
BY DEF Collected, Early, Late

LEMMA BeforeRedemption ==
  ASSUME TypeOK, RequestInv, NEW r \in Requests,
         \/ LogRequest(r) \/ FetchBookingDetails(r) \/ SaveCard(r)
         \/ ReverseHandshake(r) \/ FetchNoCostEmi(r) \/ BlockVoucher(r) \/ Validate(r)
  PROVE  Named(r)' /\ Collected(r)'
<1> DEFINE Apart == pc'[r] \notin {"reAuth", "reInfo", "reverseHandshake"}
           Quiet == /\ pc[r] \in Early /\ UNCHANGED <<settled, portal>>
                    /\ resp'[r].amount = resp[r].amount
<1>1. Collected(r) /\ pc \in [Requests -> Locations]
  BY DEF RequestInv, TypeOK
<1>2. ASSUME Apart, Quiet PROVE Named(r)' /\ Collected(r)'
  <2>1. Named(r)'
    BY <1>2 DEF Named
  <2>2. Collected(r)'
    BY <1>1, <1>2, EarlyStep
  <2> QED
    BY <2>1, <2>2
<1> HIDE DEF Apart, Quiet
<1>3. CASE LogRequest(r)
  <2>1. Apart
    BY <1>1, <1>3 DEF LogRequest, Goto, Throw, Apart
  <2>2. Quiet
    BY <1>3, UnchangedParts, ThrowEffect DEF LogRequest, Early, Quiet
  <2> QED
    BY <1>2, <2>1, <2>2
<1>4. CASE FetchBookingDetails(r)
  <2>1. Apart
    BY <1>1, <1>4 DEF FetchBookingDetails, Goto, Throw, Apart
  <2>2. Quiet
    BY <1>4, UnchangedParts, ThrowEffect, DecideEffect DEF FetchBookingDetails, Early, Quiet
  <2> QED
    BY <1>2, <2>1, <2>2
<1>5. CASE SaveCard(r)
  <2>1. Apart
    BY <1>1, <1>5 DEF SaveCard, Goto, Throw, Apart
  <2>2. Quiet
    BY <1>5, UnchangedParts, ThrowEffect, DecideEffect DEF SaveCard, Early, Quiet
  <2> QED
    BY <1>2, <2>1, <2>2
<1>6. CASE ReverseHandshake(r)
  <2>1. Apart
    BY <1>1, <1>6 DEF ReverseHandshake, Goto, Throw, Apart
  <2>2. Quiet
    BY <1>6, ThrowEffect DEF ReverseHandshake, Early, Quiet
  <2> QED
    BY <1>2, <2>1, <2>2
<1>7. CASE FetchNoCostEmi(r)
  <2>1. Apart
    BY <1>1, <1>7 DEF FetchNoCostEmi, Goto, Throw, Apart
  <2>2. Quiet
    BY <1>7, UnchangedParts, ThrowEffect DEF FetchNoCostEmi, Early, Quiet
  <2> QED
    BY <1>2, <2>1, <2>2
<1>8. CASE BlockVoucher(r)
  <2>1. Apart
    BY <1>1, <1>8 DEF BlockVoucher, Goto, Throw, Refuse, Apart
  <2>2. Quiet
    BY <1>8, ThrowEffect, RefuseEffect DEF BlockVoucher, Early, Quiet
  <2> QED
    BY <1>2, <2>1, <2>2
<1>9. CASE Validate(r)
  <2>1. Apart
    BY <1>1, <1>9 DEF Validate, Goto, Throw, Refuse, Apart
  <2>2. ASSUME resp' = [resp EXCEPT ![r].success = TRUE,
                                    ![r].decision = "SUCESS_REDIRECT_TO_PORTAL"]
        PROVE  resp'[r].amount = resp[r].amount
    BY <2>2 DEF TypeOK, ResponseType
  <2>3. resp'[r].amount = resp[r].amount
    BY <1>9, <2>2, ThrowEffect, RefuseEffect DEF Validate
  <2>4. Quiet
    BY <1>9, <2>3, UnchangedParts DEF Validate, Early, Quiet
  <2> QED
    BY <1>2, <2>1, <2>4
<1> QED
  BY <1>3, <1>4, <1>5, <1>6, <1>7, <1>8, <1>9

LEMMA AtTheWallet ==
  ASSUME TypeOK, RequestInv, NEW r \in Requests,
         WalletAuth(r) \/ ReAuth(r) \/ GetWalletInfo(r) \/ GetWalletInfoAgain(r)
  PROVE  Named(r)' /\ Collected(r)'
<1> USE UnchangedParts
<1>1. /\ Collected(r) /\ Named(r) /\ req[r] \in RequestType
      /\ req[r].walletId \in Holds \/ req[r].walletId = NoHold
  BY DEF RequestInv, TypeOK, RequestType
<1>2. ASSUME NEW l \in {"walletInfo", "reInfo"}, DoWalletAuth(r, l),
             l = "reInfo" => req[r].walletId \in Holds
      PROVE  Named(r)' /\ resp'[r].amount = resp[r].amount
  <2>1. ASSUME NEW h \in Holds, NEW a \in WalletAmounts, Goto(r, l), UNCHANGED resp,
               req' = [req EXCEPT ![r].walletId = h, ![r].walletAmount = RoundToRupees(a)]
        PROVE  Named(r)' /\ resp'[r].amount = resp[r].amount
    <3>1. req'[r].walletId \in Holds
      BY <2>1 DEF TypeOK, RequestType
    <3> QED
      BY <2>1, <3>1 DEF Named
  <2>2. ASSUME Goto(r, IF req[r].walletId = NoHold THEN "postCheck" ELSE l), UNCHANGED <<resp, req>>
        PROVE  Named(r)' /\ resp'[r].amount = resp[r].amount
    <3>1. pc'[r] = "reInfo" => req[r].walletId \in Holds
      BY <1>1, <1>2, <2>2, GotoEffect
    <3>2. pc'[r] \in {"postCheck", "walletInfo", "reInfo"}
      BY <1>2, <2>2, GotoEffect
    <3> QED
      BY <2>2, <3>1, <3>2 DEF Named
  <2>3. ASSUME Throw(r) PROVE Named(r)' /\ resp'[r].amount = resp[r].amount
    BY <2>3, ThrowEffect DEF Named
  <2> QED
    BY <1>2, <2>1, <2>2, <2>3 DEF DoWalletAuth
<1>3. ASSUME Handshake(r), req[r].walletId \in Holds PROVE Named(r)'
  <2>1. req'[r].walletId = req[r].walletId
    BY <1>3 DEF Handshake, TypeOK, RequestType
  <2> QED
    BY <1>3, <2>1 DEF Named
<1>4. CASE WalletAuth(r)
  <2>1. Named(r)' /\ resp'[r].amount = resp[r].amount
    BY <1>2, <1>4, GotoEffect DEF WalletAuth, Named
  <2> QED
    BY <1>1, <1>4, <2>1, EarlyStep DEF WalletAuth, Early
<1>5. CASE ReAuth(r)
  <2>1. req[r].walletId \in Holds
    BY <1>1, <1>5 DEF ReAuth, Named
  <2>2. ASSUME Throw(r) PROVE Named(r)' /\ resp'[r].amount = resp[r].amount
    BY <2>2, ThrowEffect DEF Named
  <2>3. ASSUME Goto(r, "reInfo"), UNCHANGED <<req, resp>>
        PROVE  Named(r)' /\ resp'[r].amount = resp[r].amount
    BY <2>1, <2>3 DEF Named
  <2>4. Named(r)' /\ resp'[r].amount = resp[r].amount
    BY <1>2, <1>5, <2>1, <2>2, <2>3 DEF ReAuth
  <2> QED
    BY <1>1, <1>5, <2>4, EarlyStep DEF ReAuth, Early
<1>6. CASE GetWalletInfo(r)
  <2>1. ASSUME Throw(r) PROVE Named(r)' /\ resp'[r].amount = resp[r].amount
    BY <2>1, ThrowEffect DEF Named
  <2>2. ASSUME Goto(r, "noCostEmi"), UNCHANGED req PROVE Named(r)'
    BY <2>2 DEF Named, Goto, TypeOK
  <2>3. ASSUME Goto(r, "reAuth"), UNCHANGED req, req[r].walletId # NoHold PROVE Named(r)'
    BY <1>1, <2>3 DEF Named
  <2>4. Named(r)' /\ resp'[r].amount = resp[r].amount
    BY <1>1, <1>3, <1>6, <2>1, <2>2, <2>3 DEF GetWalletInfo
  <2> QED
    BY <1>1, <1>6, <2>4, UnchangedParts, EarlyStep DEF GetWalletInfo, Early
<1>7. CASE GetWalletInfoAgain(r)
  <2>1. req[r].walletId \in Holds
    BY <1>1, <1>7 DEF GetWalletInfoAgain, Named
  <2>2. Named(r)' /\ resp'[r].amount = resp[r].amount
    BY <1>3, <1>7, <2>1, GotoEffect, ThrowEffect DEF GetWalletInfoAgain, Named
  <2> QED
    BY <1>1, <1>7, <2>2, UnchangedParts, EarlyStep DEF GetWalletInfoAgain, Early
<1> QED
  BY <1>4, <1>5, <1>6, <1>7

LEMMA CollectedStep ==
  ASSUME NEW r \in Requests, Collected(r), UNCHANGED <<req, portal>>,
         pc[r] \notin Late, pc'[r] \notin Early, resp'[r].amount = resp[r].amount,
         settled'[r] \subseteq {req[r].paymentOption},
         settled'[r] # {} =>
           \/ resp'[r].decision # "SUCESS_REDIRECT_TO_PORTAL"
           \/ resp'[r].success = FALSE /\ pc'[r] \in Late
           \/ req[r].paymentOption = "ew" /\ pc'[r] \in Reversing
  PROVE  Collected(r)'
BY DEF Collected

LEMMA DecisionMade ==
  ASSUME TypeOK, NEW r \in Requests, NEW d \in Decisions \ {"SUCESS_REDIRECT_TO_PORTAL"},
         Decide(r, d) \/ \E l : Refuse(r, d, l)
  PROVE  resp'[r].decision # "SUCESS_REDIRECT_TO_PORTAL"
BY DecideEffect, RefuseEffect

LEMMA RedemptionSteps ==
  ASSUME TypeOK, RequestInv, NEW r \in Requests,
         \/ FullVoucher(r) \/ InsertNoCostEmiAudit(r) \/ FullIxigoMoney(r)
         \/ CaptureWallet(r) \/ ReverseCapture(r) \/ NotifyFailure(r)
  PROVE  Collected(r)'
<1> DEFINE Quiet == /\ UNCHANGED <<req, portal>> /\ pc[r] \notin Late
                    /\ resp'[r].amount = resp[r].amount
           Explained == settled'[r] # {} =>
                          \/ resp'[r].decision # "SUCESS_REDIRECT_TO_PORTAL"
                          \/ resp'[r].success = FALSE /\ pc'[r] \in Late
                          \/ req[r].paymentOption = "ew" /\ pc'[r] \in Reversing
<1>1. Collected(r) /\ pc \in [Requests -> Locations]
  BY DEF RequestInv, TypeOK
<1> USE DEF Decisions
<1>2. ASSUME Quiet, Explained, pc'[r] \notin Early, settled'[r] \subseteq {req[r].paymentOption}
      PROVE  Collected(r)'
  BY <1>1, <1>2, CollectedStep
<1> HIDE DEF Quiet, Explained
<1>3. CASE FullVoucher(r)
  <2>1. pc'[r] \in {"audit", "log", "notifyFailure"}
    BY <1>1, <1>3 DEF FullVoucher, Goto, Throw, RedeemedUnnoticed
  <2>2. Quiet
    BY <1>3, DecideEffect, ThrowEffect, RedeemedUnnoticedEffect
       DEF FullVoucher, bean, Late, Quiet
  <2>3. settled[r] = {}
    BY <1>1, <1>3 DEF FullVoucher, Collected, Early
  <2>4. \/ settled'[r] = {}
        \/ /\ settled'[r] = {"gv"} /\ TRUE \in FullVoucherPayment(r)
           /\ \/ Decide(r, "COMPLETE_VOUCHER_SUCCESS")
              \/ RedeemedUnnoticed(r, "gv", "COMPLETE_VOUCHER_SUCCESS")
    <3>1. Settle(r, "gv") => settled'[r] = {"gv"}
      BY <2>3, SettleEffect
    <3>2. RedeemedUnnoticed(r, "gv", "COMPLETE_VOUCHER_SUCCESS") => settled'[r] = {"gv"}
      BY <2>3, RedeemedUnnoticedEffect
    <3> QED
      BY <1>3, <2>3, <3>1, <3>2 DEF FullVoucher
  <2>5. settled'[r] \subseteq {req[r].paymentOption}
    BY <2>4 DEF FullVoucherPayment
  <2>6. Explained
    <3>1. CASE Decide(r, "COMPLETE_VOUCHER_SUCCESS")
      BY <1>1, <3>1, DecisionMade DEF Explained
    <3>2. CASE RedeemedUnnoticed(r, "gv", "COMPLETE_VOUCHER_SUCCESS")
      BY <3>2, RedeemedUnnoticedEffect DEF Explained, Late
    <3> QED
      BY <2>4, <3>1, <3>2 DEF Explained
  <2> QED
    BY <1>2, <2>1, <2>2, <2>5, <2>6 DEF Early
<1>4. CASE InsertNoCostEmiAudit(r)
  <2>1. pc'[r] \in {"fullIxigo", "log"}
    BY <1>1, <1>4 DEF InsertNoCostEmiAudit, Goto, Throw
  <2>2. /\ resp'[r].amount = resp[r].amount /\ resp'[r].decision = resp[r].decision
        /\ UNCHANGED <<req, portal, settled>>
    BY <1>4, ThrowEffect, UnchangedParts DEF InsertNoCostEmiAudit
  <2>3. Quiet
    BY <1>4, <2>2 DEF InsertNoCostEmiAudit, Late, Quiet
  <2>4. Explained /\ settled'[r] \subseteq {req[r].paymentOption}
    BY <1>1, <1>4, <2>2 DEF InsertNoCostEmiAudit, Collected, Late, Reversing, Explained
  <2> QED
    BY <1>2, <2>1, <2>3, <2>4 DEF Early
<1>5. CASE FullIxigoMoney(r)
  <2>1. pc'[r] \in {"fullWallet", "log", "notifyFailure"}
    BY <1>1, <1>5 DEF FullIxigoMoney, Goto, Throw, RedeemedUnnoticed
  <2>2. Quiet
    BY <1>5, DecideEffect, ThrowEffect, RedeemedUnnoticedEffect
       DEF FullIxigoMoney, bean, Late, Quiet
  <2>3. \/ UNCHANGED settled /\ resp'[r].decision = resp[r].decision
        \/ /\ settled'[r] = settled[r] \cup {"ixigoMoney"} /\ TRUE \in FullIxigoMoneyPayment(r)
           /\ \/ Decide(r, "COMPLETE_IXIGO_PAYMENT_SUCCESS")
              \/ RedeemedUnnoticed(r, "ixigoMoney", "COMPLETE_IXIGO_PAYMENT_SUCCESS")
    <3>1. Settle(r, "ixigoMoney") => settled'[r] = settled[r] \cup {"ixigoMoney"}
      BY SettleEffect
    <3>2. RedeemedUnnoticed(r, "ixigoMoney", "COMPLETE_IXIGO_PAYMENT_SUCCESS")
            => settled'[r] = settled[r] \cup {"ixigoMoney"}
      BY RedeemedUnnoticedEffect
    <3>3. Throw(r) => resp'[r].decision = resp[r].decision
      BY ThrowEffect
    <3> QED
      BY <1>5, <3>1, <3>2, <3>3 DEF FullIxigoMoney
  <2>4. settled'[r] \subseteq {req[r].paymentOption}
    BY <1>1, <2>3 DEF FullIxigoMoneyPayment, Collected
  <2>5. settled[r] # {} => resp[r].decision # "SUCESS_REDIRECT_TO_PORTAL"
    BY <1>1, <1>5 DEF FullIxigoMoney, Collected, Late, Reversing
  <2>6. Explained
    <3>1. CASE Decide(r, "COMPLETE_IXIGO_PAYMENT_SUCCESS")
      BY <1>1, <3>1, DecisionMade DEF Explained
    <3>2. CASE RedeemedUnnoticed(r, "ixigoMoney", "COMPLETE_IXIGO_PAYMENT_SUCCESS")
      BY <3>2, RedeemedUnnoticedEffect DEF Explained, Late
    <3> QED
      BY <2>3, <2>5, <3>1, <3>2 DEF Explained
  <2> QED
    BY <1>2, <2>1, <2>2, <2>4, <2>6 DEF Early
<1>6. CASE CaptureWallet(r)
  <2>1. pc'[r] \in {"postCheck", "reverseCapture"}
    BY <1>1, <1>6 DEF CaptureWallet, Goto
  <2>2. Quiet
    BY <1>6, DecideEffect DEF CaptureWallet, bean, Late, Quiet
  <2>3. \/ UNCHANGED <<settled, resp>>
        \/ /\ settled'[r] = settled[r] \cup {"ew"} /\ TRUE \in FullWalletPayment(r)
           /\ Decide(r, "COMPLETE_WALLET_SUCCESS") \/ Goto(r, "reverseCapture")
    BY <1>6, SettleEffect DEF CaptureWallet
  <2>4. settled'[r] \subseteq {req[r].paymentOption}
    BY <1>1, <2>3 DEF FullWalletPayment, Collected
  <2>5. settled[r] # {} => resp[r].decision # "SUCESS_REDIRECT_TO_PORTAL"
    BY <1>1, <1>6 DEF CaptureWallet, Collected, Late, Reversing
  <2>6. TRUE \in FullWalletPayment(r) => req[r].paymentOption = "ew"
    BY DEF FullWalletPayment
  <2>7. Goto(r, "reverseCapture") => pc'[r] \in Reversing
    BY GotoEffect DEF Reversing
  <2>8. Explained
    <3>1. CASE Decide(r, "COMPLETE_WALLET_SUCCESS")
      BY <1>1, <3>1, DecisionMade DEF Explained
    <3> QED
      BY <2>3, <2>5, <2>6, <2>7, <3>1 DEF Explained
  <2> QED
    BY <1>2, <2>1, <2>2, <2>4, <2>8 DEF Early
<1>7. CASE ReverseCapture(r)
  <2>1. pc'[r] = "notifyFailure"
    BY <1>1, <1>7 DEF ReverseCapture, Goto
  <2>2. Quiet
    BY <1>7 DEF ReverseCapture, bean, Late, Quiet
  <2>3. Explained /\ settled'[r] \subseteq {req[r].paymentOption}
    BY <1>1, <1>7, <2>1 DEF ReverseCapture, Collected, Late, Reversing, Explained
  <2> QED
    BY <1>2, <2>1, <2>2, <2>3 DEF Early
<1>8. CASE NotifyFailure(r)
  <2>1. pc'[r] \in {"audit", "fullWallet", "log"}
    BY <1>1, <1>8 DEF NotifyFailure, Goto, Throw, Refuse
  <2>2. \/ /\ resp'[r].decision # "SUCESS_REDIRECT_TO_PORTAL"
           /\ resp'[r].amount = resp[r].amount
        \/ /\ resp'[r].success = FALSE /\ pc'[r] = "log"
           /\ resp'[r].amount = resp[r].amount
    <3>1. CASE req[r].paymentOption = "gv"
      <4>1. Decide(r, "COMPLETE_GV_PAYMENT_FAILURE") \/ Refuse(r, "COMPLETE_GV_PAYMENT_FAILURE", "log")
        BY <1>8, <3>1 DEF NotifyFailure
      <4> QED
        BY <4>1, DecisionMade, DecideEffect, RefuseEffect
    <3>2. CASE req[r].paymentOption = "ixigoMoney"
      <4>1. \/ Decide(r, "COMPLETE_IXIGO_PAYMENT_FAILURE")
            \/ Refuse(r, "COMPLETE_IXIGO_PAYMENT_FAILURE", "log")
        BY <1>8, <3>2 DEF NotifyFailure
      <4> QED
        BY <4>1, DecisionMade, DecideEffect, RefuseEffect
    <3>3. CASE req[r].paymentOption \notin {"gv", "ixigoMoney"}
      BY <1>8, <3>3, ThrowEffect DEF NotifyFailure
    <3> QED
      BY <3>1, <3>2, <3>3
  <2>3. Quiet
    BY <1>8, <2>2 DEF NotifyFailure, bean, Late, Quiet
  <2>4. Explained /\ settled'[r] \subseteq {req[r].paymentOption}
    BY <1>1, <1>8, <2>2 DEF NotifyFailure, Collected, Late, Explained
  <2> QED
    BY <1>2, <2>1, <2>3, <2>4 DEF Early
<1> QED
  BY <1>3, <1>4, <1>5, <1>6, <1>7, <1>8

LEMMA LateStep ==
  ASSUME NEW r \in Requests, Collected(r), UNCHANGED <<req, settled>>,
         pc[r] \in Late, pc'[r] \in Late,
         settled[r] # {} =>
           /\ resp'[r].amount = NoAmount /\ portal'[r] = "none"
           /\ resp'[r].decision # "SUCESS_REDIRECT_TO_PORTAL" \/ resp'[r].success = FALSE
  PROVE  Collected(r)'
BY DEF Collected, Late, Early

LEMMA LogOrAbandonCollected ==
  ASSUME TypeOK, NEW r \in Requests, Collected(r), NEW l \in Late, LogOrAbandon(r, l),
         UNCHANGED <<req, settled, portal>>, pc[r] \in Late
  PROVE  Collected(r)'
<1>1. /\ pc'[r] \in Late
      /\ \/ UNCHANGED resp
         \/ resp'[r].amount = NoAmount /\ resp'[r].success = FALSE
  BY LogOrAbandonEffect DEF Late
<1> QED
  BY <1>1, LateStep DEF Collected, Late, Reversing

LEMMA AnswerSteps ==
  ASSUME TypeOK, RequestInv, NEW r \in Requests,
         \/ PostCheck(r) \/ PrepareResponse(r) \/ NotifySuccess(r) \/ LogResponse(r)
         \/ Dispatch(r) \/ InitPayment(r) \/ LogResult(r)
  PROVE  Collected(r)'
<1>1. Collected(r) /\ pc \in [Requests -> Locations] /\ resp \in [Requests -> ResponseType]
  BY DEF RequestInv, TypeOK
<1> USE UnchangedParts
<1>2. CASE PostCheck(r)
  <2>1. pc'[r] \in {"prepare", "log"}
    BY <1>1, <1>2 DEF PostCheck, SetAgentCodeIfRequired, Goto, Throw
  <2>2. /\ UNCHANGED <<req, settled, portal>> /\ pc[r] = "postCheck"
    BY <1>2 DEF PostCheck
  <2>3. /\ resp'[r].amount = resp[r].amount
        /\ resp'[r].decision = resp[r].decision \/ resp'[r].decision = "REFUSED"
    <3>1. ASSUME resp' = [resp EXCEPT ![r].agentCode = TRUE]
          PROVE  /\ resp'[r].amount = resp[r].amount
                 /\ resp'[r].decision = resp[r].decision
      BY <1>1, <3>1 DEF ResponseType
    <3>2. ASSUME Decide(r, "REFUSED")
          PROVE  resp'[r].amount = resp[r].amount /\ resp'[r].decision = "REFUSED"
      BY <3>2, DecideEffect
    <3>3. ASSUME Throw(r)
          PROVE  resp'[r].amount = resp[r].amount /\ resp'[r].decision = resp[r].decision
      BY <3>3, ThrowEffect
    <3> QED
      BY <1>2, <3>1, <3>2, <3>3 DEF PostCheck, SetAgentCodeIfRequired
  <2> QED
    BY <1>1, <2>1, <2>2, <2>3, CollectedStep DEF Collected, Early, Late, Reversing
<1>3. CASE PrepareResponse(r)
  <2>1. pc'[r] \in {"notifySuccess", "log"}
    BY <1>1, <1>3
       DEF PrepareResponse, PreparePortal, PrepareSuccess, PrepareFailure, FailPromoParameters,
           Goto, Throw
  <2>2. /\ UNCHANGED <<req, settled, portal>> /\ pc[r] = "prepare"
    BY <1>3 DEF PrepareResponse
  <2>3. CASE resp[r].decision = "SUCESS_REDIRECT_TO_PORTAL"
    <3>1. settled[r] = {}
      BY <1>1, <2>2, <2>3 DEF Collected, Late, Reversing
    <3>2. pc'[r] = "log"
      <4>1. PreparePortal(r)
        BY <1>3, <2>3 DEF PrepareResponse, CompleteSuccess
      <4>2. Goto(r, "log")
        BY <4>1 DEF PreparePortal, FailPromoParameters, Throw
      <4> QED
        BY <1>1, <4>2 DEF Goto
    <3> QED
      BY <2>2, <3>1, <3>2 DEF Collected, Early, Late
  <2>4. CASE resp[r].decision # "SUCESS_REDIRECT_TO_PORTAL"
    <3>1. ASSUME NEW s \in BOOLEAN, NEW u,
                 resp' = [resp EXCEPT ![r].success = s, ![r].rurl = u]
          PROVE  resp'[r].amount = resp[r].amount /\ resp'[r].decision = resp[r].decision
      BY <1>1, <3>1 DEF ResponseType
    <3>2. resp'[r].amount = resp[r].amount /\ resp'[r].decision = resp[r].decision
      <4>1. CASE Throw(r)
        BY <4>1, ThrowEffect
      <4>2. CASE PrepareSuccess(r)
        BY <3>1, <4>2 DEF PrepareSuccess
      <4>3. CASE PrepareFailure(r)
        BY <3>1, <4>3 DEF PrepareFailure
      <4> QED
        BY <1>3, <2>4, <4>1, <4>2, <4>3 DEF PrepareResponse
    <3> QED
      BY <1>1, <2>1, <2>2, <2>4, <3>2, CollectedStep DEF Collected, Early, Late
  <2> QED
    BY <2>3, <2>4
<1>4. CASE NotifySuccess(r)
  <2>1. pc'[r] = "log" /\ UNCHANGED <<req, settled, portal, resp>> /\ pc[r] = "notifySuccess"
    BY <1>1, <1>4 DEF NotifySuccess, Goto
  <2> QED
    BY <1>1, <2>1, CollectedStep DEF Collected, Early, Late, Reversing
<1>5. CASE LogResponse(r)
  <2>1. pc[r] = "log" /\ LogOrAbandon(r, "dispatch") /\ UNCHANGED <<req, settled, portal>>
    BY <1>5 DEF LogResponse
  <2> QED
    BY <1>1, <2>1, LogOrAbandonCollected DEF Late
<1>6. CASE Dispatch(r)
  <2>1. /\ pc[r] = "dispatch" /\ UNCHANGED <<req, settled, portal>>
        /\ LogOrAbandon(r, "initPayment") \/ (Goto(r, "done") /\ UNCHANGED resp)
    <3>1. CASE req[r].initPayment /\ resp[r].decision = "SUCESS_REDIRECT_TO_PORTAL"
      BY <1>6, <3>1 DEF Dispatch
    <3>2. CASE ~(req[r].initPayment /\ resp[r].decision = "SUCESS_REDIRECT_TO_PORTAL")
      BY <1>6, <3>2 DEF Dispatch
    <3> QED
      BY <3>1, <3>2
  <2>2. CASE LogOrAbandon(r, "initPayment")
    BY <1>1, <2>1, <2>2, LogOrAbandonCollected DEF Late
  <2>3. CASE Goto(r, "done") /\ UNCHANGED resp
    <3>1. pc'[r] = "done"
      BY <1>1, <2>3 DEF Goto
    <3> QED
      BY <1>1, <2>1, <2>3, <3>1, LateStep DEF Collected, Late, Reversing
  <2> QED
    BY <2>1, <2>2, <2>3
<1>7. CASE InitPayment(r)
  <2>1. pc[r] = "initPayment" /\ pc'[r] = "logResult" /\ UNCHANGED <<req, settled>>
    BY <1>1, <1>7 DEF InitPayment, Goto
  <2>2. /\ resp'[r].amount = resp[r].amount /\ resp'[r].decision = resp[r].decision
        /\ resp[r].success = FALSE => resp'[r].success = FALSE
    <3>1. ASSUME NEW ok \in BOOLEAN,
                 resp' = [resp EXCEPT ![r].success = @ /\ ok, ![r].rurl = "none"]
          PROVE  /\ resp'[r].amount = resp[r].amount /\ resp'[r].decision = resp[r].decision
                 /\ resp[r].success = FALSE => resp'[r].success = FALSE
      BY <1>1, <3>1 DEF ResponseType
    <3> QED
      BY <1>7, <3>1 DEF InitPayment
  <2>3. resp[r].amount = NoAmount => UNCHANGED portal
    BY <1>7 DEF InitPayment
  <2> QED
    BY <1>1, <2>1, <2>2, <2>3, LateStep DEF Collected, Late, Reversing
<1>8. CASE LogResult(r)
  <2>1. pc[r] = "logResult" /\ LogOrAbandon(r, "done") /\ UNCHANGED <<req, settled, portal>>
    BY <1>8 DEF LogResult
  <2> QED
    BY <1>1, <2>1, LogOrAbandonCollected DEF Late
<1> QED
  BY <1>2, <1>3, <1>4, <1>5, <1>6, <1>7, <1>8

LEMMA LaterIsNamed ==
  ASSUME TypeOK, NEW r \in Requests,
         \/ FullVoucher(r) \/ InsertNoCostEmiAudit(r) \/ FullIxigoMoney(r)
         \/ CaptureWallet(r) \/ ReverseCapture(r) \/ NotifyFailure(r)
         \/ PostCheck(r) \/ PrepareResponse(r) \/ NotifySuccess(r) \/ LogResponse(r)
         \/ Dispatch(r) \/ InitPayment(r) \/ LogResult(r)
  PROVE  Named(r)'
<1> USE DEF Goto, Throw
<1>1. pc \in [Requests -> Locations]
  BY DEF TypeOK
<1>2. CASE FullVoucher(r)
  BY <1>1, <1>2 DEF FullVoucher, RedeemedUnnoticed, Named
<1>3. CASE InsertNoCostEmiAudit(r)
  BY <1>1, <1>3 DEF InsertNoCostEmiAudit, Named
<1>4. CASE FullIxigoMoney(r)
  BY <1>1, <1>4 DEF FullIxigoMoney, RedeemedUnnoticed, Named
<1>5. CASE CaptureWallet(r)
  BY <1>1, <1>5 DEF CaptureWallet, Named
<1>6. CASE ReverseCapture(r)
  BY <1>1, <1>6 DEF ReverseCapture, Named
<1>7. CASE NotifyFailure(r)
  BY <1>1, <1>7 DEF NotifyFailure, Refuse, Named
<1>8. CASE PostCheck(r)
  BY <1>1, <1>8 DEF PostCheck, SetAgentCodeIfRequired, Named
<1>9. CASE PrepareResponse(r)
  BY <1>1, <1>9
     DEF PrepareResponse, PreparePortal, PrepareSuccess, PrepareFailure, FailPromoParameters, Named
<1>10. CASE NotifySuccess(r)
  BY <1>1, <1>10 DEF NotifySuccess, Named
<1>11. CASE LogResponse(r)
  BY <1>1, <1>11 DEF LogResponse, LogOrAbandon, Abandon, Named
<1>12. CASE Dispatch(r)
  BY <1>1, <1>12 DEF Dispatch, LogOrAbandon, Abandon, Named
<1>13. CASE InitPayment(r)
  BY <1>1, <1>13 DEF InitPayment, Named
<1>14. CASE LogResult(r)
  BY <1>1, <1>14 DEF LogResult, LogOrAbandon, Abandon, Named
<1> QED
  BY <1>2, <1>3, <1>4, <1>5, <1>6, <1>7, <1>8, <1>9, <1>10, <1>11, <1>12, <1>13, <1>14

LEMMA RequestInvStep ==
  ASSUME TypeOK, RequestInv, NEW r \in Requests, Step(r) \/ Unblock(r)
  PROVE  RequestInv'
<1>1. Named(r)' /\ Collected(r)'
  <2>1. CASE Unblock(r)
    BY <2>1, UnchangedParts DEF Unblock, RequestInv, Named, Collected
  <2>2. CASE Step(r)
    BY <2>2, BeforeRedemption, AtTheWallet, RedemptionSteps, AnswerSteps, LaterIsNamed DEF Step
  <2> QED
    BY <2>1, <2>2
<1>2. ASSUME NEW q \in Requests \ {r} PROVE Named(q)' /\ Collected(q)'
  <2>1. /\ pc'[q] = pc[q] /\ req'[q] = req[q] /\ resp'[q] = resp[q]
        /\ settled'[q] = settled[q] /\ portal'[q] = portal[q]
    BY StepsAreOwn DEF OthersStay
  <2>2. Named(q) /\ Collected(q)
    BY DEF RequestInv
  <2> QED
    BY <2>1, <2>2 DEF Named, Collected
<1> QED
  BY <1>1, <1>2 DEF RequestInv

LEMMA Inductive == Spec => [](TypeOK /\ RequestInv)
<1>1. Init => TypeOK /\ RequestInv
  BY InitTyped, RequestInvInit
<1>2. TypeOK /\ RequestInv /\ [Next]_vars => (TypeOK /\ RequestInv)'
  <2> SUFFICES ASSUME TypeOK, RequestInv, [Next]_vars PROVE TypeOK' /\ RequestInv'
    OBVIOUS
  <2>1. CASE UNCHANGED vars
    BY <2>1 DEF vars, bean, outside, history, TypeOK, RequestInv, Named, Collected
  <2>2. CASE Answered
    BY <2>1, <2>2 DEF Answered
  <2>3. ASSUME NEW r \in Requests, Step(r) \/ Unblock(r) PROVE TypeOK' /\ RequestInv'
    <3>1. HoldNamed
      BY DEF HoldNamed, RequestInv, Named
    <3> QED
      BY <2>3, <3>1, StepTyped, RequestInvStep
  <2> QED
    BY <2>1, <2>2, <2>3 DEF Next
<1> QED
  BY <1>1, <1>2, PTL DEF Spec

------------------------------------------------------------------------------
(* Every variable keeps its type: the answer's amount and the requests'    *)
(* wallet amounts stay whole tenths of a paisa or absent, whatever     *)
(* sequence of auths, refusals and lost replies a request meets.           *)
THEOREM TypeCorrect == Spec => []TypeOK
BY Inductive, PTL

(* No request collects the money twice, for any number of requests, holds  *)
(* and amounts and whatever replies are lost: through two instruments, or  *)
(* through one and the portal.                                             *)
THEOREM CollectedOnce == Spec => []CollectedAtMostOnce
<1>1. TypeOK /\ RequestInv => CollectedAtMostOnce
  <2> SUFFICES ASSUME TypeOK, RequestInv, NEW r \in Requests
               PROVE  /\ Cardinality(settled[r]) <= 1
                      /\ settled[r] # {} => portal[r] = "none" /\ ~HandedOff(r)
    BY DEF CollectedAtMostOnce
  <2>1. Collected(r)
    BY DEF RequestInv
  <2>2. Cardinality(settled[r]) <= 1
    <3>1. IsFiniteSet({req[r].paymentOption}) /\ Cardinality({req[r].paymentOption}) = 1
      BY FS_Singleton
    <3>2. Cardinality(settled[r]) <= Cardinality({req[r].paymentOption})
      BY <2>1, <3>1, FS_Subset DEF Collected
    <3> QED
      BY <3>1, <3>2
  <2>3. settled[r] # {} => portal[r] = "none" /\ ~HandedOff(r)
    BY <2>1 DEF Collected, HandedOff, Late, Reversing
  <2> QED
    BY <2>2, <2>3
<1> QED
  BY <1>1, Inductive, PTL
====
