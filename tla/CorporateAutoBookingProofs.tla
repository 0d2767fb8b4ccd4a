--------------------- MODULE CorporateAutoBookingProofs ---------------------
(***************************************************************************)
(* Proofs about CorporateAutoBooking: its type invariant, and that for any *)
(* option lists, of any length, the company is charged at most once except *)
(* for denied payments, priorities are kept and the response tells the     *)
(* truth.                                                                  *)
(*                                                                         *)
(* None of the three is inductive: nothing in them says where in the loop  *)
(* the call is.  The strengthening (Inv) adds that inside the loop nothing *)
(* has been returned, every option before the current one is ruled out and *)
(* every payment taken so far was denied.                                  *)
(***************************************************************************)
EXTENDS CorporateAutoBooking, SequenceTheorems, TLAPS

USE AutoBookingAssumption DEF AutoBookingAssumption

InLoop == pc \in {"try", "card", "validate", "pay"}

(* Before the loop nothing has happened. *)
Untouched ==
  pc \in {"idle", "prepare"} =>
    list = <<>> /\ i = 1 /\ charges = <<>> /\ msg = "open" /\ nameless = {}

(* In the loop the call is undecided. *)
Undecided ==
  InLoop =>
    /\ msg = "open"
    /\ \A k \in 1..i - 1 : RuledOut(k)
    /\ \A n \in 1..Len(charges) : charges[n].reply = "failed"

(* The option being tried is one of the list, and at the portal it is the  *)
(* one the LOB validated last.                                             *)
Current ==
  /\ pc \in {"card", "validate", "pay"} => i \in 1..Len(list)
  /\ pc = "pay" => quoted # <<>> /\ quoted[Len(quoted)].option = list[i]

(* A payment is for an option of the list and a validation of the LOB. *)
Placed ==
  \A n \in 1..Len(charges) :
    charges[n].at \in 1..Len(list) /\ charges[n].ttid \in 1..Len(quoted)

(* The inductive invariant. *)
Inv ==
  /\ TypeOK /\ Untouched /\ Undecided /\ Current /\ Placed
  /\ ChargedOnce /\ PriorityIsKept /\ AnswerIsTrue
------------------------------------------------------------------------------
LEMMA InvInit == Init => Inv
<1> SUFFICES ASSUME Init PROVE Inv
  OBVIOUS
<1>1. TypeOK
  BY EmptySeq DEF Init, TypeOK, Locations, Messages, Params
<1>2. Len(charges) = 0
  BY DEF Init
<1> QED
  BY <1>1, <1>2 DEF Init, Inv, Untouched, Undecided, InLoop, Current, Placed, ChargedOnce,
     PriorityIsKept, AnswerIsTrue, Admitted

(* What a payment adds to the portal's records. *)
LEMMA ChargeAdds ==
  ASSUME Inv, pc = "pay", NEW reply \in Replies, Charge(reply)
  PROVE  /\ charges' \in Seq(Payments)
         /\ \/ charges' = charges /\ reply # "paid"
            \/ /\ Len(charges') = Len(charges) + 1
               /\ \A n \in 1..Len(charges) : charges'[n] = charges[n]
               /\ charges'[Len(charges) + 1] =
                    [at |-> i, ttid |-> Len(quoted), amount |-> quoted[Len(quoted)].amount, reply |-> reply]
<1> DEFINE c == [at |-> i, ttid |-> Len(quoted), amount |-> quoted[Len(quoted)].amount, reply |-> reply]
<1>1. quoted \in Seq(Quotes) /\ charges \in Seq(Payments) /\ i \in Nat /\ quoted # <<>>
  BY DEF Inv, TypeOK, Current
<1>2. Len(quoted) \in 1..Len(quoted)
  BY <1>1
<1>3. quoted[Len(quoted)] \in Quotes
  BY <1>1, <1>2, ElementOfSeq
<1>4. quoted[Len(quoted)].amount \in Amounts
  BY <1>3 DEF Quotes
<1>5. c \in Payments
  BY <1>1, <1>2, <1>4 DEF Payments
<1>6. CASE charges' = Append(charges, c)
  <2>1. /\ charges' \in Seq(Payments) /\ Len(charges') = Len(charges) + 1
        /\ \A n \in 1..Len(charges) : charges'[n] = charges[n]
        /\ charges'[Len(charges) + 1] = c
    BY <1>1, <1>5, <1>6, AppendProperties
  <2> QED
    BY <2>1
<1>7. CASE charges' = charges /\ reply # "paid"
  BY <1>1, <1>7
<1> QED
  BY <1>6, <1>7 DEF Charge, Ttid, Due
------------------------------------------------------------------------------
(* What was ruled out stays ruled out. *)
LEMMA RuledOutStays ==
  ASSUME list' = list, errors \subseteq errors', nameless \subseteq nameless', NEW k \in Nat, RuledOut(k)
  PROVE  RuledOut(k)'
BY DEF RuledOut

(* A step that takes no payment keeps what is known of those taken. *)
LEMMA RecordsKept ==
  ASSUME Inv, charges' = charges, list' = list, errors \subseteq errors', nameless \subseteq nameless',
         \/ quoted' = quoted
         \/ \E q \in Quotes : quoted' = Append(quoted, q)
  PROVE  ChargedOnce' /\ PriorityIsKept' /\ Placed'
<1>1. quoted \in Seq(Quotes) /\ charges \in Seq(Payments) /\ list \in Seq(Options)
  BY DEF Inv, TypeOK
<1>2. /\ Len(quoted) <= Len(quoted')
      /\ Len(quoted') \in Nat
      /\ \A n \in 1..Len(quoted) : quoted'[n] = quoted[n]
  <2>1. CASE quoted' = quoted
    BY <1>1, <2>1
  <2>2. ASSUME NEW q \in Quotes, quoted' = Append(quoted, q) PROVE <1>2!:
    BY <1>1, <2>2, AppendProperties
  <2> QED
    BY <2>1, <2>2
<1>3. ChargedOnce'
  BY DEF Inv, ChargedOnce
<1>4. Placed'
  BY <1>1, <1>2 DEF Inv, Placed
<1>5. PriorityIsKept'
  <2> SUFFICES ASSUME NEW n \in 1..Len(charges)
               PROVE  /\ \A k \in 1..charges[n].at - 1 : RuledOut(k)'
                      /\ quoted'[charges[n].ttid] = [option |-> list[charges[n].at], amount |-> charges[n].amount]
    BY DEF PriorityIsKept
  <2>1. charges[n].ttid \in 1..Len(quoted) /\ charges[n].at \in 1..Len(list)
    BY DEF Inv, Placed
  <2>2. quoted[charges[n].ttid] = [option |-> list[charges[n].at], amount |-> charges[n].amount]
    BY DEF Inv, PriorityIsKept
  <2>3. ASSUME NEW k \in 1..charges[n].at - 1 PROVE RuledOut(k)'
    <3>1. RuledOut(k)
      BY DEF Inv, PriorityIsKept
    <3> QED
      BY <2>1, <3>1, RuledOutStays
  <2> QED
    BY <1>2, <2>1, <2>2, <2>3
<1> QED
  BY <1>3, <1>4, <1>5

(* Payments are taken inside the loop, where all before it were denied. *)
LEMMA RecordsGrow ==
  ASSUME Inv, pc = "pay", NEW reply \in Replies, Charge(reply),
         list' = list, quoted' = quoted, nameless' = nameless, errors \subseteq errors'
  PROVE  ChargedOnce' /\ PriorityIsKept' /\ Placed'
<1>1. quoted \in Seq(Quotes) /\ charges \in Seq(Payments) /\ list \in Seq(Options)
  BY DEF Inv, TypeOK
<1>2. CASE charges' = charges
  BY <1>2, RecordsKept
<1>3. CASE /\ Len(charges') = Len(charges) + 1
           /\ \A n \in 1..Len(charges) : charges'[n] = charges[n]
           /\ charges'[Len(charges) + 1] =
                [at |-> i, ttid |-> Len(quoted), amount |-> quoted[Len(quoted)].amount, reply |-> reply]
  <2> DEFINE m == Len(charges) + 1
             c == charges'[m]
  <2>1. Len(charges) \in Nat /\ Len(quoted) \in Nat /\ i \in 1..Len(list) /\ quoted # <<>>
    BY <1>1 DEF Inv, Current
  <2>2. c.at = i /\ c.ttid = Len(quoted) /\ c.amount = quoted[Len(quoted)].amount
    BY <1>3
  <2>3. Len(quoted) \in 1..Len(quoted)
    BY <1>1, <2>1
  <2>4. quoted[Len(quoted)] = [option |-> list[i], amount |-> quoted[Len(quoted)].amount]
    <3>1. quoted[Len(quoted)] \in Quotes
      BY <1>1, <2>3, ElementOfSeq
    <3>2. quoted[Len(quoted)].option = list[i]
      BY DEF Inv, Current
    <3> QED
      BY <3>1, <3>2 DEF Quotes
  <2>5. ChargedOnce'
    BY <1>3, <2>1 DEF ChargedOnce, Inv, Undecided, InLoop
  <2>6. Placed'
    <3> SUFFICES ASSUME NEW n \in 1..m
                 PROVE  charges'[n].at \in 1..Len(list) /\ charges'[n].ttid \in 1..Len(quoted)
      BY <1>3 DEF Placed
    <3>1. CASE n = m
      BY <2>1, <2>2, <2>3, <3>1
    <3>2. CASE n \in 1..Len(charges)
      BY <1>3, <3>2 DEF Inv, Placed
    <3> QED
      BY <2>1, <3>1, <3>2
  <2>7. PriorityIsKept'
    <3> SUFFICES ASSUME NEW n \in 1..m
                 PROVE  /\ \A k \in 1..charges'[n].at - 1 : RuledOut(k)'
                        /\ quoted[charges'[n].ttid] = [option |-> list[charges'[n].at], amount |-> charges'[n].amount]
      BY <1>3 DEF PriorityIsKept
    <3>1. CASE n = m
      <4>1. quoted[c.ttid] = [option |-> list[c.at], amount |-> c.amount]
        BY <2>2, <2>4
      <4>2. ASSUME NEW k \in 1..i - 1 PROVE RuledOut(k)'
        <5>1. RuledOut(k)
          BY DEF Inv, Undecided, InLoop
        <5> QED
          BY <2>1, <5>1, RuledOutStays
      <4> QED
        BY <2>2, <3>1, <4>1, <4>2
    <3>2. CASE n \in 1..Len(charges)
      <4>1. charges'[n] = charges[n] /\ charges[n].at \in 1..Len(list)
        BY <1>3, <3>2 DEF Inv, Placed
      <4>2. quoted[charges[n].ttid] = [option |-> list[charges[n].at], amount |-> charges[n].amount]
        BY <3>2 DEF Inv, PriorityIsKept
      <4>3. ASSUME NEW k \in 1..charges[n].at - 1 PROVE RuledOut(k)'
        <5>1. RuledOut(k)
          BY <3>2 DEF Inv, PriorityIsKept
        <5> QED
          BY <4>1, <5>1, RuledOutStays
      <4> QED
        BY <4>1, <4>2, <4>3
    <3> QED
      BY <2>1, <3>1, <3>2
  <2> QED
    BY <2>5, <2>6, <2>7
<1> QED
  BY <1>2, <1>3, ChargeAdds
------------------------------------------------------------------------------
(* One lemma per action. *)

LEMMA InvReceive == Inv /\ Receive => Inv'
<1> SUFFICES ASSUME Inv, Receive PROVE Inv'
  OBVIOUS
<1>1. ChargedOnce' /\ PriorityIsKept' /\ Placed'
  BY RecordsKept DEF Receive
<1>2. TypeOK'
  BY DEF Inv, TypeOK, Receive, Log, Throw, Locations
<1>3. Untouched' /\ Undecided' /\ Current' /\ AnswerIsTrue'
  BY DEF Inv, Receive, Log, Throw, Untouched, Undecided, InLoop, Current, AnswerIsTrue, Admitted, RuledOut
<1> QED
  BY <1>1, <1>2, <1>3 DEF Inv

LEMMA InvPrepare == Inv /\ Prepare => Inv'
<1> SUFFICES ASSUME Inv, Prepare PROVE Inv'
  OBVIOUS
<1>1. /\ list = <<>> /\ i = 1 /\ charges = <<>> /\ msg = "open" /\ nameless = {}
      /\ UNCHANGED <<i, errors, named, quoted, charges, nameless>>
  BY DEF Inv, Untouched, Prepare
<1>2. /\ list' \in Seq(Options) /\ pc' \in {"log", "try"}
      /\ msg' \in {"open", "parametersMissing", "noOptions"}
      /\ pc' = "try" => msg' = "open"
  BY <1>1 DEF Prepare, Return, Inv, TypeOK
<1>3. Len(charges') = 0 /\ Len(list') \in Nat
  BY <1>1, <1>2
<1>4. TypeOK'
  BY <1>1, <1>2, <1>3 DEF Inv, TypeOK, Locations, Messages
<1>5. ChargedOnce' /\ PriorityIsKept' /\ Placed'
  BY <1>3 DEF ChargedOnce, PriorityIsKept, Placed
<1>6. Untouched' /\ Undecided' /\ Current'
  BY <1>1, <1>2, <1>3 DEF Untouched, Undecided, InLoop, Current
<1>7. AnswerIsTrue'
  BY <1>1, <1>2, <1>3 DEF AnswerIsTrue, Admitted
<1> QED
  BY <1>4, <1>5, <1>6, <1>7 DEF Inv

LEMMA NoneAdmitted == Inv /\ InLoop => Admitted = {}
BY DEF Inv, Undecided, Admitted

LEMMA InvTryNext == Inv /\ TryNext => Inv'
<1> SUFFICES ASSUME Inv, TryNext PROVE Inv'
  OBVIOUS
<1>1. ChargedOnce' /\ PriorityIsKept' /\ Placed'
  BY RecordsKept DEF TryNext
<1>2. TypeOK'
  BY DEF Inv, TypeOK, TryNext, Return, Locations, Messages
<1>3. list \in Seq(Options) /\ i \in 1..Len(list) + 1
  BY DEF Inv, TypeOK
<1>4. Untouched' /\ Undecided' /\ Current'
  BY <1>3 DEF Inv, TryNext, Return, Untouched, Undecided, InLoop, Current, RuledOut
<1>5. CASE msg' = msg /\ i <= Len(list)
  <2>1. msg' = "open" /\ Admitted = {} /\ charges' = charges
    BY <1>5, NoneAdmitted DEF Inv, TryNext, Undecided, InLoop
  <2> QED
    BY <1>1, <1>2, <1>4, <2>1 DEF Inv, AnswerIsTrue, Admitted
<1>6. CASE msg' = "transactionFailed" /\ i > Len(list)
  <2>1. i = Len(list) + 1
    BY <1>3, <1>6
  <2>2. /\ \A k \in 1..Len(list) : RuledOut(k)
        /\ \A n \in 1..Len(charges) : charges[n].reply = "failed"
    BY <1>3, <2>1 DEF Inv, TryNext, Undecided, InLoop
  <2>3. Admitted = {}
    BY NoneAdmitted DEF TryNext, InLoop
  <2>4. AnswerIsTrue'
    BY <1>6, <2>2, <2>3 DEF TryNext, AnswerIsTrue, Admitted, RuledOut
  <2> QED
    BY <1>1, <1>2, <1>4, <2>4 DEF Inv
<1> QED
  BY <1>5, <1>6 DEF TryNext, Return

(* Going on to the next option, which needs the present one ruled out and  *)
(* every payment denied. *)
LEMMA Onward ==
  ASSUME Inv, InLoop, Continue, NEW here \in 1..Len(list), here = i, RuledOut(here)',
         list' = list, msg' = msg, errors \subseteq errors', nameless \subseteq nameless',
         \A n \in 1..Len(charges') : charges'[n].reply = "failed"
  PROVE  Untouched' /\ Undecided' /\ Current' /\ AnswerIsTrue'
<1>1. list \in Seq(Options) /\ msg = "open" /\ pc' = "try" /\ i' = i + 1
  BY DEF Inv, TypeOK, Undecided, Continue
<1>2. ASSUME NEW k \in 1..i' - 1 PROVE RuledOut(k)'
  <2>1. CASE k = here
    BY <2>1
  <2>2. CASE k \in 1..i - 1
    BY <2>2, RuledOutStays DEF Inv, Undecided
  <2> QED
    BY <1>1, <2>1, <2>2
<1>3. Untouched' /\ Current'
  BY <1>1 DEF Untouched, Current
<1>4. Undecided'
  BY <1>1, <1>2 DEF Undecided
<1>5. AnswerIsTrue'
  BY <1>1 DEF AnswerIsTrue, Admitted
<1> QED
  BY <1>3, <1>4, <1>5

(* An exception in the loop. *)
LEMMA Thrown ==
  ASSUME Inv, InLoop, Throw, list' = list, msg' = msg, Admitted' = {}
  PROVE  Untouched' /\ Undecided' /\ Current' /\ AnswerIsTrue'
<1>1. msg' = "open" /\ pc' = "thrown"
  BY DEF Inv, Undecided, Throw
<1> QED
  BY <1>1 DEF Untouched, Undecided, InLoop, Current, AnswerIsTrue

LEMMA InvLookUpCard == Inv /\ LookUpCard => Inv'
<1> SUFFICES ASSUME Inv, LookUpCard PROVE Inv'
  OBVIOUS
<1>1. /\ pc = "card" /\ InLoop /\ i \in 1..Len(list) /\ list \in Seq(Options)
      /\ UNCHANGED <<list, msg, named, quoted, charges>>
      /\ errors \subseteq errors' /\ nameless \subseteq nameless'
  BY DEF Inv, TypeOK, Current, LookUpCard, InLoop
<1>2. list[i] \in Options
  BY <1>1, ElementOfSeq
<1>3. ChargedOnce' /\ PriorityIsKept' /\ Placed'
  BY <1>1, RecordsKept
<1>4. TypeOK'
  BY <1>1, <1>2 DEF Inv, TypeOK, LookUpCard, Continue, Throw, Option, Locations
<1>5. \A n \in 1..Len(charges') : charges'[n].reply = "failed"
  BY <1>1 DEF Inv, Undecided
<1>6. CASE Continue
  <2>1. PICK here \in 1..Len(list) : here = i
    BY <1>1
  <2>2. RuledOut(here)'
    BY <1>1, <1>6, <2>1 DEF LookUpCard, Continue, Throw, Option, RuledOut
  <2> QED
    BY <1>1, <1>3, <1>4, <1>5, <1>6, <2>1, <2>2, Onward DEF Inv
<1>7. CASE pc' = "validate" /\ UNCHANGED <<i, errors, nameless>>
  <2>1. Untouched' /\ Undecided' /\ Current' /\ AnswerIsTrue'
    BY <1>1, <1>7 DEF Inv, Untouched, Undecided, InLoop, Current, AnswerIsTrue, Admitted, RuledOut
  <2> QED
    BY <1>3, <1>4, <2>1 DEF Inv
<1>8. CASE Throw
  <2>1. Admitted' = {}
    BY <1>5 DEF Admitted
  <2> QED
    BY <1>1, <1>3, <1>4, <1>8, <2>1, Thrown DEF Inv
<1> QED
  BY <1>6, <1>7, <1>8 DEF LookUpCard

LEMMA InvValidate == Inv /\ Validate => Inv'
<1> SUFFICES ASSUME Inv, Validate PROVE Inv'
  OBVIOUS
<1>1. /\ pc = "validate" /\ InLoop /\ i \in 1..Len(list)
      /\ list \in Seq(Options) /\ quoted \in Seq(Quotes)
      /\ UNCHANGED <<list, msg, named, charges, nameless>>
      /\ errors \subseteq errors'
  BY DEF Inv, TypeOK, Current, Validate, InLoop
<1>2. list[i] \in Options
  BY <1>1, ElementOfSeq
<1>3. \A n \in 1..Len(charges') : charges'[n].reply = "failed"
  BY <1>1 DEF Inv, Undecided
<1>4. CASE Continue /\ errors' = errors \cup {Option} /\ quoted' = quoted
  <2>1. TypeOK'
    BY <1>1, <1>2, <1>4 DEF Inv, TypeOK, Continue, Option, Locations
  <2>2. PICK here \in 1..Len(list) : here = i
    BY <1>1
  <2>3. RuledOut(here)'
    BY <1>1, <1>4, <2>2 DEF Option, RuledOut
  <2>4. ChargedOnce' /\ PriorityIsKept' /\ Placed'
    BY <1>1, <1>4, RecordsKept
  <2> QED
    BY <1>1, <1>3, <1>4, <2>1, <2>2, <2>3, <2>4, Onward DEF Inv
<1>5. ASSUME NEW a \in Amounts, quoted' = Append(quoted, [option |-> Option, amount |-> a]),
             pc' = "pay", UNCHANGED <<i, errors>>
      PROVE  Inv'
  <2> DEFINE q == [option |-> list[i], amount |-> a]
  <2>1. q \in Quotes /\ quoted' = Append(quoted, q)
    BY <1>2, <1>5 DEF Quotes, Option
  <2>2. quoted' \in Seq(Quotes) /\ Len(quoted') = Len(quoted) + 1 /\ quoted'[Len(quoted) + 1] = q
    BY <1>1, <2>1, AppendProperties
  <2>3. TypeOK'
    BY <1>1, <1>5, <2>2 DEF Inv, TypeOK, Locations
  <2>4. ChargedOnce' /\ PriorityIsKept' /\ Placed'
    BY <1>1, <1>5, <2>1, RecordsKept
  <2>5. Current'
    <3>1. quoted' # <<>> /\ quoted'[Len(quoted')].option = list[i]
      BY <1>1, <2>2
    <3> QED
      BY <1>1, <1>5, <3>1 DEF Current
  <2>6. Untouched' /\ Undecided' /\ AnswerIsTrue'
    BY <1>1, <1>3, <1>5 DEF Inv, Untouched, Undecided, InLoop, AnswerIsTrue, Admitted, RuledOut
  <2> QED
    BY <2>3, <2>4, <2>5, <2>6 DEF Inv
<1>6. CASE Throw /\ UNCHANGED <<i, errors, quoted>>
  <2>1. TypeOK'
    BY <1>1, <1>6 DEF Inv, TypeOK, Throw, Locations
  <2>2. ChargedOnce' /\ PriorityIsKept' /\ Placed'
    BY <1>1, <1>6, RecordsKept
  <2>3. Admitted' = {}
    BY <1>3 DEF Admitted
  <2> QED
    BY <1>1, <1>6, <2>1, <2>2, <2>3, Thrown DEF Inv
<1> QED
  BY <1>4, <1>5, <1>6 DEF Validate

(* With this payment, every payment was denied or has this reply. *)
LEMMA ChargeReplies ==
  ASSUME Inv, pc = "pay", NEW reply \in Replies, Charge(reply)
  PROVE  \A n \in 1..Len(charges') : charges'[n].reply \in {"failed", reply}
<1>1. charges \in Seq(Payments) /\ \A n \in 1..Len(charges) : charges[n].reply = "failed"
  BY DEF Inv, TypeOK, Undecided, InLoop
<1>2. CASE charges' = charges
  BY <1>1, <1>2
<1>3. CASE /\ Len(charges') = Len(charges) + 1
           /\ \A n \in 1..Len(charges) : charges'[n] = charges[n]
           /\ charges'[Len(charges) + 1] =
                [at |-> i, ttid |-> Len(quoted), amount |-> quoted[Len(quoted)].amount, reply |-> reply]
  <2>1. charges'[Len(charges) + 1].reply = reply
    BY <1>3
  <2> SUFFICES ASSUME NEW n \in 1..Len(charges) + 1 PROVE charges'[n].reply \in {"failed", reply}
    BY <1>3
  <2>2. CASE n = Len(charges) + 1
    BY <2>1, <2>2
  <2>3. CASE n \in 1..Len(charges)
    BY <1>1, <1>3, <2>3
  <2> QED
    BY <1>1, <2>2, <2>3
<1> QED
  BY <1>2, <1>3, ChargeAdds

LEMMA InvPortalPays == Inv /\ PortalPays => Inv'
<1> SUFFICES ASSUME Inv, PortalPays PROVE Inv'
  OBVIOUS
<1>1. /\ pc = "pay" /\ InLoop /\ pc' = "log" /\ msg' = "successful"
      /\ i \in 1..Len(list) /\ list \in Seq(Options) /\ quoted \in Seq(Quotes) /\ quoted # <<>>
      /\ UNCHANGED <<list, i, errors, quoted, nameless>>
  BY DEF Inv, TypeOK, Current, PortalPays, Return, InLoop
<1>2. named' = [option |-> list[i], priority |-> i, ttid |-> Len(quoted), amount |-> quoted[Len(quoted)].amount]
  BY DEF PortalPays, Option, Ttid, Due
<1>3. "paid" \in Replies /\ Charge("paid")
  BY DEF PortalPays, Replies
<1>4. /\ charges' \in Seq(Payments)
      /\ Len(charges') = Len(charges) + 1
      /\ \A n \in 1..Len(charges) : charges'[n] = charges[n]
      /\ charges'[Len(charges) + 1] =
           [at |-> i, ttid |-> Len(quoted), amount |-> quoted[Len(quoted)].amount, reply |-> "paid"]
  BY <1>1, <1>3, ChargeAdds
<1>5. ChargedOnce' /\ PriorityIsKept' /\ Placed'
  BY <1>1, <1>3, RecordsGrow
<1>6. quoted[Len(quoted)] \in Quotes /\ list[i] \in Options
  <2>1. Len(quoted) \in 1..Len(quoted)
    BY <1>1
  <2> QED
    BY <1>1, <2>1, ElementOfSeq
<1>7. named' \in Params
  BY <1>1, <1>2, <1>6 DEF Params, Quotes
<1>8. TypeOK'
  BY <1>1, <1>4, <1>7 DEF Inv, TypeOK, Locations, Messages
<1>9. Untouched' /\ Undecided' /\ Current'
  BY <1>1 DEF Untouched, Undecided, InLoop, Current
<1>10. AnswerIsTrue'
  <2>1. charges \in Seq(Payments) /\ Len(charges) \in Nat
    BY DEF Inv, TypeOK
  <2>2. \A n \in 1..Len(charges) : charges[n].reply # "paid"
    BY <1>1 DEF Inv, Undecided
  <2>3. Admitted' = {Len(charges')}
    BY <1>4, <2>1, <2>2 DEF Admitted
  <2> DEFINE c == charges'[Len(charges')]
  <2>4. c.at = i /\ c.ttid = Len(quoted) /\ c.amount = quoted[Len(quoted)].amount
    BY <1>4
  <2>5. /\ named' = [option |-> list[c.at], priority |-> c.at, ttid |-> Len(quoted), amount |-> c.amount]
        /\ c.ttid = Len(quoted)
    BY <1>2, <2>4
  <2> QED
    BY <1>1, <2>3, <2>5 DEF AnswerIsTrue
<1> QED
  BY <1>5, <1>8, <1>9, <1>10 DEF Inv

LEMMA InvPortalRefuses == Inv /\ PortalRefuses => Inv'
<1> SUFFICES ASSUME Inv, PortalRefuses PROVE Inv'
  OBVIOUS
<1>1. /\ pc = "pay" /\ InLoop /\ Continue /\ i \in 1..Len(list) /\ list \in Seq(Options)
      /\ charges \in Seq(Payments)
      /\ UNCHANGED <<list, msg, named, quoted, nameless>> /\ errors' = errors \cup {list[i]}
  BY DEF Inv, TypeOK, Current, PortalRefuses, InLoop, Option
<1>2. "failed" \in Replies /\ Charge("failed")
  BY DEF PortalRefuses, Replies
<1>3. ChargedOnce' /\ PriorityIsKept' /\ Placed'
  BY <1>1, <1>2, RecordsGrow
<1>4. charges' \in Seq(Payments) /\ \A n \in 1..Len(charges') : charges'[n].reply = "failed"
  BY <1>1, <1>2, ChargeAdds, ChargeReplies
<1>5. list[i] \in Options
  BY <1>1, ElementOfSeq
<1>6. TypeOK'
  BY <1>1, <1>4, <1>5 DEF Inv, TypeOK, Continue, Locations
<1>7. PICK here \in 1..Len(list) : here = i
  BY <1>1
<1>8. RuledOut(here)'
  BY <1>1, <1>7 DEF RuledOut
<1>9. Untouched' /\ Undecided' /\ Current' /\ AnswerIsTrue'
  BY <1>1, <1>4, <1>7, <1>8, Onward
<1> QED
  BY <1>3, <1>6, <1>9 DEF Inv

LEMMA InvPortalIsSilent == Inv /\ PortalIsSilent => Inv'
<1> SUFFICES ASSUME Inv, PortalIsSilent PROVE Inv'
  OBVIOUS
<1>1. /\ pc = "pay" /\ InLoop /\ charges \in Seq(Payments)
      /\ UNCHANGED <<list, i, errors, named, quoted, nameless>>
  BY DEF Inv, TypeOK, PortalIsSilent, InLoop
<1>2. PICK reply \in {"none", "garbled", "null"} : Charge(reply)
  BY DEF PortalIsSilent
<1>3. reply \in Replies /\ reply # "paid"
  BY DEF Replies
<1>4. ChargedOnce' /\ PriorityIsKept' /\ Placed'
  BY <1>1, <1>2, <1>3, RecordsGrow
<1>5. charges' \in Seq(Payments) /\ \A n \in 1..Len(charges') : charges'[n].reply # "paid"
  BY <1>1, <1>2, <1>3, ChargeAdds, ChargeReplies
<1>6. Admitted' = {}
  BY <1>5 DEF Admitted
<1>7. \/ pc' = "log" /\ msg' \in {"noConnection", "unreadable"}
      \/ pc' = "thrown" /\ msg' = msg
  BY DEF PortalIsSilent, Return, Throw
<1>8. TypeOK'
  BY <1>1, <1>5, <1>7 DEF Inv, TypeOK, Locations, Messages
<1>9. msg = "open"
  BY <1>1 DEF Inv, Undecided
<1>10. Untouched' /\ Undecided' /\ Current' /\ AnswerIsTrue'
  BY <1>6, <1>7, <1>9 DEF Untouched, Undecided, InLoop, Current, AnswerIsTrue
<1> QED
  BY <1>4, <1>8, <1>10 DEF Inv

LEMMA InvLogResponse == Inv /\ LogResponse => Inv'
<1> SUFFICES ASSUME Inv, LogResponse PROVE Inv'
  OBVIOUS
<1>1. ChargedOnce' /\ PriorityIsKept' /\ Placed'
  BY RecordsKept DEF LogResponse
<1>2. TypeOK'
  BY DEF Inv, TypeOK, LogResponse, Log, Throw, Locations
<1>3. Untouched' /\ Undecided' /\ Current'
  BY DEF LogResponse, Log, Throw, Untouched, Undecided, InLoop, Current
<1>4. AnswerIsTrue'
  BY DEF Inv, LogResponse, AnswerIsTrue, Admitted, RuledOut
<1> QED
  BY <1>1, <1>2, <1>3, <1>4 DEF Inv
------------------------------------------------------------------------------
LEMMA InvNext == Inv /\ [Next]_vars => Inv'
<1>1. Inv /\ UNCHANGED vars => Inv'
  BY DEF vars, Inv, TypeOK, Untouched, Undecided, InLoop, Current, Placed, ChargedOnce,
     PriorityIsKept, AnswerIsTrue, Admitted, RuledOut
<1>2. Rest => UNCHANGED vars
  BY DEF Rest
<1> QED
  BY <1>1, <1>2, InvReceive, InvPrepare, InvTryNext, InvLookUpCard, InvValidate,
     InvPortalPays, InvPortalRefuses, InvPortalIsSilent, InvLogResponse DEF Next

LEMMA Invariant == Spec => []Inv
BY InvInit, InvNext, PTL DEF Spec

(* Every variable keeps its type. *)
THEOREM TypeCorrect == Spec => []TypeOK
BY Invariant, PTL DEF Inv

(* For any options, amounts and lists: the company is charged at most once *)
(* (CorporateAutoBookingService.autoBooking), except for payments the      *)
(* portal took and denied.                                                 *)
THEOREM ChargedAtMostOnce == Spec => []ChargedOnce
BY Invariant, PTL DEF Inv

(* However many options there are, none is charged before those of higher  *)
(* priority were ruled out, nor for another validation than its own.       *)
THEOREM PrioritiesKept == Spec => []PriorityIsKept
BY Invariant, PTL DEF Inv

(* However many options there are, the response names the payment made,    *)
(* and says "failed" only of a call whose payments were all denied.        *)
THEOREM AnswerTrue == Spec => []AnswerIsTrue
BY Invariant, PTL DEF Inv
==============================================================================
