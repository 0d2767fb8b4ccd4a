------------------------ MODULE CorporateAutoBooking ------------------------
(***************************************************************************)
(* One call of corporate-auto-booking: the LOB has a booking paid without  *)
(* a customer.  CorporateAutoBookingService asks for the company's payment *)
(* options and tries them in their order of priority: a card for a         *)
(* corporate card, the LOB's consent and amount, then the payment portal.  *)
(* The first option the portal takes ends the call; a refusal goes on to   *)
(* the next, and a reply that tells nothing must not.                      *)
(*                                                                         *)
(* The LOB, the card service and the portal are external.  The portal may  *)
(* take a payment and say "failed", say nothing or nothing readable.       *)
(***************************************************************************)
EXTENDS Integers, Sequences

CONSTANTS
  OptionLists,  \* what the payment-option API may return, sorted by priority
  Amounts       \* what the LOB may ask for an option

Options == {"cp", "corpCard"}

(* An option may be configured more than once. *)
ASSUME AutoBookingAssumption == OptionLists \subseteq Seq(Options) \ {<<>>}

VARIABLES
  pc,        \* where the call is
  list,      \* payOpInPriorityOrderList
  i,         \* the priority of the option being tried
  errors,    \* keys of paymentMethodErrors
  msg,       \* msg of the response; "successful" comes with status = true
  named,     \* params of a successful response
  quoted,    \* the LOB's validations: a ttid is a place in it (external)
  charges,   \* payments the portal has taken (external)
  nameless   \* priorities at which the card came without an id (history)

vars == <<pc, list, i, errors, msg, named, quoted, charges, nameless>>

Locations == {"idle", "prepare", "try", "card", "validate", "pay", "log", "answered", "thrown"}

(* What the portal may reply; "null" is a reply that is read as null. *)
Replies == {"paid", "failed", "none", "garbled", "null"}

Messages == {"open", "parametersMissing", "noOptions", "noConnection", "unreadable",
             "transactionFailed", "successful"}

Quotes == [option : Options, amount : Amounts]

(* A payment: the priority and ttid it was made for, and what the portal   *)
(* replied about it.                                                       *)
Payments == [at : Nat, ttid : Nat, amount : Amounts, reply : Replies]

NoParams == [priority |-> 0]

Params == {NoParams} \cup [option : Options, priority : Nat, ttid : Nat, amount : Amounts]

(* The type invariant. *)
TypeOK ==
  /\ pc \in Locations
  /\ list \in Seq(Options)
  /\ i \in 1..Len(list) + 1
  /\ errors \subseteq Options
  /\ msg \in Messages
  /\ named \in Params
  /\ quoted \in Seq(Quotes)
  /\ charges \in Seq(Payments)
  /\ nameless \subseteq 1..Len(list)

Init ==
  /\ pc = "idle"
  /\ list = <<>> /\ i = 1
  /\ errors = {} /\ msg = "open" /\ named = NoParams
  /\ quoted = <<>> /\ charges = <<>>
  /\ nameless = {}
------------------------------------------------------------------------------
(* An exception leaves the service and the controller: the LOB is told     *)
(* nothing but that the call failed.                                       *)
Throw == pc' = "thrown"

(* LoggingProcessor.logIntoPayswiftStages: a full logging pool throws. *)
Log(next) == pc' = next \/ Throw

(* The service returns its response with message m. *)
Return(m) == pc' = "log" /\ msg' = m

(* The loop goes on with the next option. *)
Continue == pc' = "try" /\ i' = i + 1

Option == list[i]

(* CorporateAutoBookingController.autoBooking: the request is logged. *)
Receive ==
  /\ pc = "idle"
  /\ Log("prepare")
  /\ UNCHANGED <<list, i, errors, msg, named, quoted, charges, nameless>>

(* The parameters are checked, the booking details fetched (without them   *)
(* the call goes on, whatever the reason) and the payment options asked    *)
(* for, which the API may refuse or have none of.                          *)
Prepare ==
  /\ pc = "prepare"
  /\ \/ /\ \E m \in {"parametersMissing", "noOptions"} : Return(m)
        /\ UNCHANGED list
     \/ /\ list' \in OptionLists
        /\ pc' = "try"
        /\ UNCHANGED msg
  /\ UNCHANGED <<i, errors, named, quoted, charges, nameless>>

(* The head of the loop: no option is left, or the next is tried. *)
TryNext ==
  /\ pc = "try"
  /\ \/ /\ i > Len(list)
        /\ Return("transactionFailed")
     \/ /\ i <= Len(list)
        /\ pc' = IF Option = "corpCard" THEN "card" ELSE "validate"
        /\ UNCHANGED msg
  /\ UNCHANGED <<list, i, errors, named, quoted, charges, nameless>>

(* Mutant of LookUpCard: a card service that fails is not put on record. *)
SilentLookUpCard ==
  /\ pc = "card"
  /\ \/ Continue /\ UNCHANGED nameless
     \/ Continue /\ nameless' = nameless \cup {i}
     \/ (pc' = "validate" \/ Throw) /\ UNCHANGED <<i, nameless>>
  /\ UNCHANGED <<list, errors, msg, named, quoted, charges>>

(* getCardIdFromCardService: a card service that fails or refuses leaves   *)
(* an error, one whose first card has no id leaves none; without any card  *)
(* in a good response the call ends in an exception.                       *)
LookUpCard ==
  /\ pc = "card"
  /\ \/ Continue /\ errors' = errors \cup {Option} /\ UNCHANGED nameless
     \/ Continue /\ nameless' = nameless \cup {i} /\ UNCHANGED errors
     \/ (pc' = "validate" \/ Throw) /\ UNCHANGED <<i, errors, nameless>>
  /\ UNCHANGED <<list, msg, named, quoted, charges>>

(* LobValidatePaymentService.serverSideValidateWithLob: the LOB consents   *)
(* and names amount and ttid, or refuses.  A LOB that cannot be reached or *)
(* sends nothing ends the call: the finally block uses the response bean   *)
(* that is not there.                                                      *)
Validate ==
  /\ pc = "validate"
  /\ \/ /\ Continue
        /\ errors' = errors \cup {Option}
        /\ UNCHANGED quoted
     \/ /\ \E a \in Amounts : quoted' = Append(quoted, [option |-> Option, amount |-> a])
        /\ pc' = "pay"
        /\ UNCHANGED <<i, errors>>
     \/ Throw /\ UNCHANGED <<i, errors, quoted>>
  /\ UNCHANGED <<list, msg, named, charges, nameless>>

(* The ttid and amount of the last validation. *)
Ttid == Len(quoted)
Due  == quoted[Ttid].amount

(* sendRequestToPaymentPortal: the portal takes the payment it is asked    *)
(* for, or does not, and replies.                                          *)
Charge(reply) ==
  \/ charges' = Append(charges, [at |-> i, ttid |-> Ttid, amount |-> Due, reply |-> reply])
  \/ reply # "paid" /\ UNCHANGED charges

(* Mutant of PortalPays: the amount of the first validation is reported. *)
PortalPaysFirstAmount ==
  /\ pc = "pay"
  /\ Charge("paid")
  /\ Return("successful")
  /\ named' = [option |-> Option, priority |-> i, ttid |-> Ttid, amount |-> quoted[1].amount]
  /\ UNCHANGED <<list, i, errors, quoted, nameless>>

(* The portal says the payment is made: getSuccessfulBookingResponse. *)
PortalPays ==
  /\ pc = "pay"
  /\ Charge("paid")
  /\ Return("successful")
  /\ named' = [option |-> Option, priority |-> i, ttid |-> Ttid, amount |-> Due]
  /\ UNCHANGED <<list, i, errors, quoted, nameless>>

(* The portal says the payment failed: the next option. *)
PortalRefuses ==
  /\ pc = "pay"
  /\ Charge("failed")
  /\ Continue
  /\ errors' = errors \cup {Option}
  /\ UNCHANGED <<list, msg, named, quoted, nameless>>

(* Mutant of PortalIsSilent: a call that fails is taken for a refusal. *)
PortalIsSkipped ==
  /\ pc = "pay"
  /\ Charge("none")
  /\ Continue
  /\ errors' = errors \cup {Option}
  /\ UNCHANGED <<list, msg, named, quoted, nameless>>

(* No reply, or none that can be read: the call ends. *)
PortalIsSilent ==
  /\ pc = "pay"
  /\ \/ Charge("none") /\ Return("noConnection")
     \/ Charge("garbled") /\ Return("unreadable")
     \/ Charge("null") /\ Throw /\ UNCHANGED msg
  /\ UNCHANGED <<list, i, errors, named, quoted, nameless>>

(* The controller logs the response; a full pool throws a good one away. *)
LogResponse ==
  /\ pc = "log"
  /\ Log("answered")
  /\ UNCHANGED <<list, i, errors, msg, named, quoted, charges, nameless>>

(* The call is over. *)
Rest == pc \in {"answered", "thrown"} /\ UNCHANGED vars

Next ==
  \/ Receive \/ Prepare \/ TryNext \/ LookUpCard \/ Validate
  \/ PortalPays \/ PortalRefuses \/ PortalIsSilent
  \/ LogResponse \/ Rest

Spec == Init /\ [][Next]_vars
------------------------------------------------------------------------------
(* Properties. *)

(* The company is charged at most once, except for payments the portal     *)
(* took and said it had not: every payment before the last was denied.     *)
ChargedOnce ==
  \A k \in 1..Len(charges) - 1 : charges[k].reply = "failed"

(* The option of priority k was ruled out: there is an error for it, or a  *)
(* card without an id.                                                     *)
RuledOut(k) == list[k] \in errors \/ k \in nameless

(* Priorities are kept: a payment is made only when every option before it *)
(* was ruled out, for what the LOB asked for that very option.             *)
PriorityIsKept ==
  \A n \in 1..Len(charges) : LET c == charges[n] IN
    /\ \A k \in 1..c.at - 1 : RuledOut(k)
    /\ quoted[c.ttid] = [option |-> list[c.at], amount |-> c.amount]

(* The payments the portal admits to. *)
Admitted == {n \in 1..Len(charges) : charges[n].reply = "paid"}

(* The response tells the truth.  A successful one names option, priority, *)
(* ttid and amount of the one admitted payment, and there is no admitted   *)
(* payment without it, even if the LOB never receives it because the       *)
(* logging pool was full.  "Transaction failed" means that every option    *)
(* was ruled out and each payment taken was denied; an earlier end, that   *)
(* nothing was taken.                                                      *)
AnswerIsTrue ==
  /\ msg = "successful" =>
       LET c == charges[Len(charges)] IN
         /\ Admitted = {Len(charges)}
         /\ named = [option |-> list[c.at], priority |-> c.at, ttid |-> Len(quoted), amount |-> c.amount]
         /\ c.ttid = Len(quoted)
  /\ msg # "successful" => Admitted = {}
  /\ msg = "transactionFailed" =>
       /\ \A k \in 1..Len(list) : RuledOut(k)
       /\ \A n \in 1..Len(charges) : charges[n].reply = "failed"
  /\ msg \in {"parametersMissing", "noOptions"} => charges = <<>>
==============================================================================
