------------------------------ MODULE Checkout ------------------------------
(***************************************************************************)
(* What a checkout promises about one submitted payment form, whatever     *)
(* happens inside: the money is collected by the checkout at most once and *)
(* never beside a payment at the portal; the LOB (the seller's system)     *)
(* hears at most one outcome, and "paid" only of collected money; the      *)
(* customer gets one answer, "paid" only for collected money and "go to    *)
(* the portal" only while nothing was collected.  A checkout may lose      *)
(* track of what a partner did or of its own answer; only such a muddled   *)
(* request may be answered "failed" when its money was taken.              *)
(***************************************************************************)
CONSTANT Requests

VARIABLES
  money,    \* where the money of each request is
  lob,      \* what the LOB heard
  answer,   \* what the customer was told
  muddled   \* the checkout lost track

vars == <<money, lob, answer, muddled>>

TypeOK ==
  /\ money \in [Requests -> {"none", "collected", "initiated"}]
  /\ lob \in [Requests -> {"silent", "paid", "failed"}]
  /\ answer \in [Requests -> {"open", "paid", "portal", "failed"}]
  /\ muddled \in [Requests -> BOOLEAN]

Init ==
  /\ money = [r \in Requests |-> "none"]
  /\ lob = [r \in Requests |-> "silent"]
  /\ answer = [r \in Requests |-> "open"]
  /\ muddled = [r \in Requests |-> FALSE]

(* A step may lose track on the way; it never finds back. *)
Track(r) == \/ UNCHANGED muddled
            \/ muddled' = [muddled EXCEPT ![r] = TRUE]

(* The money is collected here, or a payment is initiated at the portal. *)
Take(r, how) ==
  /\ answer[r] = "open" /\ money[r] = "none" /\ lob[r] = "silent"
  /\ money' = [money EXCEPT ![r] = how]
  /\ Track(r)
  /\ UNCHANGED <<lob, answer>>

LoseTrack(r) ==
  /\ answer[r] = "open"
  /\ muddled' = [muddled EXCEPT ![r] = TRUE]
  /\ UNCHANGED <<money, lob, answer>>

ConfirmToLob(r) ==
  /\ answer[r] = "open" /\ lob[r] = "silent"
  /\ money[r] = "collected"
  /\ lob' = [lob EXCEPT ![r] = "paid"]
  /\ UNCHANGED <<money, answer, muddled>>

ReportFailureToLob(r) ==
  /\ answer[r] = "open" /\ lob[r] = "silent"
  /\ money[r] = "none" \/ muddled[r]
  /\ lob' = [lob EXCEPT ![r] = "failed"]
  /\ UNCHANGED <<money, answer, muddled>>

Answer(r, a) ==
  /\ answer[r] = "open"
  /\ answer' = [answer EXCEPT ![r] = a]
  /\ Track(r)
  /\ CASE a = "paid"   -> money[r] = "collected" /\ lob[r] # "failed"
       [] a = "portal" -> money[r] # "collected" /\ lob[r] = "silent"
       [] a = "failed" -> money[r] = "none" \/ muddled'[r]
  /\ UNCHANGED <<money, lob>>

Next ==
  \E r \in Requests :
    \/ \E how \in {"collected", "initiated"} : Take(r, how)
    \/ LoseTrack(r)
    \/ ConfirmToLob(r)
    \/ ReportFailureToLob(r)
    \/ \E a \in {"paid", "portal", "failed"} : Answer(r, a)

Spec == Init /\ [][Next]_vars
=============================================================================
