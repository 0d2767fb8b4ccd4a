--------------------------- MODULE PayNowCheckout ---------------------------
(* The pay-now pipeline implements the checkout. *)
EXTENDS PayNow

Money(r) ==
  IF settled[r] # {} THEN "collected"
  ELSE IF portal[r] = "initiated" THEN "initiated" ELSE "none"

Lob(r) ==
  IF s2s[r] = <<>> THEN "silent" ELSE IF s2s[r] = <<TRUE>> THEN "paid" ELSE "failed"

Answer(r) ==
  IF pc[r] # "done" THEN "open"
  ELSE IF AnsweredPaid(r) THEN "paid"
  ELSE IF HandedOff(r) THEN "portal" ELSE "failed"

Promise == INSTANCE Checkout WITH
  money   <- [r \in Requests |-> Money(r)],
  lob     <- [r \in Requests |-> Lob(r)],
  answer  <- [r \in Requests |-> Answer(r)],
  muddled <- [r \in Requests |-> faults[r] # {}]

(* Every behaviour of the pipeline (PayNowController.payNow with           *)
(* LoggingProcessor, RequestResponseEnhancer and its processors) is one    *)
(* the checkout allows.                                                    *)
CheckoutImplemented == Promise!Spec
=============================================================================
