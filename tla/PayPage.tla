------------------------------- MODULE PayPage -------------------------------
(***************************************************************************)
(* The desktop payment page (payment-commons.js): the Pay Now button, the  *)
(* "Show QR Code" button of the UPI tab, the popups, and the calls the page*)
(* makes: /payNow, the call that initiates an app payment (rurl) and the   *)
(* polls of its status.  A press of either button starts an attempt.       *)
(*                                                                         *)
(* Calls are answered in any order, also while the user goes on using the  *)
(* page; every answer runs a callback to its end.  The callbacks share     *)
(* globals (resp, payNowCallFromQRCode, forceStopPolling and the one timer *)
(* handle pollPayStatInterval), which a later press may have changed.  A   *)
(* form that is submitted replaces the page only some time later, and      *)
(* callbacks run until then; the form submitted last wins.                 *)
(***************************************************************************)
EXTENDS Integers, FiniteSets

CONSTANTS
  Offered,      \* the payment options the page offers
  MaxAttempts,  \* bound on the presses that reach the server
  MaxAge,       \* bound on the ticks that are counted of a timer
  MaxPolls,     \* bound on the unanswered polls that are counted
  PayBy,        \* payByDurationInSec of an answer that gives it
  PollEvery     \* pollIntervalInSec of such an answer

ASSUME PayPageAssumption ==
  /\ Offered \subseteq {"card", "upi", "paytm"}
  /\ MaxAttempts \in Nat /\ MaxAge \in Nat /\ MaxPolls \in Nat
  /\ PayBy \in Nat /\ PollEvery \in Nat

Attempts == 1..MaxAttempts
Nobody   == 0

(* "upi" stands for the options paid in an app: upi, tez, tez_pwa, cred;   *)
(* "card" for those that post a form to a gateway; "qr" is the payment the *)
(* QR button of the upi tab makes.                                         *)
Kinds == {"card", "upi", "paytm", "qr", "none"}

(* The popups with buttons: promo changed or price changed ("ask": go on,  *)
(* back or leave), discount or promo refused ("refused": pay without it,   *)
(* back or leave), LOB or prime check failed ("exit": leave).              *)
Messages == {"ask", "refused", "exit"}

(* Where a submitted form goes: the gateway of an attempt, the page for a  *)
(* completed or a failed payment, or nowhere (its address was deleted).    *)
Places == {"gateway", "success", "failed", "nowhere", "elsewhere"}

VARIABLES
  option,      \* the payment option whose tab is open
  enabled,     \* Pay Now can be pressed
  qrButton,    \* Show QR Code is shown
  modal,       \* a modal popup without buttons covers the page
  messages,    \* the popups with buttons that are shown
  black,       \* the black div covers the page behind them
  kind,        \* attempt -> option or "qr", "none" before it starts
  asked,       \* attempts whose /payNow is not answered
  inits,       \* attempt -> unanswered calls that initiate its payment
  image,       \* attempt whose QR image is loading
  paytm,       \* attempts whose Paytm checkout is loading or open
  fromQR,      \* payNowCallFromQRCode
  forceStop,   \* forceStopPolling
  resp,        \* attempt whose answer is in the global resp
  timers,      \* the intervals made, in order
  made,        \* how many
  handle,      \* pollPayStatInterval
  ownHandle,   \* attempt -> initData.pollPayStatInterval
  polls,       \* attempt -> unanswered status polls
  noAddress,   \* attempts whose failRedirectMap has lost its rurl
  leaving,     \* the form submitted last
  unloaded,    \* the page is gone
  paid,        \* attempts the customer has paid in the app (history)
  stopped,     \* attempts whose polling the user stopped (history)
  touched,     \* a press, or a new amount, came while an attempt was open (history)
  trouble      \* an answer came that the page drops, or none ever will (history)

screen  == <<option, enabled, qrButton, modal, messages, black>>
calls   == <<asked, inits, image, paytm>>
globals == <<fromQR, forceStop, resp, handle>>
polling == <<timers, made, ownHandle, polls>>
exits   == <<noAddress, leaving, unloaded>>
history == <<paid, stopped, touched, trouble>>
vars    == <<screen, kind, calls, globals, polling, exits, history>>

Timer == [att : Attempts \cup {Nobody}, live : BOOLEAN, age : 0..MaxAge, given : BOOLEAN]

Stay == [to |-> "here", att |-> Nobody]

(* The type invariant. *)
TypeOK ==
  /\ option \in Offered /\ enabled \in BOOLEAN /\ qrButton \in BOOLEAN
  /\ modal \in BOOLEAN /\ messages \in SUBSET Messages /\ black \in BOOLEAN
  /\ kind \in [Attempts -> Kinds]
  /\ asked \in SUBSET Attempts
  /\ inits \in [Attempts -> 0..MaxAttempts]
  /\ image \in Attempts \cup {Nobody}
  /\ paytm \in SUBSET Attempts
  /\ fromQR \in BOOLEAN /\ forceStop \in BOOLEAN
  /\ resp \in Attempts \cup {Nobody}
  /\ timers \in [Attempts -> Timer] /\ made \in 0..MaxAttempts
  /\ handle \in 0..MaxAttempts
  /\ ownHandle \in [Attempts -> 0..MaxAttempts]
  /\ polls \in [Attempts -> 0..MaxPolls]
  /\ noAddress \in SUBSET Attempts
  /\ leaving \in [to : Places \cup {"here"}, att : Attempts \cup {Nobody}]
  /\ unloaded \in BOOLEAN
  /\ paid \in SUBSET Attempts /\ stopped \in SUBSET Attempts
  /\ touched \in BOOLEAN /\ trouble \in BOOLEAN

Init ==
  /\ option \in Offered /\ enabled = TRUE /\ qrButton = TRUE /\ modal = FALSE
  /\ messages = {} /\ black = FALSE
  /\ kind = [a \in Attempts |-> "none"]
  /\ asked = {} /\ inits = [a \in Attempts |-> 0] /\ image = Nobody /\ paytm = {}
  /\ fromQR = FALSE /\ forceStop = FALSE /\ resp = Nobody
  /\ timers = [i \in Attempts |-> [att |-> Nobody, live |-> FALSE, age |-> 0, given |-> FALSE]]
  /\ made = 0 /\ handle = 0
  /\ ownHandle = [a \in Attempts |-> 0] /\ polls = [a \in Attempts |-> 0]
  /\ noAddress = {} /\ leaving = Stay /\ unloaded = FALSE
  /\ paid = {} /\ stopped = {} /\ touched = FALSE /\ trouble = FALSE

Live        == {i \in Attempts : timers[i].live}
Unstarted   == {a \in Attempts : kind[a] = "none"}
NextAttempt == CHOOSE a \in Unstarted : TRUE

(* An attempt is open until its payment is with the gateway or polled for. *)
Open == asked \cup {a \in Attempts : inits[a] > 0} \cup ({image} \ {Nobody}) \cup paytm

(* The user can use the page behind the popups. *)
Reachable == ~unloaded /\ ~modal /\ ~black

(* clearInterval(h). *)
Cleared(ts, h) == [i \in Attempts |-> IF i = h THEN [ts[i] EXCEPT !.live = FALSE] ELSE ts[i]]

(* The attempts that are no longer polled for once interval h is cleared.  *)
PolledBy(h) == {timers[i].att : i \in Live \cap {h}}

(* generateFormAndPost: the form submitted last is the one that counts.    *)
Post(place, a) == leaving' = [to |-> place, att |-> a]

(* handleErrorRedirect takes rurl out of the map it is given: the second   *)
(* time there is no address.                                               *)
ErrorRedirect(a) ==
  /\ Post(IF a \in noAddress THEN "nowhere" ELSE "failed", a)
  /\ noAddress' = noAddress \cup {a}

(* Mutant of StopPolling: the flag alone is to stop the polling. *)
FlagOnlyStopPolling ==
  /\ qrButton' = TRUE
  /\ timers' = timers
  /\ stopped' = stopped \cup PolledBy(handle)

(* stopPollingForQRCode; the caller sets the flag forceStopPolling.        *)
StopPolling ==
  /\ qrButton' = TRUE
  /\ timers' = Cleared(timers, handle)
  /\ stopped' = stopped \cup PolledBy(handle)

(* What every press records. *)
Touch == touched' = (touched \/ Open # {})

(* payNow posts the form of a new attempt. *)
Submit(k) ==
  LET a == NextAttempt
  IN  /\ Unstarted # {}
      /\ kind' = [kind EXCEPT ![a] = k]
      /\ asked' = asked \cup {a}
      /\ enabled' = FALSE

(* Mutant of PayNow: the flag is not taken back for an app payment. *)
KeptStopPayNow(valid) ==
  /\ \/ Reachable /\ enabled /\ UNCHANGED <<messages, black>>
     \/ /\ ~unloaded /\ ~modal /\ "refused" \in messages
        /\ messages' = messages \ {"refused"} /\ black' = FALSE
  /\ Touch
  /\ fromQR' = FALSE
  /\ IF option # "upi" \/ valid
       THEN StopPolling
       ELSE UNCHANGED <<qrButton, timers, stopped>>
  /\ IF valid
       THEN Submit(option) /\ modal' = TRUE /\ forceStop' = TRUE
       ELSE /\ forceStop' = (forceStop \/ option # "upi")
            /\ enabled' = TRUE /\ UNCHANGED <<kind, asked, modal>>
  /\ UNCHANGED <<option, inits, image, paytm, resp, handle, made, ownHandle, polls, exits,
                 paid, trouble>>

(* payNow from the button or, after a refusal, from the popup's button     *)
(* "pay without it".  The form is validated after polling was stopped, for *)
(* upi before.                                                             *)
PayNow(valid) ==
  /\ \/ Reachable /\ enabled /\ UNCHANGED <<messages, black>>
     \/ /\ ~unloaded /\ ~modal /\ "refused" \in messages
        /\ messages' = messages \ {"refused"} /\ black' = FALSE
  /\ Touch
  /\ fromQR' = FALSE
  /\ IF option # "upi" \/ valid
       THEN StopPolling
       ELSE UNCHANGED <<qrButton, timers, stopped>>
  /\ IF valid
       THEN Submit(option) /\ modal' = TRUE /\ forceStop' = (option # "upi")
       ELSE /\ forceStop' = (forceStop \/ option # "upi")
            /\ enabled' = TRUE /\ UNCHANGED <<kind, asked, modal>>
  /\ UNCHANGED <<option, inits, image, paytm, resp, handle, made, ownHandle, polls, exits,
                 paid, trouble>>

(* QRPayNowRequest: no popup covers the page meanwhile. *)
ShowQR ==
  /\ Reachable /\ qrButton /\ option = "upi"
  /\ Touch
  /\ Submit("qr")
  /\ fromQR' = TRUE /\ forceStop' = FALSE /\ qrButton' = FALSE
  /\ UNCHANGED <<option, modal, messages, black, inits, image, paytm, resp, handle, polling,
                 exits, paid, stopped, trouble>>

(* Another tab: Pay Now is enabled whatever disabled it. *)
ChangeOption(o) ==
  /\ Reachable /\ o # option
  /\ option' = o /\ enabled' = TRUE
  /\ UNCHANGED <<qrButton, modal, messages, black, kind, calls, globals, polling, exits, history>>

(* The amount changes: a voucher is added (which stops the polling), the   *)
(* balance of a voucher comes (which shows the new amount), a voucher is   *)
(* deleted or eCash is redeemed or given back (which do both).  Balances   *)
(* and eCash are answers: they come also while a popup covers the page.    *)
(* ShoppingCart.update enables Pay Now, through enableEMI.                 *)
ChangeAmount(stops, shows) ==
  /\ ~unloaded /\ (stops \/ shows) /\ (shows \/ Reachable)
  /\ touched' = (touched \/ Open # {} \/ ~Reachable)
  /\ enabled' = (enabled \/ shows)
  /\ IF stops
       THEN StopPolling /\ forceStop' = TRUE
       ELSE UNCHANGED <<qrButton, timers, stopped, forceStop>>
  /\ UNCHANGED <<option, modal, messages, black, kind, calls, fromQR, resp, handle,
                 made, ownHandle, polls, exits, paid, trouble>>

(* continueWithPayment, on a page without the modal popup: an app payment  *)
(* brings it up again, the payment of a QR code does not.                  *)
Continue(a) ==
  CASE kind[a] \in {"upi", "qr"} ->
         /\ inits' = [inits EXCEPT ![a] = @ + 1]
         /\ modal' = ~fromQR
         /\ UNCHANGED <<paytm, leaving>>
    [] kind[a] = "paytm" ->
         paytm' = paytm \cup {a} /\ modal' = FALSE /\ UNCHANGED <<inits, leaving>>
    [] OTHER -> Post("gateway", a) /\ modal' = FALSE /\ UNCHANGED <<inits, paytm>>

(* A popup's button: go on with what the global resp holds, go back to the *)
(* page, or leave for the search or review page.  Each shows the amount.   *)
GoOn ==
  /\ ~unloaded /\ ~modal /\ "ask" \in messages
  /\ messages' = messages \ {"ask"} /\ black' = FALSE /\ enabled' = TRUE
  /\ Continue(resp)
  /\ UNCHANGED <<option, qrButton, kind, asked, image, globals, polling, noAddress,
                 unloaded, history>>

GoBack(m) ==
  /\ ~unloaded /\ ~modal /\ m \in messages \ {"exit"}
  /\ messages' = messages \ {m} /\ black' = FALSE /\ enabled' = TRUE
  /\ UNCHANGED <<option, qrButton, modal, kind, calls, globals, polling, exits, history>>

LeaveBy(m) ==
  /\ ~unloaded /\ ~modal /\ m \in messages
  /\ messages' = messages \ {m} /\ black' = FALSE /\ enabled' = TRUE
  /\ Post("elsewhere", Nobody)
  /\ UNCHANGED <<option, qrButton, modal, kind, calls, globals, polling, noAddress,
                 unloaded, history>>

(* Mutant of PayNowAnswered: a failed call leaves Pay Now disabled. *)
DisabledPayNowAnswered(a, answer) ==
  /\ ~unloaded /\ a \in asked
  /\ asked' = asked \ {a}
  /\ resp' = IF answer \in {"empty", "error"} THEN resp ELSE a
  /\ enabled' = (enabled \/ answer \in {"failed"} \cup Messages)
  /\ IF answer \in Messages
       THEN messages' = messages \cup {answer} /\ black' = TRUE
       ELSE UNCHANGED <<messages, black>>
  /\ IF answer = "go" THEN Continue(a)
                      ELSE modal' = FALSE /\ UNCHANGED <<inits, paytm, leaving>>
  /\ trouble' = (trouble \/ answer \in {"empty", "throws"})
  /\ UNCHANGED <<option, qrButton, kind, image, fromQR, forceStop, handle, polling, noAddress,
                 unloaded, paid, stopped, touched>>

(* Mutant of PayNowAnswered: a failed call leaves the popup up. *)
CoveredPayNowAnswered(a, answer) ==
  /\ ~unloaded /\ a \in asked
  /\ asked' = asked \ {a}
  /\ resp' = IF answer \in {"empty", "error"} THEN resp ELSE a
  /\ enabled' = (enabled \/ answer \in {"error", "failed"} \cup Messages)
  /\ IF answer \in Messages
       THEN messages' = messages \cup {answer} /\ black' = TRUE
       ELSE UNCHANGED <<messages, black>>
  /\ IF answer = "go" THEN Continue(a)
                      ELSE modal' = (modal /\ answer = "error") /\ UNCHANGED <<inits, paytm, leaving>>
  /\ trouble' = (trouble \/ answer \in {"empty", "throws"})
  /\ UNCHANGED <<option, qrButton, kind, image, fromQR, forceStop, handle, polling, noAddress,
                 unloaded, paid, stopped, touched>>

(* The callback of /payNow.  Every answer hides the modal popup, whichever *)
(* attempt it belongs to.  An empty answer returns before enablePayNow; an *)
(* exception in the callback is swallowed by log_error.                    *)
PayNowAnswered(a, answer) ==
  /\ ~unloaded /\ a \in asked
  /\ asked' = asked \ {a}
  /\ resp' = IF answer \in {"empty", "error"} THEN resp ELSE a
  /\ enabled' = (enabled \/ answer \in {"error", "failed"} \cup Messages)
  /\ IF answer \in Messages
       THEN messages' = messages \cup {answer} /\ black' = TRUE
       ELSE UNCHANGED <<messages, black>>
  /\ IF answer = "go" THEN Continue(a)
                      ELSE modal' = FALSE /\ UNCHANGED <<inits, paytm, leaving>>
  /\ trouble' = (trouble \/ answer \in {"empty", "throws"})
  /\ UNCHANGED <<option, qrButton, kind, image, fromQR, forceStop, handle, polling, noAddress,
                 unloaded, paid, stopped, touched>>

PayNowAnswers == {"go", "empty", "throws", "failed", "error"} \cup Messages

(* handlePaymentInitResponse sets the interval; its handle is global.      *)
StartTimer(a, given) ==
  /\ made < MaxAttempts
  /\ made' = made + 1
  /\ timers' = [timers EXCEPT ![made + 1] =
                  [att |-> a, live |-> TRUE, age |-> 0, given |-> given]]
  /\ handle' = made + 1

(* The answer to the call that initiates a payment: started, with or       *)
(* without durations, refused (a form for the failure page), or something  *)
(* the page cannot read, upon which it does nothing.                       *)
InitAnswered(a, answer, given) ==
  /\ ~unloaded /\ inits[a] > 0
  /\ inits' = [inits EXCEPT ![a] = @ - 1]
  /\ CASE answer = "yes" /\ fromQR ->
            /\ image' = a
            /\ UNCHANGED <<timers, made, handle, leaving, noAddress, trouble>>
       [] answer = "yes" /\ ~fromQR ->
            StartTimer(a, given) /\ UNCHANGED <<image, leaving, noAddress, trouble>>
       [] answer = "no" ->
            Post("failed", a) /\ UNCHANGED <<image, timers, made, handle, noAddress, trouble>>
       [] answer = "error" ->
            ErrorRedirect(a) /\ UNCHANGED <<image, timers, made, handle, trouble>>
       [] OTHER ->
            /\ trouble' = TRUE
            /\ UNCHANGED <<image, timers, made, handle, leaving, noAddress>>
  /\ UNCHANGED <<screen, kind, asked, paytm, fromQR, forceStop, resp, ownHandle, polls, unloaded,
                 paid, stopped, touched>>

InitAnswers == {"yes", "no", "error", "unread"}

(* The QR image has loaded: only now Pay Now is enabled and polling begins.*)
(* Nothing handles an image that does not load.                            *)
ImageLoaded(given) ==
  /\ ~unloaded /\ image # Nobody
  /\ StartTimer(image, given)
  /\ image' = Nobody
  /\ enabled' = TRUE
  /\ UNCHANGED <<option, qrButton, modal, messages, black, kind, asked, inits, paytm, fromQR,
                 forceStop, resp, ownHandle, polls, exits, history>>

ImageFails ==
  /\ ~unloaded /\ image # Nobody
  /\ image' = Nobody
  /\ trouble' = TRUE
  /\ UNCHANGED <<screen, kind, asked, inits, paytm, globals, polling, exits, paid, stopped,
                 touched>>

(* Paytm's checkout: closed by the user, completed, or never loaded.       *)
PaytmEnds(a, how) ==
  /\ ~unloaded /\ a \in paytm
  /\ paytm' = paytm \ {a}
  /\ enabled' = (enabled \/ how = "closed")
  /\ IF how = "done" THEN Post("gateway", a) ELSE UNCHANGED leaving
  /\ trouble' = (trouble \/ how = "not loaded")
  /\ UNCHANGED <<option, qrButton, modal, messages, black, kind, asked, inits, image, globals,
                 polling, noAddress, unloaded, paid, stopped, touched>>

(* In milliseconds: what a tick adds, and when polling is given up.  Both  *)
(* follow the code, which multiplies the given interval by 1000 twice.     *)
TickMs(given) == IF given THEN PollEvery * 1000 ELSE 10 * 1000
StopAfterMs(given) ==
  IF given THEN (PayBy + 2 * (PollEvery * 1000)) * 1000 ELSE 120 + 2 * 10 * 1000

(* The ticks of a timer, counted up to MaxAge. *)
Older(n) == IF n < MaxAge THEN n + 1 ELSE n

(* Mutant of Tick: an interval whose time is over goes on. *)
EndlessTick(i) ==
  LET a   == timers[i].att
      now == [timers EXCEPT ![i].age = Older(@)]
      old == Older(timers[i].age) * TickMs(timers[i].given) > StopAfterMs(timers[i].given)
  IN  /\ ~unloaded /\ timers[i].live
      /\ timers' = IF forceStop THEN Cleared(now, handle) ELSE now
      /\ IF forceStop \/ old
           THEN fromQR' = FALSE /\ UNCHANGED <<ownHandle, polls>>
           ELSE /\ ownHandle' = [ownHandle EXCEPT ![a] = handle]
                /\ polls' = [polls EXCEPT ![a] = IF @ < MaxPolls THEN @ + 1 ELSE @]
                /\ UNCHANGED fromQR
      /\ IF old /\ ~forceStop THEN ErrorRedirect(a) ELSE UNCHANGED <<leaving, noAddress>>
      /\ UNCHANGED <<screen, kind, calls, forceStop, resp, handle, made, unloaded, history>>

(* A tick of interval i.  It clears the interval the global handle names,  *)
(* and tells the poll's callback to clear that one as well.                *)
Tick(i) ==
  LET a   == timers[i].att
      now == [timers EXCEPT ![i].age = Older(@)]
      old == Older(timers[i].age) * TickMs(timers[i].given) > StopAfterMs(timers[i].given)
  IN  /\ ~unloaded /\ timers[i].live
      /\ timers' = IF forceStop \/ old THEN Cleared(now, handle) ELSE now
      /\ IF forceStop \/ old
           THEN fromQR' = FALSE /\ UNCHANGED <<ownHandle, polls>>
           ELSE /\ ownHandle' = [ownHandle EXCEPT ![a] = handle]
                /\ polls' = [polls EXCEPT ![a] = IF @ < MaxPolls THEN @ + 1 ELSE @]
                /\ UNCHANGED fromQR
      /\ IF old /\ ~forceStop THEN ErrorRedirect(a) ELSE UNCHANGED <<leaving, noAddress>>
      /\ UNCHANGED <<screen, kind, calls, forceStop, resp, handle, made, unloaded, history>>

(* Mutant of PollComplete: the interval goes on. *)
TickingPollComplete(a) ==
  /\ ~unloaded /\ polls[a] > 0 /\ a \in paid
  /\ polls' = [polls EXCEPT ![a] = @ - 1]
  /\ Post("success", a)
  /\ UNCHANGED <<screen, kind, calls, globals, timers, made, ownHandle, noAddress, unloaded, history>>

(* A poll that says the payment is complete. *)
PollComplete(a) ==
  /\ ~unloaded /\ polls[a] > 0 /\ a \in paid
  /\ polls' = [polls EXCEPT ![a] = @ - 1]
  /\ timers' = Cleared(timers, ownHandle[a])
  /\ Post("success", a)
  /\ UNCHANGED <<screen, kind, calls, globals, made, ownHandle, noAddress, unloaded, history>>

(* Mutant of PollPending: an answer is handled twice. *)
TwicePollPending(a) ==
  /\ ~unloaded
  /\ polls' = [polls EXCEPT ![a] = @ - 1]
  /\ UNCHANGED <<screen, kind, calls, globals, timers, made, ownHandle, exits, history>>

(* A poll that says pending, and one that fails: "do nothing". *)
PollPending(a) ==
  /\ ~unloaded /\ polls[a] > 0
  /\ polls' = [polls EXCEPT ![a] = @ - 1]
  /\ UNCHANGED <<screen, kind, calls, globals, timers, made, ownHandle, exits, history>>

(* The customer approves the payment in the app. *)
CustomerPays(a) ==
  /\ a \notin paid /\ \E i \in Attempts : timers[i].att = a
  /\ paid' = paid \cup {a}
  /\ UNCHANGED <<screen, kind, calls, globals, polling, exits, stopped, touched, trouble>>

(* The page the form asked for has come, or the user has closed this one.  *)
Unload ==
  /\ ~unloaded /\ leaving # Stay
  /\ unloaded' = TRUE
  /\ UNCHANGED <<screen, kind, calls, globals, polling, noAddress, leaving, history>>

Close ==
  /\ ~unloaded /\ leaving = Stay
  /\ unloaded' = TRUE
  /\ UNCHANGED <<screen, kind, calls, globals, polling, noAddress, leaving, history>>

Gone == unloaded /\ UNCHANGED vars

User ==
  \/ \E valid \in BOOLEAN : PayNow(valid)
  \/ ShowQR
  \/ \E o \in Offered : ChangeOption(o)
  \/ \E stops, shows \in BOOLEAN : ChangeAmount(stops, shows)
  \/ GoOn
  \/ \E m \in Messages : GoBack(m) \/ LeaveBy(m)
  \/ Close

Answers ==
  \/ \E a \in Attempts, answer \in PayNowAnswers : PayNowAnswered(a, answer)
  \/ \E a \in Attempts, answer \in InitAnswers, given \in BOOLEAN :
       InitAnswered(a, answer, given)
  \/ \E given \in BOOLEAN : ImageLoaded(given)
  \/ ImageFails
  \/ \E a \in Attempts, how \in {"closed", "done", "not loaded"} : PaytmEnds(a, how)
  \/ \E i \in Attempts : Tick(i)
  \/ \E a \in Attempts : PollComplete(a) \/ PollPending(a)
  \/ \E a \in Attempts : CustomerPays(a)
  \/ Unload

Next == User \/ Answers \/ Gone

Spec == Init /\ [][Next]_vars

(* Every call gets some answer or fails, the browser runs its timers, and  *)
(* the polls do not all fail or come too early once the customer has paid. *)
(* Nothing makes the user or the customer act.                             *)
Fairness ==
  /\ \A a \in Attempts :
       /\ WF_vars(\E answer \in PayNowAnswers : PayNowAnswered(a, answer))
       /\ WF_vars(\E answer \in InitAnswers, given \in BOOLEAN : InitAnswered(a, answer, given))
       /\ WF_vars(Tick(a))
       /\ SF_vars(PollComplete(a))
  /\ WF_vars((\E given \in BOOLEAN : ImageLoaded(given)) \/ ImageFails)
  /\ WF_vars(Unload)

FairSpec == Spec /\ Fairness
------------------------------------------------------------------------------
(* Properties. *)

Idle == Open = {} /\ Live = {} /\ leaving = Stay /\ ~unloaded

(* The page never comes to rest in a state the user cannot get out of,     *)
(* with the popup up or Pay Now disabled, unless one of the answers came   *)
(* that the page drops (the returns and catch blocks without enablePayNow) *)
(* or the user pressed on while an attempt was open: the answers of a QR   *)
(* attempt then bring up the popup of an app payment nobody polls for.     *)
StuckIsExplained ==
  Idle /\ (modal \/ (messages = {} /\ ~enabled)) => trouble \/ touched

(* While every press waits for the attempt before it, the globals suffice: *)
(* the answers of one attempt at a time are outstanding, one interval is   *)
(* live and it is the one the global handle names, and payNowCallFromQRCode*)
(* tells what the attempt is.                                              *)
GlobalsSuffice ==
  ~touched =>
    /\ Cardinality(Open) <= 1
    /\ Live \subseteq {handle}
    /\ \A a \in asked \cup {b \in Attempts : inits[b] > 0} : fromQR = (kind[a] = "qr")

(* A payment the customer has made is looked for until the page leaves:    *)
(* some interval or answer of it is under way, unless the user has stopped *)
(* the polling or pressed on while an attempt was open.                    *)
PaidIsWatched ==
  \A a \in paid :
    leaving = Stay /\ ~unloaded /\ ~touched /\ a \notin stopped =>
      polls[a] > 0 \/ \E i \in Live : timers[i].att = a

(* A form with an address is never replaced by one without.                *)
NeverNowhere == leaving.to = "nowhere" => touched

(* A page on its way to the success page of a payment is not diverted to   *)
(* the failure page of the same payment.                                   *)
SuccessIsTheLastWord ==
  [][leaving.to = "success" /\ leaving'.to \in {"failed", "nowhere"}
       => touched \/ leaving'.att # leaving.att]_vars

(* A payment the user has given up (by paying another way or changing the  *)
(* amount) is not polled for again, unless an attempt was open then.       *)
GivenUpIsNotPolled ==
  [][\A a \in Attempts : polls'[a] > polls[a] => a \notin stopped \/ touched]_vars

(* The popup over the page goes away in the end, or the page does, unless  *)
(* an answer was dropped, the user pressed on while an attempt was open, or*)
(* polling goes on for the durations an answer gave (which the code makes  *)
(* a thousand times too long).                                             *)
PopupGoesAway ==
  modal ~> \/ ~modal \/ leaving # Stay \/ unloaded \/ trouble \/ touched
           \/ \E i \in Live : timers[i].given

(* The page notices that the customer has paid and leaves, unless the user *)
(* gave the payment up or pressed on while an attempt was open.            *)
PaidIsNoticed ==
  \A a \in Attempts : a \in paid ~> leaving # Stay \/ unloaded \/ a \in stopped \/ touched

(* Polling ends when the time to pay is over, give or take two intervals   *)
(* (payment-commons.js:898 "stop the loop after pay by duration is passed").*)
PollingEndsAfterPayBy ==
  \A i \in Live : timers[i].given => timers[i].age * PollEvery <= PayBy + 2 * PollEvery
==============================================================================
