# PaySwift in TLA+

PaySwift is the payment page of a travel shop. A line of business (LOB: flights,
hotels, ...) sends a customer there with a booking; the customer fills in a
payment form; PaySwift checks the form with the LOB, uses eCash, gift vouchers
and ixigo money, and either redeems them in full or hands the customer over to
the payment portal for the rest. It is a Java web application (Spring, below
`src/src/main/java/com/yatra/payment`, `P/` in what follows) that keeps almost
nothing itself: the money is at other services, and the hard part is to stay in
agreement with them when calls fail, replies are lost and requests overlap. The
other half of the program runs in the customer's browser (JavaScript below
`src/src/main/webapp/content/PaySwift/desktop/js`, `J/` in what follows), where
callbacks of overlapping calls share a handful of globals.

## Inventory

| component | state it keeps | operations | interacts with | hard behaviour | what makes it correct |
|---|---|---|---|---|---|
| pay-now pipeline (`P/ui/payswift/service`: LoggingProcessor, RequestResponseEnhancer, nine processors; PayNowController) | the request and answer beans of one form | `payNow` | every service below, by synchronous calls | each processor works before *and* after its callee; exceptions leave half an answer; answers are logged through a bounded pool | money collected at most once; answer, LOB and money agree |
| eCash wallet (WalletAuthProcessor, WalletHelper, WalletHandler, WalletService) | holds, at the wallet service | auth, getWalletInfo, reverseAuth, capture | pipeline | lost replies, a second auth, two requests with one hold | only a live hold, in the amount shown, is captured or deducted |
| gift vouchers (GiftVoucherProcessor, GiftVoucherService) | blocked vouchers, at the voucher service | validate, redeem, unblock (a thread beside the answer) | pipeline, LOB | lost redeem reply; unblocking races the answer | a refused redemption is followed by unblocking |
| ixigo money (CompleteIxigoMoneyProcessor, IxigoMoneyService) | none | redeem | pipeline, LOB | refusal does not stop the chain | nothing else collects afterwards |
| money arithmetic (PaymentUIUtil, RequestResponseEnhancementHelper) | none | floor, ceil, compare, full-redemption test, amount for the portal | pipeline | doubles at rounding boundaries | credits + portal amount cover the total, within a paisa |
| dispatch and initiation (ProcessPaymentService, PaymentProcessorImpl) | none | processPayment | portal | looks only at the decision, not at success | no initiation beside a redemption |
| app SDK services (AmazonPay, GoogleTez, PhonePe, Paytm, Cred) | none | processPayment | partners' URLs | same | same |
| booking details (LobDetailsService, stages table, fetchBookingDetails) | rows of `payswift_stages` | fetch, store, take last | LOB, page loads, pipeline, log pool | overlapping fetches, failed inserts, full pool | how old the details of a payment may be |
| shared pool: payment info of the apps (PaymentInfoController, MiniServiceImplThread), cards of the payment page (QuickBookUIService, PaymentUIController), card lists (QBManager, CorporateProfileServiceImpl) | a latch and a shared reply per request; the pool's queue | getCompletePaymentInfo, qbJson, getCards | one pool of 5 threads, card and configuration services | a latch counted down only on success and awaited for ever; results that come after the wait | answers complete, the filter passed by only in known ways; every request is answered unless a call of its own never ends |
| corporate auto booking (CorporateAutoBookingService, CorporateAutoBookingController) | the loop over payment options | autoBooking | card service, LOB, portal, log pool | the next option after a doubtful failure | at most one option is charged, in order of priority, and the response says which |
| payment page: Pay Now, QR code, polling (`J/payment-commons.js`, `J/centralui.js`) | the page's globals, timers, popups | payNow, showQRCode, callbacks, ticks, changes of tab and amount | pipeline, portal, customer's app | overlapping callbacks on shared globals; intervals whose handle is overwritten; submission before unload | the page never gets stuck, misses or diverts a payment |
| payment page: vouchers, eCash, cart (`J/centralui.js` GV, `J/ewalletui.js`, `J/payment-commons.js` ShoppingCart) | vouchers shown and to be posted, redeemed eCash, the hold's id | add/delete voucher, redeem, cancel, change option | voucher and wallet services | calls built, answered and used at different times; lost answers | the form posted is what is shown and held |
| caches (`P/cache`, `P/ui/cache`) | configuration tables | get, rebuild, invalidate | all | mutable cached objects | readers never change what others read |
| the rest (promo codes, card look-ups, currency, GDS, tokens, DAOs, JSP, other scripts) | none of their own | one remote call, look-up or pure function each | - | - | - |

The page and the pipeline meet in the form `createPayNowForm` posts: module
Redemptions is what leads to it, PayPage what sends it and what happens to the
answer, PayNow what the server does in between. `PROJECT.json` lists every
component with its sources and status, and every hazard at the line where it
bites.

## Modules

    Amounts  <-  PayNow  <-  PayNowCheckout (INSTANCE Checkout)  <-  MCPayNow
                   ^---- PayNowProofs  <-  PayNowSafety (also EXTENDS PayNowCheckout)
    BookingDetails        <-  MCBookingDetails,        BookingDetailsProofs
    SharedPool            <-  SharedPoolProofs
    CorporateAutoBooking  <-  MCCorporateAutoBooking,  CorporateAutoBookingProofs
    PayPage               <-  PayPageProofs  <-  PayPageSafety
    Redemptions           <-  MCRedemptions,           RedemptionsProofs

**Amounts** is the money arithmetic. Amounts are natural numbers of tenths of a
paisa, so that an amount may lie strictly between two paise. The code computes
in doubles; where a double may be a hair off and is then rounded, the operator
returns the set of results that can come out. Whole rupees are exact. Negative
results are what `ceilTillTwoDecimalPlaces` makes zero. (`ValidForFullRedemption`
is written as a subset of BOOLEAN with an existential because the provers take no
set comprehension over two variables.)

**PayNow** is the pipeline, one action per piece of work between two calls to
the outside, `pc[r]` the place of request `r` in the nest of processors

    save card > wallet auth > wallet handshake > ixigo money >
      no-cost EMI > gift voucher > client amount verifier

on the way in and out. Its state:

| variable | in the code |
|---|---|
| `req`, `valid`, `resp` | PayNowRequest, LobValidationResponse, PayNowResponse of the request, reduced to the fields that steer the chain |
| `holds`, `voucher` | what the wallet and voucher services know (external) |
| `settled` | the instruments through which the request's money was really taken (external truth, independent of the replies) |
| `s2s` | confirmations sent by `makeS2SCallIfEligible` |
| `unblock` | the thread of `GiftVoucherProcessor.unblockVoucher` |
| `portal` | the portal was made to initiate the payment |
| `profileCode` | the mutable code of `FailureCode.B2B_USER_PROFILE_SERVICE_EXCEPTION` |
| `faults` | history: what the request met that the code has no answer for (a lost or unusable reply, an unreadable validation response, a full log pool) |

A call has three outcomes: refused; applied and acknowledged; applied with the
reply lost or unusable. `Throw` is an exception that reaches LoggingProcessor
(the answer becomes a failure, *the decision in it stays*); `Abandon` one that
reaches PayNowController (a fresh answer). Both go wherever the code's catch
blocks send them. Validations that depend only on data (regular expressions,
BIN lists, corporate-card rules) are choices: pass, refuse or throw.
`PaymentOptions` groups options the chain treats alike ("card" is cc, dc, qb;
"upi" includes tez).

**Checkout** is the abstract specification: for every request, where the money
is, what the LOB heard, what the customer was told, and whether the checkout
lost track (`muddled`). **PayNowCheckout** gives the refinement mapping:
`money` from `settled` and `portal`, `lob` from `s2s`, `answer` from `pc` and
`resp`, `muddled` from `faults`.

**BookingDetails** is one booking: `lob` the version the LOB has, `stages` the
rows stored for it (oldest first), `pending` the tasks in the log pool, and each
page load or payment as a small process ask - store - finish. Every reply is
stored before it is used (`logIntoPayswiftStagesSerialZipped` in the finally
block, errors swallowed); the last row is what a desktop or WAP payment works
with. `began`, `shown` and `trouble` are history.

**SharedPool** is the pool `threadPoolTaskExecutor` and the request threads that
wait for its tasks. `status` and `outcome` follow each task from its submission
to its end; `pc`, `asked`, `latch`, `response`, `shown` are the request's side.
A mini service puts its result into the shared response, counts the latch down
and ends; one that throws does neither (`MiniServiceImplThread.run`, lines
27-41). The pool has five threads and an unbounded queue, so its maximum of ten
is never reached (`thread-pool.xml:13-18`); no task of it waits for another. A
service ends in the ways its callers can tell apart (`Outcomes`): a result, an
empty or error document (the details and configuration services catch what their
calls throw), null, or a Throwable; or its call never ends (`CallHangs`,
`RequestHangs`), as `CorporateProfileServiceImpl` (123-127) has no timeout and
waits without one (97). When every thread of the pool is in such a call it is
`Starved`. An app may name "config" and "bins", which the controller asks for in
any case: they are then done twice, under one key each (`Again`). The services
"options" and "corpCards" run in the request thread after the latch, on what the
response holds then; without booking details in it they fetch them themselves
(`refetched`). `overrideQBJsonIfRequired` then filters the cards by the
configuration. It gives up, and the cards stay as they are (`OverrideFails`), when
the details are missing or cannot be read (`LobDetailResponse` throws) or the
configuration is a list of two; and the filter itself may keep every card
(`"kept"`), which `filerCardsBasedOnConfig` does when it fails.

**CorporateAutoBooking** is one call of the LOB's: `list`, `i`, `errors`, `msg`
and `named` are the loop's list, its index, the keys of `paymentMethodErrors`
and the response; `quoted` is what the LOB consented to (a ttid is a place in
it) and `charges` what the portal really took, with what it said of it. An
exception anywhere outside a catch block ends in `thrown`: the LOB hears nothing
but that the call failed. This includes a LOB that cannot be reached: the
`finally` block of `serverSideValidateWithLob` (line 142) uses the bean that is
not there, so the loop's test for a null validation never holds and the next
option is not tried.

**PayPage** is `ProcessPayment` and `PaymentCommon`. Each press that reaches the
server is an attempt with its own unanswered calls (`asked`, `inits`, `polls`,
`image`, `paytm`); all callbacks read and write the same globals (`fromQR`,
`forceStop`, `resp`, `handle`). `timers` are the browser's intervals, of which
the page remembers one handle. A submitted form (`leaving`) replaces the page
only at `Unload`; the form submitted last wins. `touched` (a press or a changed
amount while an attempt was open), `trouble` (an answer the page drops), `paid`
and `stopped` are history.

**Redemptions** is what is redeemed before Pay Now. `gv` are the vouchers shown,
`nodes` those that will be posted; `checks` the balance calls that are out, each
with the vouchers it was built from. `cash` and `auth` are the eCash shown and
the hold's id in `redeemAuthJSON`; `auths` and `revs` the wallet calls that are
out and `holds` what the wallet really holds. `ecashGV` marks a booking of
vouchers bought with eCash: its eCash is redeemed as the page's fields say, with
no comparison (`redeemForEcashGV`), and the cart takes off `taken`, which need
not be what is held. The amount to pay is what is left of the booking and the
fixed fee (`Left`) and a percentage fee, computed anew on that at every update of
the cart (`PayableBy`); the redeem button may therefore choose UPI, which has no
fee, first (`OptionToRedeem`). `Form` is what `createPayNowForm` would post in a
state (`WalletPart` its `wallet_id` and `wallet_amount`). `overlapped`, `shifted`,
`shortened` (a fee that had been redeemed for went: `FeeGone`, or a change of
option) and `lost` are history. `Sums` is a recursive function, the partial sums of a list of numbers;
the worth of the vouchers shown and what the voucher service has given out
before a voucher are values of it.

## Runs

| run | instance | question |
|---|---|---|
| PayNowOne | 1 request, 2 holds, 8 payment options x 5 hold situations x voucher 0/50 x ixigo 0/50 x EMI flag x initPayment; totals 0.50, 50, 50.50, 100 | do money, LOB and answer agree, for one form, against every failure? |
| PayNowTwo | 2 requests over 2 holds; forms: full wallet payment, hold with the rest at the portal, agent payment that takes a hold | what can one request do to another, and is the abstract checkout implemented? |
| PayNowLive | 1 request, app forms with everything in them, fair | is every form answered, every refused voucher unblocked? |
| BookingDetails | 2 loads, 1 payment, versions 0..2, pool of 2 | how old may the details of a payment be? |
| BookingDetailsWap | 1 load, 1 payment | the comment at RequestResponseEnhancer:615, which the code does not keep |
| SharedPool | 1 payment-info request of 5 kinds, 1 page, 1 card list, 2 threads, 2 requests, calls that hang, fair | are answers complete, how is the filter passed by, and who is answered? |
| CorporateAutoBooking | every list of 1 to 3 options, 2 amounts | who is charged, in which order, and does the response say so? |
| PayPage | card, UPI, Paytm; 2 attempts | do the page's globals suffice; can it get stuck, lose or divert a payment? |
| PayPageLive | UPI and QR, 2 attempts, fair | does the popup go away, is a payment noticed? |
| PayPageLate | 1 UPI attempt, 20 s to pay, a poll every 10 s | the comment at payment-commons.js:898, which the code does not keep |
| Redemptions | 2 vouchers (worth 3 and 1), booking of 1 of both kinds, card fee of 1 and 50 percent (taxed by 50 percent) and UPI without, eCash 2, 2 holds | is what would be posted what is shown, held and worth? |
| VoucherOrder | the same | the comment at centralui.js:5272, which the code does not keep |

What they show:

* `CollectedAtMostOnce`: a redemption whose reply is lost leaves the decision
  "redirect to portal" in a failed answer, and the dispatcher looks only at the
  decision; what saves the customer from paying twice is that full redemptions
  belong to payment options that differ from one another, and that such a
  request is not sent on as prepared (the map for the portal and the URL are
  made after the chain). The proof makes that argument precise.
* `AnsweredPaidIsPaid`: "paid" is backed by the instrument named. The credits
  may fall short of the LOB's total by less than two paise (flooring, then a
  double that loses a paisa), or by anything when the total is under a rupee.
* `LobHearsTheTruth`, `FailedButTakenIsExplained`: the LOB hears at most one
  outcome, "paid" only of collected money; a wrong "failed" needs a lost or
  unusable reply, or, for the customer's answer, also a full log pool. These
  do occur and the code cannot undo them: they are the `faults`.
* `HandOffCollectsTheRest`, `HandOffHoldIsLive`, `CaptureWhatWasShown`: the
  portal's amount and the credits cover the total; the hold deducted is still in
  place unless another request named it; a capture takes the amount shown.
* `AppIsFresh`, `StaleDetailsExplained`: only app payments are fresh; others may
  be as old as the last stored row, older than what was shown only after a
  failed insert or overlapping fetches.
* `LatchIsExact`, `AnswerIsComplete`, `InfoIsAnswered`: the latch counts exactly
  the services whose result is missing, so an answer is complete, and a request
  of an app is answered unless one of its mini services throws something it does
  not catch or hangs; then it waits for ever. `OthersAreAnswered`: pages and card
  lists are answered whatever their tasks throw, since their waits are on futures,
  and a page also when its cards hang. All this needs one thread of the pool that
  does not hang: five hanging calls, of whatever requests, stop every other
  request that comes (`Starved`).
* `DetailsFetchedOnce`, `FilterIsReached`: asking for the details with the
  options saves the second fetch, and is needed for the filter: an app gets its
  cards unfiltered, with the internal configuration still in the answer, when it
  does not ask for the details, when they could not be had, and when it asks for
  the configuration itself. A page's cards always pass through the filter. That the
  filter is reached says nothing of what it leaves: it keeps all cards when the
  configuration is none or cannot be applied.
* `ChargedOnce`, `PriorityIsKept`, `AnswerIsTrue`: every payment but the last was
  denied by the portal that took it; no option is charged before those of higher
  priority are ruled out; a successful response names the payment made; and
  "transaction failed" is said only when each payment was denied, so that a
  response about a lost or unreadable reply can be told from a definite one. A
  good response can still be lost to a full log pool.
* `GlobalsSuffice`, `PaidIsWatched`, `NeverNowhere`, `GivenUpIsNotPolled`,
  `SuccessIsTheLastWord`: one press at a time is safe. A change of tab or amount
  while an attempt is open enables Pay Now again, and two open attempts then do
  what the hazards say: they overwrite the timer's handle, poll for ever, or post
  a form whose address was deleted. Those states are `touched`.
* `StuckIsExplained`: the page is at rest and unusable only after one of the
  early returns and catch blocks that leave the popup up (`trouble`), or
  `touched`.
* `PopupGoesAway`, `PaidIsNoticed`: with the exceptions just named, the page goes
  on by itself.
* `VouchersSentAreShown`, `CreditedByItself`, `FormAddsUp`: with one call out at a
  time the form posted is the page shown, and adds up to the booking with its fees
  unless a fee went that had been redeemed for: a voucher answered for the amount
  with the percentage fee leaves nothing to pay and so no fee, and more is redeemed
  than the total. Even then it is no more than the booking costs with some option.
  Bookings of eCash vouchers are no part of this: nothing is compared there, and
  the sum need not hold. `CashIsHeld`, `NoForgottenHold`: eCash shown
  is eCash held, except while a reversal is out, and a hold is forgotten only
  when an answer of the wallet was lost.
* Findings. `BookingDetailsWap`: the comment speaks of "non Desktop cases", the
  condition below it of the app only. `PayPageLate`: polling that should stop two
  intervals after 20 s goes on for 20 020 s, because milliseconds are taken for
  seconds. `VoucherOrder`: a voucher deleted while a balance call is out comes
  back in the list that is posted, so the two lists the comment calls consistent
  are not, and the next deletion takes the wrong one.

**Bounds.** *PayNow*: one request suffices for the properties of a single form:
requests share only holds and the failure code, which PayNowTwo varies with two
(captures happen only in full wallet payments, so PayNowTwo alone checks
`CaptureWhatWasShown`). Two hold amounts are equal and unequal to the one shown;
totals lie below a rupee, at the credits, half a rupee above (a fraction, so
inexact in doubles) and far above. Two holds allow the first hold and the one of
the second auth. *BookingDetails*: two loads can overlap and be out of order,
and `MaxVersion` 2 tells old from older; `PoolLimit` stands for 110 (10 threads,
a queue of 100) and only full or not full matters. Page loads are symmetric;
liveness runs use no symmetry. *SharedPool*: two threads let tasks of one or two
requests overlap and starve; `MaxAsked` 2 puts any two requests on the pool
together; requests interact in no other way. `MaxTasks` 5 lets the largest app
request come, and beside another request a smaller one. *CorporateAutoBooking*: three
options over two names have repetitions and every order; two amounts tell
validations apart. *PayPage*: two attempts are enough for one to disturb
another; `MaxAge` counts ticks up to the one at which polling is given up
without durations, `MaxPolls` 1 lets a poll be out while a tick comes.
*Redemptions*: two vouchers overlap, exceed the booking alone or together, and
one is worth the booking with half of the percentage fee, so that it ends that
fee; two holds and two reversals show a forgotten hold and a reversal sent twice;
`MaxNodes` keeps a voucher that was brought back from multiplying.
The bounds the models add to the code are `MaxVersion`, `MaxAsked`, `MaxTasks`,
`MaxAttempts`, `MaxAge`, `MaxPolls`, `MaxNodes`, `MaxChecks`, `MaxHolds` and
`MaxReversals`, all in guards. No run disables the deadlock check: the modules
have an action for the states in which the system rests.

**Fairness.** *PayNowLive*: weak fairness of each request's own steps and of the
unblocking thread: every request has a thread of the container to itself, and
most calls a read timeout (`PaymentUIUtil.sendRequest`, HttpUtil), so that they
return, if only with an exception. Those of `sendGetRequest` (is a twid customer
eligible, is an agent's card domestic) and of `sendSSOJsonPostRequest` (who is the
guest with a stored card) have none: that these return is assumed, and a form
whose call does not is not answered. *SharedPool*: the pool's threads and each request
thread run on; a call ends or hangs for ever as it likes, and only the page's own
timed wait for its cards is counted on; nothing makes a request come. *PayPageLive*: every call gets some answer or fails, the
browser runs its timers, an image loads or fails, a submitted form replaces the
page; strong fairness of a poll that says "paid" once the customer has paid (not
all polls fail or come too early). Nothing makes the user or the customer act.
No fairness is assumed of the pool that writes logs (a full pool throws at
once), of the LOB changing a booking, or between outcomes of a call.

## Theorems

`PayNowProofs` (assuming only `PayNowAssumption`: the constants have their types
and `NoHold` is no hold):

* `TypeCorrect`: `Spec => []TypeOK`.
* `CollectedOnce`: `Spec => []CollectedAtMostOnce`, for any set of requests. The
  property is not inductive: it says nothing of where in the chain a request is.
  The invariant is `TypeOK /\ RequestInv`, and for each request
  - `Named(r)`: during the second auth and the reversal of a failed handshake
    the request names a hold, so that `ReverseAuth` touches a hold;
  - `Collected(r)`: what `settled`, `portal`, the answer and `pc` may be
    together. A request settles only through the instrument of its own payment
    option, and nothing before the redemptions; the map for the portal is
    prepared, and the portal called, only for a request that has settled
    nothing; and a settled request still decided "redirect" has either failed on
    its way to the log or is a wallet payment whose capture is being reversed.
  `StepsAreOwn` shows that a step of one request leaves the others' part alone,
  so that each action is checked for its own request only (`BeforeRedemption`,
  `AtTheWallet`, `RedemptionSteps`, `AnswerSteps`).
* `PortalAmountCovers` (lemma): for all amounts, the amount for the portal plus
  the credits covers the total and exceeds it by at most a paisa.

`PayNowSafety` (on top of the above, same assumption) proves the pipeline's other
safety properties and the refinement from one invariant,
`TypeOK /\ RequestInv /\ SafetyInv`. None of them is inductive: each speaks of the
answer, the LOB or the capture, at the end of a chain, and rests on what the
chain did before. `SafetyInv` says for each request

- its account (`Account(r)`), of fields no other request writes: nothing has
  happened before the redemptions, and after a fault a request only reverses or
  goes to the log (`Fresh`); a success or a decision to pay or redirect was
  validated (`Validated`); a decision "complete" names an instrument that has
  settled, whose credits were enough (`Redeemed`); what the LOB was told fits the
  money, the place in the chain and the decision (`Told`); a failed answer with
  money taken has met a fault (`Taken`); unblocking, the agent's code and the
  amount for the portal fit the decision (`Handing`);
- its hold (`OnHold(r)`), the only thing requests share: a hold the request has
  verified is there for the amount shown, and held unless the request itself has
  captured, reversed or failed, or another request names it (`Shared`).

The step lemmas first say what an action does to the fields the invariant uses
(decision, success, amount, faults); then one lemma per group of actions
preserves each part, and that a step of another request can only turn `OnHold`'s
"held" into `Shared`.

* `PaidAnswerIsBacked`, `LobIsToldTheTruth`, `FailedButTaken`, `HandOffCovers`
  (with `PortalAmountCovers`), `HandOffHold`: the invariants of the runs PayNowOne
  and PayNowTwo, each a consequence of the account at `pc[r] = "done"` or of the hold.
* `CapturedAsShown`: the action property. Only `CaptureWallet` captures, and there the
  request is validated and the hold it verified is the one in `OnHold`.
* `PipelineImplementsCheckout`: `Spec => CheckoutImplemented`, the refinement.
  For each action of a request, the step is one of Checkout's or a stutter of
  that request's money, LOB and answer (`Promised(r)`): quiet steps (`QuietStep`),
  a redemption or initiation (`TakingStep`), a confirmation to the LOB, and the
  answer (`AnsweringStep`), whose guards in Checkout are the parts of `SafetyInv`.
  `PromisedNext` lifts this to the functions over all requests.

`BookingDetailsProofs` (assuming `BookingDetailsAssumption`):

* `TypeCorrect`; the pool never exceeds its limit.
* `AppPaymentIsFresh`, from `FreshInv`: a reply in use carries the version the
  LOB had when it answered, no earlier than the payment began.
* `StaleOnlyInTrouble`, from `OrderInv`: every version shown is in a row
  (`Known`), and while nothing went wrong rows are in order of version and no
  fetch in flight holds an older one (`InOrder`).

`SharedPoolProofs` (assuming `SharedPoolAssumption`: finitely many requests of
three disjoint kinds): `TypeCorrect`, `LatchCorrect`, `FetchedOnce`,
`AnswersComplete`, `FilterReached`, for any number of requests and threads. The
invariant `IInv` is a type part without the latches (that a latch never falls
below zero follows from what it counts) and, for each request by itself,
`InfoOK(c)` or `PageOK(c)`: which tasks were submitted, how each ended, and what
of it is in the response. The latch's part is `latch[c] = Cardinality(Owing(c))`;
counting it down is removing one element from a finite set. A task belongs to
one request, so a step leaves the others' part alone.

`CorporateAutoBookingProofs` (assuming `AutoBookingAssumption`: lists hold
options and are not empty): `TypeCorrect`, `ChargedAtMostOnce`,
`PrioritiesKept`, `AnswerTrue`, for lists of any length and any amounts. None of
the three properties says where in the loop the call is; `Inv` adds that before
the loop nothing has happened (`Untouched`), that in it nothing is decided,
every option before `i` is ruled out and every payment was denied (`Undecided`),
that what is sent to the portal is what the LOB validated last (`Current`), and
that payments point into the two lists (`Placed`). One lemma per action.

`PayPageProofs`, `PayPageSafety` (assuming `PayPageAssumption`), for any number of
attempts and any options:

* `TypeCorrect`: that initiations which are out never exceed the attempts is not
  inductive by itself; `TInv` adds that an interval belongs to an attempt
  (`Founded`) and that an attempt's initiations, with the one the popup "ask" may
  still start, are at most as many as the `/payNow` calls answered (`Counted`).
* `GlobalsAreEnough`, `NeverToNowhere`, `StuckExplained`, `PaidWatched`,
  `SuccessStays`, `GivenUpStays`. While `~touched`, the page is `Calm`: at most
  one attempt is open (`OneOpen`), one popup up, one interval live and known by
  the global handle (`OneTimer`), the flags fit the attempt (`FlagsFit`), nothing
  is under way for an attempt that has ended (`Ended`), a paid attempt is watched
  (`Watched`), and an idle page is usable (`AtRest`). The invariant is
  `TInv /\ (~touched => Calm) /\ PaidFounded`. Frame lemmas say what leaves
  `Ended` and `Watched` alone; one lemma per action shows that `Calm` survives
  it, and the two action properties follow from the invariant and the step.

`RedemptionsProofs` (assuming `RedemptionsAssumption`: the constants have their
types), for any vouchers, faces, fixed and percentage fees and balance and lists of
any length:

* `TypeCorrect`.
* `PostedCashIsHeld`, `HoldsAreRemembered`, from `CashInv`: the page shows eCash
  exactly when it has taken a hold of that amount (`CashShown`), one auth is out at a
  time, for a hold nothing else speaks of (`AuthOut`), and while no answer was
  lost, the wallet holds only what the page has taken (`HoldKept`). The second
  reversal of a hold is harmless because the wallet gives back only what it has.
* `PostedVouchersAreShown`, `CreditIsTheVouchersOwn`, from `VouchersInv`: unless calls
  overlapped, the two lists name the same vouchers, and until the amount left for
  vouchers changes they are the same and give either all they are worth or all
  there is to pay (`ListsAgree`); and a balance call is alone, was built from the
  list it will be applied to, and asks for the vouchers shown and what is left to
  pay (`CallAlone`). `Taken` is the heart: the answer for one more voucher is the old
  list and the new voucher, because what the service gives on a voucher depends only
  on those before it (`SpreadAppend`), and those give again what they gave
  (`SpreadFull`, `GivenAgain`).
* `FormIsTheTotal`, from `SumInv`: unless calls overlapped, what is redeemed is no
  more than the full price with some option, nor, unless a fee went, than the
  booking and the fixed fee of this one, and what is being redeemed is no more than
  is left to pay (`Fits`). A new voucher gives at most what is left to pay, with
  the fee on it; that fee grows with what is left (`PriceGrows`), so it is at most
  the fee on the whole (`PriceBounds`, `SumMore`). Deleting a voucher leaves a
  smaller sum (`WorthCut`).

The library's induction theorems take an operator as a parameter, which the
provers cannot instantiate. The sums are handled by a first-order form: `NatMinimum`
(a nonempty set of naturals has a least element, from the well-foundedness of <)
and `Induction` (a set that contains 0 and with each number the next contains all
up to n). From these come `SumsDef` (the recursive function satisfies its equation
at every place), `SumsBelow`, `SumsAgree`, `SumsGrow`
and `SumsCut`.

All invariants and action properties of the passing runs are theorems. The
invariants named above (`SafetyInv`, `CashInv`, `VouchersInv`, `SumInv` among
them) were checked by TLC on the runs' instances before they were proved.

Only model-checked: liveness (`EveryRequestAnswered`, `RefusedVoucherIsUnblocked`,
`InfoIsAnswered`, `OthersAreAnswered`, `PopupGoesAway`, `PaidIsNoticed`), which
needs ENABLED and is out of the prover's reach; and the three findings, which are
counterexamples. No module uses RECURSIVE.

## Not modelled, and why

The app SDK services (a flag-dependent variant of `InitPayment`), the page
controllers' rendering, the caches, card look-ups, saving of cards, promo and
pricing calls, GDS text exchange, tokens and the rest of the web front end: see
the notes in `PROJECT.json`. Of these the SDK services and the PaymentDiv cache
have behaviour worth modelling; the rest is one remote call, a look-up or a pure
function per request. Left out of the modelled components: expiry of holds and
vouchers at their services; a crash of the server in the middle of a request
(nothing is recovered: the request is simply gone); of the page, the session
timer, validation messages, GST (which makes the wallet and voucher calls
synchronous), TCS, vouchers bound to a card, partial payments, and the WAP page,
whose script has no QR code; message wording. Of the shared pool: requests without
the parameters their services need, which the controller's comment leaves to a
filter; services other than the two configurations named twice; the page's bins
task and its untimed waits for PIN banks and the B2B credit pool. Of the
redemptions: the trains' amounts, which are not rounded and are compared as
strings (`ewalletui.js:49`), and the `amountToRedeem` a booking of eCash vouchers
posts without a hold.

Two hazards are modelled but no property catches them. A form submitted twice
(`PayNowController:28`): nothing in the code tells the second submit from a new
payment, so the properties are about one request, and the pair in PayNowTwo is
about what requests share. Details that were stored but are refused by their
reader (`LobDetailsService:72`): the code promises nothing there, the request
fails. `PROJECT.json` lists these and the other hazards without a property, each
with its reason.

By lines, most of the repository is JavaScript, and most of that vendored
(jQuery, jQuery UI, jQuery mobile, plug-ins), in three copies each (sources,
unpacked web archive, compiled classes), beside concatenations of the page's own
scripts. The models translate the parts of
`J/payment-commons.js`, `J/centralui.js` and `J/ewalletui.js` that keep state
across calls; widgets, formatting and third-party code keep none, so the share
of lines modelled stays small and no honest model would make it large.

## Plan

1. Extend `PayNow`'s dispatch by the SDK services (flags independent of the
   payment option; two unguarded log submissions), with its proofs.
2. `PaymentDivCache`: requests that rearrange an option list that the cache
   shares, against rebuilding.
3. Theorems about the steps liveness rests on: that a request's steps take it
   forward in the chain, that a task or an attempt that has ended stays so.
