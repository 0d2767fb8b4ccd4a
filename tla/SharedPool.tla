------------------------------ MODULE SharedPool ------------------------------
(***************************************************************************)
(* The requests that share the pool threadPoolTaskExecutor: the complete   *)
(* payment info of the apps (PaymentInfoController, which waits on a latch *)
(* its MiniServiceImplThreads count down), the payment page (which waits   *)
(* for its cards with a timeout and for its configuration without), and    *)
(* the card lists of the corporate users (QBManager, which waits on pairs  *)
(* of futures).                                                            *)
(*                                                                         *)
(* The pool's queue is unbounded, so it never grows past its core threads. *)
(* The queue's order is left open: requests submit their tasks in an order *)
(* their callers choose, so a free thread may take any task that waits,    *)
(* and a task not yet submitted is one that is not taken yet.              *)
(* A call a service makes ends with one of the outcomes the code tells     *)
(* apart, or never: most clients come from libraries that show no timeout, *)
(* and CorporateProfileServiceImpl has none.  Tasks that only log are left *)
(* out, and so are requests without the parameters their services ask for, *)
(* which the controller's comment leaves to a filter.                      *)
(***************************************************************************)
EXTENDS Integers, FiniteSets

CONSTANTS
  Infos,    \* getCompletePaymentInfo requests
  Pages,    \* payment page requests of a corporate product
  Lists,    \* get-cards requests
  Requests, \* the sets of services an info request may name
  Threads,  \* corePoolSize
  MaxAsked, \* bound: requests made
  MaxTasks  \* bound: tasks submitted when a request comes, with its own first ones

Clients == Infos \cup Pages \cup Lists

(* The mini services by what they give: the booking details, the stored    *)
(* cards, the options and corporate cards, which the request computes      *)
(* itself, and two configurations.  These the controller asks for in any   *)
(* case, so that a request which names them too has them done twice.       *)
Requestable == {"details", "cards", "options", "corpCards", "config", "bins"}
Sequential  == {"options", "corpCards"}
Always      == {"config", "bins"}
Again       == [config |-> "config2", bins |-> "bins2"]
Copies      == {Again[j] : j \in Always}
Internal    == Always \cup Copies
Services    == Requestable \cup Copies

(* All that is done for a request that names these services. *)
ToDo(requested) == requested \cup Always \cup {Again[j] : j \in requested \cap Always}

ASSUME SharedPoolAssumption ==
  /\ IsFiniteSet(Infos) /\ IsFiniteSet(Pages) /\ IsFiniteSet(Lists)
  /\ Infos \cap Pages = {} /\ Infos \cap Lists = {} /\ Pages \cap Lists = {}
  /\ Requests \subseteq SUBSET Requestable
  /\ Threads \in Nat \ {0} /\ MaxAsked \in Nat /\ MaxTasks \in Nat

(* A page's stored cards and its configuration. *)
PageJobs == {"cards", "config"}

(* A list's two fetches, the same again in the BTA/CTA flow, and the users *)
(* and entities of the cards.                                              *)
Fetches   == {"corp", "personal"}
Refetches == {"corp again", "personal again"}
Profiles  == {"users", "entities"}

Jobs  == Services \cup Fetches \cup Refetches \cup Profiles
Tasks == (Infos \X (Services \ Sequential)) \cup (Pages \X PageJobs)
           \cup (Lists \X (Fetches \cup Refetches \cup Profiles))

(* A mini service's task, not a future. *)
Mini(t) == t[1] \in Infos

(* How a service ends: with a result; with an empty document or one that   *)
(* says what went wrong, where it catches what its call throws (the booking*)
(* details, the configuration); with null (cards it cannot write); or with *)
(* a Throwable it does not catch.  Nothing here depends on whether there   *)
(* are bins, so that bins that are null are a result too.                  *)
Outcomes(t) ==
  {"result", "throws"}
    \cup (IF t[2] \in {"details", "config", "config2"} THEN {"error"} ELSE {})
    \cup (IF Mini(t) /\ t[2] = "cards" THEN {"null"} ELSE {})

VARIABLES
  pc,        \* client -> where its request thread is
  asked,     \* client -> services asked for, or jobs of the present round
  latch,     \* client -> the count of its latch
  response,  \* client -> keys of its responseJSON
  refetched, \* clients whose thread fetched the booking details itself
  shown,     \* client -> the stored cards its answer shows
  status,    \* task -> how far it is
  outcome    \* task -> how its call ended

vars == <<pc, asked, latch, response, refetched, shown, status, outcome>>

(* The type invariant. *)
TypeOK ==
  /\ pc \in [Clients -> {"idle", "active", "timed", "answered", "failed", "hung"}]
  /\ asked \in [Clients -> SUBSET Jobs]
  /\ latch \in [Clients -> Nat]
  /\ response \in [Clients -> SUBSET Jobs]
  /\ refetched \in SUBSET Clients
  /\ shown \in [Clients -> {"nothing", "unfiltered", "kept", "filtered", "error"}]
  /\ status \in [Tasks -> {"none", "queued", "running", "added", "over", "hung"}]
  /\ outcome \in [Tasks -> {"none", "result", "error", "null", "throws"}]

Init ==
  /\ pc = [c \in Clients |-> "idle"]
  /\ asked = [c \in Clients |-> {}]
  /\ latch = [c \in Clients |-> 0] /\ response = [c \in Clients |-> {}]
  /\ refetched = {} /\ shown = [c \in Clients |-> "nothing"]
  /\ status = [t \in Tasks |-> "none"] /\ outcome = [t \in Tasks |-> "none"]

Working     == {t \in Tasks : status[t] \in {"running", "added", "hung"}}
Over(c, j)  == status[<<c, j>>] = "over"
Threw(c, j) == Over(c, j) /\ outcome[<<c, j>>] = "throws"
Hangs(c, j) == status[<<c, j>>] = "hung"

(* Every thread of the pool is in a call that never ends. *)
Starved == Cardinality({t \in Tasks : status[t] = "hung"}) = Threads

(* threadPoolTaskExecutor.submit, for each of the jobs. *)
Submit(c, jobs) ==
  status' = [t \in Tasks |-> IF t[1] = c /\ t[2] \in jobs THEN "queued" ELSE status[t]]

(* A request comes and submits its first jobs. *)
Comes(c, jobs) ==
  /\ pc[c] = "idle"
  /\ Cardinality({d \in Clients : pc[d] # "idle"}) < MaxAsked
  /\ Cardinality({t \in Tasks : status[t] # "none"}) + Cardinality(jobs) <= MaxTasks
  /\ pc' = [pc EXCEPT ![c] = "active"]
  /\ Submit(c, jobs)

(* A free thread takes a task. *)
Start(t) ==
  /\ status[t] = "queued" /\ Cardinality(Working) < Threads
  /\ status' = [status EXCEPT ![t] = "running"]
  /\ UNCHANGED <<pc, asked, latch, response, refetched, shown, outcome>>

(* The call a task makes never ends; the task keeps its thread. *)
CallHangs(t) ==
  /\ status[t] = "running"
  /\ status' = [status EXCEPT ![t] = "hung"]
  /\ UNCHANGED <<pc, asked, latch, response, refetched, shown, outcome>>

(* A future holds what its call returned or threw. *)
FutureEnds(t) ==
  /\ ~Mini(t) /\ status[t] = "running"
  /\ \E o \in Outcomes(t) : outcome' = [outcome EXCEPT ![t] = o]
  /\ status' = [status EXCEPT ![t] = "over"]
  /\ UNCHANGED <<pc, asked, latch, response, refetched, shown>>

(* A mini service's result goes into its response, under the response's    *)
(* lock; accumulating null leaves the key out.                             *)
AddResult(t, o) ==
  response' = [response EXCEPT ![t[1]] = IF o = "null" THEN @ ELSE @ \cup {t[2]}]

(* Mutant of MiniServiceEnds: the latch is counted down again and again. *)
RepeatedMiniServiceEnds(t) ==
  /\ Mini(t)
  /\ \/ /\ status[t] = "running"
        /\ \E o \in Outcomes(t) \ {"throws"} :
             outcome' = [outcome EXCEPT ![t] = o] /\ AddResult(t, o)
        /\ status' = [status EXCEPT ![t] = "added"]
        /\ UNCHANGED latch
     \/ /\ status[t] = "added"
        /\ latch' = [latch EXCEPT ![t[1]] = @ - 1]
        /\ UNCHANGED <<response, status, outcome>>
  /\ UNCHANGED <<pc, asked, refetched, shown>>

(* Mutant of MiniServiceEnds: the latch is counted down first. *)
CountedMiniServiceEnds(t) ==
  /\ Mini(t)
  /\ \/ /\ status[t] = "running"
        /\ \E o \in Outcomes(t) \ {"throws"} : outcome' = [outcome EXCEPT ![t] = o]
        /\ latch' = [latch EXCEPT ![t[1]] = @ - 1]
        /\ status' = [status EXCEPT ![t] = "added"]
        /\ UNCHANGED response
     \/ /\ status[t] = "added"
        /\ AddResult(t, outcome[t])
        /\ status' = [status EXCEPT ![t] = "over"]
        /\ UNCHANGED <<latch, outcome>>
  /\ UNCHANGED <<pc, asked, refetched, shown>>

(* MiniServiceImplThread.run: the service's result is added, then the latch*)
(* is counted down.  What the service throws is dropped, and the latch is  *)
(* not counted down.                                                       *)
MiniServiceEnds(t) ==
  /\ Mini(t)
  /\ \/ /\ status[t] = "running"
        /\ \E o \in Outcomes(t) \ {"throws"} :
             outcome' = [outcome EXCEPT ![t] = o] /\ AddResult(t, o)
        /\ status' = [status EXCEPT ![t] = "added"]
        /\ UNCHANGED latch
     \/ /\ status[t] = "running"
        /\ outcome' = [outcome EXCEPT ![t] = "throws"]
        /\ status' = [status EXCEPT ![t] = "over"]
        /\ UNCHANGED <<latch, response>>
     \/ /\ status[t] = "added"
        /\ latch' = [latch EXCEPT ![t[1]] = @ - 1]
        /\ status' = [status EXCEPT ![t] = "over"]
        /\ UNCHANGED <<response, outcome>>
  /\ UNCHANGED <<pc, asked, refetched, shown>>

(* Mutant of AskInfo: the latch counts the sequential services as well. *)
AllCountedAskInfo(c, requested) ==
  /\ Comes(c, ToDo(requested) \ Sequential)
  /\ asked' = [asked EXCEPT ![c] = ToDo(requested)]
  /\ latch' = [latch EXCEPT ![c] = Cardinality(ToDo(requested))]
  /\ UNCHANGED <<response, refetched, shown, outcome>>

(* Mutant of AskInfo: the latch leaves out one service too many. *)
ShortAskInfo(c, requested) ==
  /\ Comes(c, ToDo(requested) \ Sequential)
  /\ asked' = [asked EXCEPT ![c] = ToDo(requested)]
  /\ latch' = [latch EXCEPT ![c] = Cardinality(ToDo(requested)) - Cardinality(Sequential)]
  /\ UNCHANGED <<response, refetched, shown, outcome>>

(* getCompletePaymentInfo: the latch counts the services that are not      *)
(* sequential, and the same are submitted.                                 *)
AskInfo(c, requested) ==
  /\ Comes(c, ToDo(requested) \ Sequential)
  /\ asked' = [asked EXCEPT ![c] = ToDo(requested)]
  /\ latch' = [latch EXCEPT ![c] =
                 Cardinality(ToDo(requested)) - Cardinality(ToDo(requested) \cap Sequential)]
  /\ UNCHANGED <<response, refetched, shown, outcome>>

(* The booking details can be read: LobDetailResponse refuses an empty     *)
(* document and one that holds an error.                                   *)
Readable(c) == "details" \in response[c] /\ outcome[<<c, "details">>] # "error"

(* overrideQBJsonIfRequired ends in its catch, the response as it was: the *)
(* details cannot be read, or the configuration, asked for twice, is a list*)
(* of two.                                                                 *)
OverrideFails(c, enabled) ==
  ~Readable(c) \/ (enabled /\ {"cards", "config", "config2"} \subseteq response[c])

(* The stored cards in the answer.  The filter may choose to keep them all,*)
(* and does when the configuration is not a successful one.                *)
CardsShown(c, enabled, filter) ==
  CASE "cards" \notin response[c]            -> "nothing"
    [] OverrideFails(c, enabled)             -> "unfiltered"
    [] ~enabled                              -> "nothing"
    [] "config" \notin response[c]           -> "unfiltered"
    [] outcome[<<c, "config">>] = "error"    -> "kept"
    [] OTHER                                 -> filter

(* The latch is at zero.  The sequential services fetch the booking details*)
(* when the response has none; the corporate cards may fail the request,   *)
(* and do when the details it has cannot be read; a response without       *)
(* payment options fails (logSkipOtpDecision).  The internal configuration *)
(* is taken out of the answer by the override.                             *)
AnswerInfo(c, enabled, cardsFail, filter) ==
  /\ pc[c] = "active" /\ latch[c] = 0
  /\ refetched' = IF asked[c] \cap Sequential # {} /\ "details" \notin response[c]
                    THEN refetched \cup {c} ELSE refetched
  /\ IF \/ "options" \notin asked[c]
        \/ "corpCards" \in asked[c] /\ (cardsFail \/ ("details" \in response[c] /\ ~Readable(c)))
       THEN pc' = [pc EXCEPT ![c] = "failed"] /\ UNCHANGED <<shown, response>>
       ELSE /\ pc' = [pc EXCEPT ![c] = "answered"]
            /\ shown' = [shown EXCEPT ![c] = CardsShown(c, enabled, filter)]
            /\ response' = [response EXCEPT ![c] = IF OverrideFails(c, enabled) THEN @ ELSE @ \ Internal]
  /\ UNCHANGED <<asked, latch, status, outcome>>

(* The payment page submits its tasks ... *)
AskPage(c) ==
  /\ Comes(c, PageJobs)
  /\ asked' = [asked EXCEPT ![c] = PageJobs]
  /\ UNCHANGED <<latch, response, refetched, shown, outcome>>

(* Mutant of CardsOrTimeout: the wait has no timeout. *)
UntimedCardsOrTimeout(c) ==
  /\ pc[c] = "active" /\ Over(c, "cards")
  /\ pc' = [pc EXCEPT ![c] = "timed"]
  /\ shown' = [shown EXCEPT ![c] =
                 IF outcome[<<c, "cards">>] = "result" THEN "unfiltered" ELSE "error"]
  /\ UNCHANGED <<asked, latch, response, refetched, status, outcome>>

(* ... waits for its cards until the timeout, whatever comes first, ...    *)
CardsOrTimeout(c) ==
  /\ pc[c] = "active"
  /\ pc' = [pc EXCEPT ![c] = "timed"]
  /\ shown' = [shown EXCEPT ![c] =
                 IF outcome[<<c, "cards">>] = "result" THEN "unfiltered" ELSE "error"]
  /\ UNCHANGED <<asked, latch, response, refetched, status, outcome>>

(* ... then for the configuration, which cards that came are filtered by.  *)
AnswerPage(c, filter) ==
  /\ pc[c] = "timed" /\ Over(c, "config")
  /\ pc' = [pc EXCEPT ![c] = "answered"]
  /\ shown' = [shown EXCEPT ![c] =
                 CASE @ = "error" \/ Threw(c, "config")     -> "error"
                   [] outcome[<<c, "config">>] = "error"    -> "kept"
                   [] OTHER                                 -> filter]
  /\ UNCHANGED <<asked, latch, response, refetched, status, outcome>>

(* QBManager: the two fetches, ... *)
AskList(c) ==
  /\ Comes(c, Fetches)
  /\ asked' = [asked EXCEPT ![c] = Fetches]
  /\ UNCHANGED <<latch, response, refetched, shown, outcome>>

(* The round has come: a fetch that threw fails the request; when users    *)
(* threw, entities are not waited for.                                     *)
RoundCame(c) ==
  \/ \A j \in asked[c] : Over(c, j) /\ (asked[c] \subseteq Profiles \/ ~Threw(c, j))
  \/ "users" \in asked[c] /\ Threw(c, "users")

(* ... and when both have come: all is fetched again in the BTA/CTA flow,  *)
(* or the users and entities the cards name are.                           *)
NextRound(c, jobs) ==
  /\ pc[c] = "active" /\ asked[c] \in {Fetches, Refetches} /\ RoundCame(c)
  /\ jobs = Refetches => asked[c] = Fetches
  /\ asked' = [asked EXCEPT ![c] = jobs]
  /\ Submit(c, jobs)
  /\ UNCHANGED <<pc, latch, response, refetched, shown, outcome>>

(* The corporate cards are waited for first: when their fetch threw, the   *)
(* other one's result is not waited for.                                   *)
ListFails(c) ==
  /\ pc[c] = "active"
  /\ \/ \E j \in asked[c] \cap {"corp", "corp again"} : Threw(c, j)
     \/ /\ asked[c] \in {Fetches, Refetches} /\ \A j \in asked[c] : Over(c, j)
        /\ \E j \in asked[c] : Threw(c, j)
  /\ pc' = [pc EXCEPT ![c] = "failed"]
  /\ UNCHANGED <<asked, latch, response, refetched, shown, status, outcome>>

(* Users and entities have come, or are given up. *)
AnswerList(c) ==
  /\ pc[c] = "active" /\ asked[c] \subseteq Profiles /\ RoundCame(c)
  /\ pc' = [pc EXCEPT ![c] = "answered"]
  /\ UNCHANGED <<asked, latch, response, refetched, shown, status, outcome>>

(* A call the request thread makes itself, not a wait, never ends: the     *)
(* corporate cards of an info request or a page, the BTA/CTA and GDS flags *)
(* of a list.                                                              *)
RequestHangs(c) ==
  /\ pc[c] \in {"active", "timed"}
  /\ c \in Infos => latch[c] = 0
  /\ c \in Lists => RoundCame(c)
  /\ pc' = [pc EXCEPT ![c] = "hung"]
  /\ UNCHANGED <<asked, latch, response, refetched, shown, status, outcome>>

(* The pool can do no more and no request has to come. *)
Rest ==
  /\ \A t \in Tasks : status[t] \in {"none", "over", "hung"} \/ (Starved /\ status[t] = "queued")
  /\ UNCHANGED vars

PoolNext ==
  \E t \in Tasks : Start(t) \/ FutureEnds(t) \/ MiniServiceEnds(t)

(* What the filter leaves, when it has a configuration to go by. *)
Filtered == {"kept", "filtered"}

InfoAnswers(c) ==
  \E enabled, cardsFail \in BOOLEAN, filter \in Filtered : AnswerInfo(c, enabled, cardsFail, filter)

InfoNext(c) == InfoAnswers(c) \/ \E requested \in Requests : AskInfo(c, requested)

PageAnswers(c) == CardsOrTimeout(c) \/ \E filter \in Filtered : AnswerPage(c, filter)

PageNext(c) == AskPage(c) \/ PageAnswers(c)

ListAnswers(c) ==
  \/ ListFails(c) \/ AnswerList(c)
  \/ \E jobs \in {Refetches} \cup SUBSET Profiles : NextRound(c, jobs)

ListNext(c) == AskList(c) \/ ListAnswers(c)

Next ==
  \/ PoolNext
  \/ \E c \in Infos : InfoNext(c)
  \/ \E c \in Pages : PageNext(c)
  \/ \E c \in Lists : ListNext(c)
  \/ \E t \in Tasks : CallHangs(t)
  \/ \E c \in Clients : RequestHangs(c)
  \/ Rest

Spec == Init /\ [][Next]_vars

(* The pool's threads and the request threads run on.  A call ends or hangs*)
(* for ever: no timeout is assumed but that of the page's wait for its     *)
(* cards, which is in this code.  Nothing makes a request come.            *)
Fairness ==
  /\ WF_vars(PoolNext)
  /\ \A c \in Infos : WF_vars(InfoAnswers(c))
  /\ \A c \in Pages : WF_vars(PageAnswers(c))
  /\ \A c \in Lists : WF_vars(ListAnswers(c))

FairSpec == Spec /\ Fairness
------------------------------------------------------------------------------
(* Properties. *)

(* The services a request's latch still waits for. *)
Owing(c) == {j \in asked[c] \ Sequential : ~Over(c, j) \/ Threw(c, j)}

(* The latch counts exactly the services that have not put their result    *)
(* into the response: it reaches zero when all have, and never when one    *)
(* threw.                                                                  *)
LatchIsExact == \A c \in Infos : latch[c] = Cardinality(Owing(c))

(* What the services gave is in the answer, all of it: no result comes     *)
(* after the request has gone on.                                          *)
AnswerIsComplete ==
  \A c \in Infos : \A j \in asked[c] \cap {"details", "cards"} :
    pc[c] = "answered" =>
      Over(c, j) /\ (outcome[<<c, j>>] \in {"result", "error"} => j \in response[c])

(* A request that asks for the booking details does not fetch them again.  *)
DetailsFetchedOnce == \A c \in refetched : "details" \notin asked[c]

(* The filter gets at the stored cards of a page, and of an app's answer,  *)
(* and the configuration is taken out of that, unless the app did not ask  *)
(* for the booking details, they could not be had, or it asked for the     *)
(* configuration itself.                                                   *)
FilterIsReached ==
  /\ \A c \in Pages : pc[c] = "answered" => shown[c] # "unfiltered"
  /\ \A c \in Infos :
       pc[c] = "answered" /\ (shown[c] = "unfiltered" \/ response[c] \cap Internal # {}) =>
         \/ "details" \notin asked[c] \/ outcome[<<c, "details">>] = "error"
         \/ "config2" \in asked[c]

(* A mini service threw, or hangs: its request waits for ever. *)
Abandoned(c) == \E j \in asked[c] \ Sequential : Threw(c, j) \/ Hangs(c, j)

(* A future the request waits for without a timeout hangs. *)
Bereft(c) == \E j \in asked[c] \ (IF c \in Pages THEN {"cards"} ELSE {}) : Hangs(c, j)

(* The request is over, or in a call of its own that never ends. *)
Ended(c) == pc[c] \in {"answered", "failed", "hung"}

(* An app gets its payment info, or a failure, unless one of its services  *)
(* threw or hangs, or every thread of the pool hangs: it takes no more than*)
(* one thread left, whatever the other requests do.                        *)
InfoIsAnswered ==
  \A c \in Infos : pc[c] = "active" ~> Ended(c) \/ Abandoned(c) \/ Starved

(* The payment page is answered when its cards hang or throw, and the card *)
(* lists whatever their tasks throw; only a hanging configuration, a       *)
(* hanging task of the list or a pool with no thread left holds them.      *)
OthersAreAnswered ==
  \A c \in Pages \cup Lists : pc[c] = "active" ~> Ended(c) \/ Bereft(c) \/ Starved
==============================================================================
