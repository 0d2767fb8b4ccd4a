---------------------------- MODULE BookingDetails ----------------------------
(***************************************************************************)
(* The booking details a payment works with.  LobDetailsService asks the   *)
(* LOB for them and stores every reply as a row of the table               *)
(* payswift_stages; RequestResponseEnhancer.fetchBookingDetails later takes*)
(* the last row instead of asking again, unless the payment comes from the *)
(* app.  Page loads (PaymentUIController.paymentPageResponse) always ask.  *)
(*                                                                         *)
(* One booking (superPnr).  The LOB may change it at any time, which makes *)
(* a new version of its details.  Loads and payments run in threads of     *)
(* their own and share the table and the bounded pool that writes the      *)
(* request and latency logs, which throws when it is full.                 *)
(***************************************************************************)
EXTENDS Integers, Sequences

CONSTANTS
  Loads,       \* page loads of the booking
  Payments,    \* pay-now requests for it
  MaxVersion,  \* bound on the changes the LOB makes to the booking
  PoolLimit    \* tasks the logging pool takes: its threads and its queue

ASSUME BookingDetailsAssumption ==
  /\ Loads \cap Payments = {}
  /\ MaxVersion \in Nat /\ PoolLimit \in Nat

Fetches  == Loads \cup Payments
Versions == 0..MaxVersion
Clients  == {"DESKTOP", "WAP", "APP"}

(* What the LOB sends: details in some version, a document that            *)
(* LobDetailResponse refuses (an error, missing parameters, no JSON), or   *)
(* nothing, which is also what stands for a call that failed.              *)
Replies == [kind : {"details", "refused", "blank"}, version : Versions]

Details(v) == [kind |-> "details", version |-> v]
Refused    == [kind |-> "refused", version |-> 0]
Blank      == [kind |-> "blank", version |-> 0]

VARIABLES
  lob,       \* the version of the booking at the LOB
  stages,    \* the rows FETCH_ITINERARY_RES of the booking, oldest first
  pending,   \* tasks in the logging pool
  pc,        \* where each fetch is
  reply,     \* what it got
  client,    \* the client of a payment
  began,     \* version at the LOB when a payment began (history)
  shown,     \* newest version a finished page load had shown then (history)
  trouble    \* what may have left an old row in last place (history)

details == <<pc, reply, client, began, shown>>
vars    == <<lob, stages, pending, details, trouble>>

Locations == {"idle", "ask", "store", "finish", "done", "failed"}

(* The type invariant. *)
TypeOK ==
  /\ lob \in Versions
  /\ stages \in Seq(Replies)
  /\ pending \in 0..PoolLimit
  /\ pc \in [Fetches -> Locations]
  /\ reply \in [Fetches -> Replies]
  /\ client \in [Payments -> Clients]
  /\ began \in [Payments -> Versions]
  /\ shown \in [Payments -> Versions]
  /\ trouble \in SUBSET {"insertFailed", "overlap"}

Init ==
  /\ lob = 0 /\ stages = <<>> /\ pending = 0
  /\ pc = [f \in Fetches |-> "idle"]
  /\ reply = [f \in Fetches |-> Blank]
  /\ client \in [Payments -> Clients]
  /\ began = [p \in Payments |-> 0]
  /\ shown = [p \in Payments |-> 0]
  /\ trouble = {}
------------------------------------------------------------------------------
(* The LOB changes the booking: a new price, new redeemable eCash. *)
ChangeBooking ==
  /\ lob < MaxVersion
  /\ lob' = lob + 1
  /\ UNCHANGED <<stages, pending, details, trouble>>

Goto(f, l) == pc' = [pc EXCEPT ![f] = l]

(* Mutant of HasRoom: one task too many. *)
HasRoomForOneMore == pending <= PoolLimit

(* The logging pool takes a task while a thread or a place in its queue is *)
(* free, and throws otherwise.                                             *)
HasRoom == pending < PoolLimit

Log(f, next) ==
  \/ HasRoom  /\ pending' = pending + 1 /\ Goto(f, next)
  \/ ~HasRoom /\ Goto(f, "failed") /\ UNCHANGED pending

(* A thread of the pool writes a log. *)
WriteLog ==
  /\ pending > 0
  /\ pending' = pending - 1
  /\ UNCHANGED <<lob, stages, details, trouble>>

InFlight(f) == pc[f] \in {"ask", "store"}

(* LobDetailsService.fetchItineraryDetailsFromLob up to the call: the      *)
(* request is logged.                                                      *)
AskLob(f) ==
  /\ Log(f, "ask")
  /\ trouble' = IF \E g \in Fetches \ {f} : InFlight(g) THEN trouble \cup {"overlap"} ELSE trouble
  /\ UNCHANGED reply

(* PaymentUIController.paymentPageResponse *)
StartLoad(l) ==
  /\ pc[l] = "idle"
  /\ AskLob(l)
  /\ UNCHANGED <<lob, stages, client, began, shown>>

(* The newest version shown to the customer so far is v. *)
NewestShown(v) ==
  \/ v = 0 /\ \A l \in Loads : pc[l] # "done"
  \/ /\ \E l \in Loads : pc[l] = "done" /\ reply[l].version = v
     /\ \A l \in Loads : pc[l] = "done" => reply[l].version <= v

(* Mutant of LastRow: the order of the rows is not reversed. *)
FirstRow == IF stages = <<>> THEN Blank ELSE stages[1]

(* PayswiftStagesDAOImpl.fetchParamForSuperPnrUnzipped: the row with the   *)
(* highest id; without one the details are null.                           *)
LastRow == IF stages = <<>> THEN Blank ELSE stages[Len(stages)]

(* Mutant of AlwaysAsks: the app is served from the table like others. *)
NeverAsks(p) == FALSE

(* RequestResponseEnhancer.fetchBookingDetails: who asks the LOB in any    *)
(* case.                                                                   *)
AlwaysAsks(p) == client[p] = "APP"

(* RequestResponseEnhancer.fetchBookingDetails: the stored row is used     *)
(* unless it is empty or cannot be read; a stored document that            *)
(* LobDetailResponse refuses fails the payment.                            *)
StartPayment(p) ==
  /\ pc[p] = "idle"
  /\ began' = [began EXCEPT ![p] = lob]
  /\ \E v \in Versions : NewestShown(v) /\ shown' = [shown EXCEPT ![p] = v]
  /\ \/ AskLob(p)
     \/ /\ ~AlwaysAsks(p) /\ LastRow.kind # "blank"
        /\ reply' = [reply EXCEPT ![p] = LastRow]
        /\ Goto(p, IF LastRow.kind = "details" THEN "done" ELSE "failed")
        /\ UNCHANGED <<pending, trouble>>
  /\ UNCHANGED <<lob, stages, client>>

(* The LOB answers with the details as they are now, or not usably. *)
LobAnswers(f) ==
  /\ pc[f] = "ask"
  /\ \E a \in {Details(lob), Refused, Blank} : reply' = [reply EXCEPT ![f] = a]
  /\ Goto(f, "store")
  /\ UNCHANGED <<lob, stages, pending, client, began, shown, trouble>>

(* LobDetailsService.logDataInDb: whatever came is stored, before it is    *)
(* used; a failing insert is swallowed.                                    *)
StoreRow(f) ==
  /\ pc[f] = "store"
  /\ Goto(f, "finish")
  /\ \/ stages' = Append(stages, reply[f]) /\ UNCHANGED trouble
     \/ trouble' = trouble \cup {"insertFailed"} /\ UNCHANGED stages
  /\ UNCHANGED <<lob, pending, reply, client, began, shown>>

(* The end of LobDetailsService.fetchItineraryDetailsFromLob: the latency  *)
(* is logged in the finally block, where a full pool replaces a good reply *)
(* by an exception.                                                        *)
Finish(f) ==
  /\ pc[f] = "finish"
  /\ Log(f, IF reply[f].kind = "details" THEN "done" ELSE "failed")
  /\ UNCHANGED <<lob, stages, reply, client, began, shown, trouble>>

Fetch(f) == LobAnswers(f) \/ StoreRow(f) \/ Finish(f)

(* Every page is loaded and every payment made: the system rests. *)
Rest ==
  /\ \A f \in Fetches : pc[f] \in {"done", "failed"}
  /\ UNCHANGED vars

Next ==
  \/ ChangeBooking \/ WriteLog \/ Rest
  \/ \E l \in Loads : StartLoad(l)
  \/ \E p \in Payments : StartPayment(p)
  \/ \E f \in Fetches : Fetch(f)

Spec == Init /\ [][Next]_vars
------------------------------------------------------------------------------
Fresh(p) == pc[p] = "done" => reply[p].version >= began[p]

(* A payment from the app never works with details older than the booking  *)
(* was when the payment began (the fresh hit of fetchBookingDetails).      *)
AppIsFresh == \A p \in Payments : client[p] = "APP" => Fresh(p)

(* RequestResponseEnhancer.java:615 "making fresh getBookingDetails hit    *)
(* for non Desktop cases so as to encounter cases where price may change". *)
NonDesktopIsFresh == \A p \in Payments : client[p] # "DESKTOP" => Fresh(p)

(* A payment works with details older than those a page had already shown  *)
(* for the booking only if a row could not be stored or two fetches of the *)
(* booking overlapped, so that their rows may be out of order.             *)
StaleDetailsExplained ==
  \A p \in Payments :
    pc[p] = "done" /\ reply[p].version < shown[p] => trouble # {}
==============================================================================
