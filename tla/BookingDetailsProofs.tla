------------------------- MODULE BookingDetailsProofs -------------------------
(***************************************************************************)
(* Proofs about BookingDetails: its type invariant, and when the details a *)
(* payment works with may be old.                                          *)
(***************************************************************************)
EXTENDS BookingDetails, SequenceTheorems, TLAPS

USE BookingDetailsAssumption DEF BookingDetailsAssumption

LEMMA RepliesTyped == \A v \in Versions : {Details(v), Refused, Blank} \subseteq Replies
BY DEF Details, Refused, Blank, Replies, Versions

LEMMA LastRowTyped == stages \in Seq(Replies) => LastRow \in Replies
<1> SUFFICES ASSUME stages \in Seq(Replies), stages # <<>>
             PROVE  stages[Len(stages)] \in Replies
  BY RepliesTyped DEF LastRow, Versions
<1>1. Len(stages) \in 1..Len(stages)
  OBVIOUS
<1> QED
  BY <1>1

LEMMA RowsTyped == stages \in Seq(Replies) => \A i \in 1..Len(stages) : stages[i] \in Replies
BY ElementOfSeq

(* Every variable keeps its type. *)
THEOREM TypeCorrect == Spec => []TypeOK
<1>1. Init => TypeOK
  BY DEF Init, TypeOK, Versions, Replies, Blank, Locations
<1>2. TypeOK /\ [Next]_vars => TypeOK'
  <2> SUFFICES ASSUME TypeOK, [Next]_vars PROVE TypeOK'
    OBVIOUS
  <2> USE DEF TypeOK, Locations
  <2>1. CASE ChangeBooking
    BY <2>1 DEF ChangeBooking, details, Versions
  <2>2. CASE WriteLog
    BY <2>2 DEF WriteLog, details
  <2>3. CASE Rest
    BY <2>3 DEF Rest, vars, details
  <2>4. ASSUME NEW l \in Loads, StartLoad(l) PROVE TypeOK'
    BY <2>4 DEF StartLoad, AskLob, Log, HasRoom, Goto, Fetches
  <2>5. ASSUME NEW p \in Payments, StartPayment(p) PROVE TypeOK'
    <3>1. /\ began' \in [Payments -> Versions] /\ shown' \in [Payments -> Versions]
          /\ UNCHANGED <<lob, stages, client>>
      BY <2>5 DEF StartPayment
    <3>2. CASE AskLob(p)
      BY <3>1, <3>2 DEF AskLob, Log, HasRoom, Goto, Fetches
    <3>3. CASE /\ reply' = [reply EXCEPT ![p] = LastRow]
               /\ Goto(p, IF LastRow.kind = "details" THEN "done" ELSE "failed")
               /\ UNCHANGED <<pending, trouble>>
      BY <3>1, <3>3, LastRowTyped DEF Goto, Fetches
    <3> QED
      BY <2>5, <3>2, <3>3 DEF StartPayment
  <2>6. ASSUME NEW f \in Fetches, LobAnswers(f) PROVE TypeOK'
    BY <2>6, RepliesTyped DEF LobAnswers, Goto
  <2>7. ASSUME NEW f \in Fetches, StoreRow(f) PROVE TypeOK'
    <3>1. stages' \in Seq(Replies)
      BY <2>7, AppendProperties DEF StoreRow
    <3> QED
      BY <2>7, <3>1 DEF StoreRow, Goto
  <2>8. ASSUME NEW f \in Fetches, Finish(f) PROVE TypeOK'
    BY <2>8 DEF Finish, Log, HasRoom, Goto
  <2>9. CASE UNCHANGED vars
    BY <2>9 DEF vars, details
  <2> QED
    BY <2>1, <2>2, <2>3, <2>4, <2>5, <2>6, <2>7, <2>8, <2>9 DEF Next, Fetch
<1> QED
  BY <1>1, <1>2, PTL DEF Spec
------------------------------------------------------------------------------
(* What makes the details of a payment fresh: a reply carries the version  *)
(* the LOB had when it answered, later than the payment began.             *)
Usable(f) == pc[f] \in {"store", "finish", "done"} /\ reply[f].kind = "details"

FreshInv ==
  /\ \A f \in Fetches : pc[f] = "done" => reply[f].kind = "details"
  /\ \A p \in Payments : began[p] <= lob
  /\ \A p \in Payments : client[p] = "APP" /\ Usable(p) => reply[p].version >= began[p]

LEMMA FreshInit == Init => FreshInv
BY DEF Init, FreshInv, Fetches, Usable, Blank

LEMMA FreshStep == TypeOK /\ FreshInv /\ [Next]_vars => FreshInv'
<1> SUFFICES ASSUME TypeOK, FreshInv, [Next]_vars PROVE FreshInv'
  OBVIOUS
<1> USE DEF TypeOK, FreshInv, Usable, Fetches, Versions
<1>1. CASE ChangeBooking
  BY <1>1 DEF ChangeBooking, details
<1>2. CASE WriteLog
  BY <1>2 DEF WriteLog, details
<1>3. CASE Rest
  BY <1>3 DEF Rest, vars, details
<1>4. ASSUME NEW l \in Loads, StartLoad(l) PROVE FreshInv'
  BY <1>4 DEF StartLoad, AskLob, Log, HasRoom, Goto
<1>5. ASSUME NEW p \in Payments, StartPayment(p) PROVE FreshInv'
  <2>1. /\ began' = [began EXCEPT ![p] = lob]
        /\ UNCHANGED <<lob, client>>
    BY <1>5 DEF StartPayment
  <2>2. CASE AskLob(p)
    BY <2>1, <2>2 DEF AskLob, Log, HasRoom, Goto
  <2>3. CASE /\ ~AlwaysAsks(p)
             /\ reply' = [reply EXCEPT ![p] = LastRow]
             /\ Goto(p, IF LastRow.kind = "details" THEN "done" ELSE "failed")
    BY <2>1, <2>3 DEF AlwaysAsks, Goto
  <2> QED
    BY <1>5, <2>2, <2>3 DEF StartPayment
<1>6. ASSUME NEW f \in Fetches, LobAnswers(f) PROVE FreshInv'
  BY <1>6 DEF LobAnswers, Goto, Details, Refused, Blank
<1>7. ASSUME NEW f \in Fetches, StoreRow(f) PROVE FreshInv'
  BY <1>7 DEF StoreRow, Goto
<1>8. ASSUME NEW f \in Fetches, Finish(f) PROVE FreshInv'
  BY <1>8 DEF Finish, Log, Goto
<1>9. CASE UNCHANGED vars
  BY <1>9 DEF vars, details
<1> QED
  BY <1>1, <1>2, <1>3, <1>4, <1>5, <1>6, <1>7, <1>8, <1>9 DEF Next, Fetch

(* A payment from the app never works with details older than the booking  *)
(* was when the payment began (RequestResponseEnhancer.fetchBookingDetails *)
(* with ClientType.APP).                                                   *)
THEOREM AppPaymentIsFresh == Spec => []AppIsFresh
<1>1. FreshInv => AppIsFresh
  BY DEF FreshInv, AppIsFresh, Fresh, Usable, Fetches
<1> QED
  BY <1>1, TypeCorrect, FreshInit, FreshStep, PTL DEF Spec
------------------------------------------------------------------------------
(* While no insert failed and no two fetches overlapped, the rows of the   *)
(* table are in the order of their versions, and what a finished page load *)
(* showed is among them.                                                   *)
RowsOf(v) == {i \in 1..Len(stages) : stages[i].kind = "details" /\ stages[i].version = v}

Known ==
  /\ \A f \in Fetches : Usable(f) => reply[f].version <= lob
  /\ \A p \in Payments : shown[p] <= lob
  /\ \A i \in 1..Len(stages) : stages[i].kind = "details" => stages[i].version <= lob

InOrder ==
  /\ \A f, g \in Fetches : InFlight(f) /\ InFlight(g) => f = g
  /\ \A i, j \in 1..Len(stages) :
       i < j /\ stages[i].kind = "details" /\ stages[j].kind = "details"
         => stages[i].version <= stages[j].version
  /\ \A f \in Fetches, i \in 1..Len(stages) :
       pc[f] = "store" /\ Usable(f) /\ stages[i].kind = "details"
         => stages[i].version <= reply[f].version
  /\ \A l \in Loads :
       pc[l] \in {"finish", "done"} /\ Usable(l) => RowsOf(reply[l].version) # {}
  /\ \A p \in Payments : Usable(p) => shown[p] <= reply[p].version

OrderInv == Known /\ (trouble = {} => InOrder)

LEMMA OrderInit == Init => OrderInv
BY DEF Init, OrderInv, Known, InOrder, Fetches, Usable, InFlight, Blank, Versions

LEMMA KnownStep == TypeOK /\ FreshInv /\ Known /\ [Next]_vars => Known'
<1> SUFFICES ASSUME TypeOK, FreshInv, Known, [Next]_vars PROVE Known'
  OBVIOUS
<1> USE DEF TypeOK, FreshInv, Known, Usable, Fetches, Versions
<1>1. CASE ChangeBooking
  <2>1. /\ lob' = lob + 1
        /\ UNCHANGED <<stages, pc, reply, shown>>
    BY <1>1 DEF ChangeBooking, details
  <2>2. \A f \in Fetches : reply[f].version \in Int
    BY DEF Replies
  <2>3. \A i \in 1..Len(stages) : stages[i].version \in Int
    BY RowsTyped DEF Replies
  <2> QED
    BY <2>1, <2>2, <2>3
<1>2. CASE WriteLog \/ Rest \/ UNCHANGED vars
  BY <1>2 DEF WriteLog, Rest, vars, details
<1>3. ASSUME NEW l \in Loads, StartLoad(l) PROVE Known'
  BY <1>3 DEF StartLoad, AskLob, Log, HasRoom, Goto
<1>4. ASSUME NEW p \in Payments, StartPayment(p) PROVE Known'
  <2>1. PICK v \in Versions : NewestShown(v) /\ shown' = [shown EXCEPT ![p] = v]
    BY <1>4 DEF StartPayment
  <2>2. v <= lob
    BY <2>1 DEF NewestShown
  <2>3. UNCHANGED <<lob, stages>>
    BY <1>4 DEF StartPayment
  <2>4. CASE AskLob(p)
    BY <2>1, <2>2, <2>3, <2>4 DEF AskLob, Log, HasRoom, Goto
  <2>5. CASE /\ LastRow.kind # "blank"
             /\ reply' = [reply EXCEPT ![p] = LastRow]
             /\ Goto(p, IF LastRow.kind = "details" THEN "done" ELSE "failed")
    <3>1. LastRow.kind = "details" => LastRow.version <= lob
      BY DEF LastRow, Blank
    <3> QED
      BY <2>1, <2>2, <2>3, <2>5, <3>1, LastRowTyped DEF Goto
  <2> QED
    BY <1>4, <2>4, <2>5 DEF StartPayment
<1>5. ASSUME NEW f \in Fetches, LobAnswers(f) PROVE Known'
  BY <1>5 DEF LobAnswers, Goto, Details, Refused, Blank
<1>6. ASSUME NEW f \in Fetches, StoreRow(f) PROVE Known'
  <2>1. CASE stages' = Append(stages, reply[f])
    <3>1. ASSUME NEW i \in 1..Len(stages'), stages'[i].kind = "details"
          PROVE  stages'[i].version <= lob
      <4>1. CASE i \in 1..Len(stages)
        BY <2>1, <3>1, <4>1, AppendProperties
      <4>2. CASE i = Len(stages) + 1
        BY <1>6, <2>1, <3>1, <4>2, AppendProperties DEF StoreRow
      <4> QED
        BY <2>1, <4>1, <4>2, AppendProperties
    <3> QED
      BY <1>6, <3>1 DEF StoreRow, Goto
  <2>2. CASE UNCHANGED stages
    BY <1>6, <2>2 DEF StoreRow, Goto
  <2> QED
    BY <1>6, <2>1, <2>2 DEF StoreRow
<1>7. ASSUME NEW f \in Fetches, Finish(f) PROVE Known'
  BY <1>7 DEF Finish, Log, Goto
<1> QED
  BY <1>1, <1>2, <1>3, <1>4, <1>5, <1>6, <1>7 DEF Next, Fetch

LEMMA OrderStep ==
  TypeOK /\ FreshInv /\ OrderInv /\ [Next]_vars => OrderInv'
<1> SUFFICES ASSUME TypeOK, FreshInv, Known, [Next]_vars,
                    trouble' = {}, trouble = {} => InOrder
             PROVE  InOrder'
  BY KnownStep DEF OrderInv
<1>1. trouble = {} /\ InOrder
  BY DEF Next, Fetch, ChangeBooking, WriteLog, Rest, StartLoad, StartPayment, AskLob,
         LobAnswers, StoreRow, Finish, vars, details
<1> USE DEF TypeOK, FreshInv, InOrder, Usable, InFlight, Fetches, Versions, RowsOf
<1>2. CASE ChangeBooking \/ WriteLog \/ Rest \/ UNCHANGED vars
  <2>1. UNCHANGED <<stages, pc, reply, shown>>
    BY <1>2 DEF ChangeBooking, WriteLog, Rest, vars, details
  <2> QED
    BY <1>1, <2>1
<1>3. ASSUME NEW f \in Fetches, AskLob(f), pc[f] = "idle", UNCHANGED stages,
             \A p \in Payments \ {f} : shown'[p] = shown[p]
      PROVE  InOrder'
  <2>1. \A g \in Fetches \ {f} : ~InFlight(g)
    BY <1>3 DEF AskLob
  <2>2. /\ pc' = [pc EXCEPT ![f] = "ask"] \/ pc' = [pc EXCEPT ![f] = "failed"]
        /\ UNCHANGED reply
    BY <1>3 DEF AskLob, Log, Goto
  <2>3. /\ \A g \in Fetches : pc'[g] \notin {"finish", "done", "store"} \/ pc'[g] = pc[g]
        /\ pc'[f] \in {"ask", "failed"}
    BY <2>2
  <2>4. \A g, h \in Fetches : InFlight(g)' /\ InFlight(h)' => g = h
    BY <2>1, <2>2
  <2>5. \A p \in Payments : Usable(p)' => shown'[p] <= reply'[p].version
    <3> SUFFICES ASSUME NEW p \in Payments, Usable(p)'
                 PROVE  shown'[p] <= reply'[p].version
      OBVIOUS
    <3>1. p # f /\ Usable(p)
      BY <2>2, <2>3
    <3> QED
      BY <1>1, <1>3, <2>2, <3>1
  <2>6. \A g \in Fetches : pc'[g] = "store" /\ Usable(g)' => pc[g] = "store" /\ Usable(g)
    BY <2>2, <2>3
  <2>7. \A l \in Loads : pc'[l] \in {"finish", "done"} /\ Usable(l)'
          => pc[l] \in {"finish", "done"} /\ Usable(l)
    BY <2>2, <2>3
  <2> QED
    BY <1>1, <1>3, <2>2, <2>4, <2>5, <2>6, <2>7
<1>4. ASSUME NEW l \in Loads, StartLoad(l) PROVE InOrder'
  BY <1>3, <1>4 DEF StartLoad
<1>5. ASSUME NEW p \in Payments, StartPayment(p) PROVE InOrder'
  <2>1. PICK v \in Versions : NewestShown(v) /\ shown' = [shown EXCEPT ![p] = v]
    BY <1>5 DEF StartPayment
  <2>2. UNCHANGED stages /\ pc[p] = "idle"
    BY <1>5 DEF StartPayment
  <2>3. CASE AskLob(p)
    BY <1>3, <2>1, <2>2, <2>3
  <2>4. CASE /\ LastRow.kind # "blank"
             /\ reply' = [reply EXCEPT ![p] = LastRow]
             /\ Goto(p, IF LastRow.kind = "details" THEN "done" ELSE "failed")
    <3>1. ASSUME LastRow.kind = "details" PROVE v <= LastRow.version
      <4>1. LastRow = stages[Len(stages)] /\ Len(stages) \in 1..Len(stages)
        BY <3>1 DEF LastRow, Blank
      <4>2. CASE v = 0
        BY <3>1, <4>2, LastRowTyped DEF Replies
      <4>3. ASSUME NEW l \in Loads, pc[l] = "done", reply[l].version = v
            PROVE  v <= LastRow.version
        <5>1. PICK i \in 1..Len(stages) : stages[i].kind = "details" /\ stages[i].version = v
          BY <1>1, <4>3
        <5> QED
          BY <1>1, <3>1, <4>1, <5>1
      <4> QED
        BY <2>1, <4>2, <4>3 DEF NewestShown
    <3>2. p \notin Loads
      OBVIOUS
    <3> QED
      BY <1>1, <2>1, <2>2, <2>4, <3>1, <3>2, LastRowTyped DEF Goto
  <2> QED
    BY <1>5, <2>3, <2>4 DEF StartPayment
<1>6. ASSUME NEW f \in Fetches, LobAnswers(f) PROVE InOrder'
  <2>1. PICK a \in {Details(lob), Refused, Blank} : reply' = [reply EXCEPT ![f] = a]
    BY <1>6 DEF LobAnswers
  <2>2. a.kind = "details" => a.version = lob
    BY DEF Details, Refused, Blank
  <2>3. /\ pc[f] = "ask" /\ pc' = [pc EXCEPT ![f] = "store"]
        /\ UNCHANGED <<stages, shown>>
    BY <1>6 DEF LobAnswers, Goto
  <2> QED
    BY <1>1, <2>1, <2>2, <2>3 DEF Known
<1>7. ASSUME NEW f \in Fetches, StoreRow(f) PROVE InOrder'
  <2>1. /\ pc[f] = "store" /\ pc' = [pc EXCEPT ![f] = "finish"]
        /\ stages' = Append(stages, reply[f])
        /\ UNCHANGED <<reply, shown>>
    BY <1>7 DEF StoreRow, Goto
  <2>2. /\ Len(stages') = Len(stages) + 1
        /\ \A i \in 1..Len(stages) : stages'[i] = stages[i]
        /\ stages'[Len(stages) + 1] = reply[f]
    BY <2>1, AppendProperties
  <2>3. \A i, j \in 1..Len(stages') :
          i < j /\ stages'[i].kind = "details" /\ stages'[j].kind = "details"
            => stages'[i].version <= stages'[j].version
    <3> SUFFICES ASSUME NEW i \in 1..Len(stages'), NEW j \in 1..Len(stages'), i < j,
                        stages'[i].kind = "details", stages'[j].kind = "details"
                 PROVE  stages'[i].version <= stages'[j].version
      OBVIOUS
    <3>1. CASE j \in 1..Len(stages)
      <4>1. i \in 1..Len(stages)
        BY <2>2, <3>1
      <4>2. stages'[i] = stages[i] /\ stages'[j] = stages[j]
        BY <2>2, <3>1, <4>1
      <4> QED
        BY <1>1, <3>1, <4>1, <4>2
    <3>2. CASE j = Len(stages) + 1
      <4>1. i \in 1..Len(stages)
        BY <2>2, <3>2
      <4>2. stages'[i] = stages[i] /\ stages'[j] = reply[f]
        BY <2>2, <3>2, <4>1
      <4> QED
        BY <1>1, <2>1, <4>1, <4>2
    <3> QED
      BY <2>2, <3>1, <3>2
  <2>4. \A g \in Fetches : pc'[g] # "store"
    BY <1>1, <2>1
  <2>5. ASSUME NEW l \in Loads, pc'[l] \in {"finish", "done"}, Usable(l)'
        PROVE  RowsOf(reply[l].version)' # {}
    <3>1. CASE l = f
      <4>1. reply'[l] = reply[f] /\ reply[f].kind = "details"
        BY <2>1, <2>5, <3>1
      <4>2. Len(stages) + 1 \in 1..Len(stages')
        BY <2>2
      <4>3. Len(stages) + 1 \in RowsOf(reply[l].version)'
        BY <2>2, <4>1, <4>2
      <4> QED
        BY <4>3
    <3>2. CASE l # f
      BY <1>1, <2>1, <2>2, <2>5, <3>2
    <3> QED
      BY <3>1, <3>2
  <2>6. \A p \in Payments : Usable(p)' => shown'[p] <= reply'[p].version
    <3>1. \A p \in Payments : Usable(p)' => Usable(p)
      BY <2>1
    <3> QED
      BY <1>1, <2>1, <3>1
  <2>7. \A g, h \in Fetches : InFlight(g)' /\ InFlight(h)' => g = h
    <3>1. \A g \in Fetches : InFlight(g)' => InFlight(g)
      BY <2>1
    <3> QED
      BY <1>1, <3>1
  <2> QED
    BY <2>3, <2>4, <2>5, <2>6, <2>7
<1>8. ASSUME NEW f \in Fetches, Finish(f) PROVE InOrder'
  <2>1. /\ pc[f] = "finish" /\ UNCHANGED <<stages, reply, shown>>
        /\ \/ pc' = [pc EXCEPT ![f] = "done"]
           \/ pc' = [pc EXCEPT ![f] = "failed"]
    BY <1>8 DEF Finish, Log, Goto
  <2>2. ASSUME NEW l \in Loads, pc'[l] \in {"finish", "done"}, Usable(l)'
        PROVE  RowsOf(reply[l].version)' # {}
    <3>1. Usable(l) /\ pc[l] \in {"finish", "done"}
      BY <2>1, <2>2
    <3> QED
      BY <1>1, <2>1, <3>1
  <2>3. \A p \in Payments : Usable(p)' => Usable(p)
    BY <2>1
  <2>4. \A g \in Fetches : pc'[g] \in {"ask", "store"} => pc'[g] = pc[g]
    BY <2>1
  <2> QED
    BY <1>1, <2>1, <2>2, <2>3, <2>4
<1> QED
  BY <1>2, <1>4, <1>5, <1>6, <1>7, <1>8 DEF Next, Fetch

(* A payment works with details older than those a page had already shown  *)
(* only if an insert into payswift_stages failed or two fetches of the     *)
(* booking overlapped.                                                     *)
THEOREM StaleOnlyInTrouble == Spec => []StaleDetailsExplained
<1>1. TypeOK /\ FreshInv /\ OrderInv => StaleDetailsExplained
  BY DEF TypeOK, FreshInv, OrderInv, InOrder, StaleDetailsExplained, Usable, Fetches,
         Versions, Replies
<1> QED
  BY <1>1, TypeCorrect, FreshInit, FreshStep, OrderInit, OrderStep, PTL DEF Spec
==============================================================================
