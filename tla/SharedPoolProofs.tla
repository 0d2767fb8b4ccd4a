--------------------------- MODULE SharedPoolProofs ---------------------------
(***************************************************************************)
(* Proofs about SharedPool: its type invariant, and what the latch of a    *)
(* payment info request guarantees about the answer, for any number of     *)
(* requests and of threads.                                                *)
(***************************************************************************)
EXTENDS SharedPool, FiniteSetTheorems, TLAPS

(* The services that run in the pool. *)
Parallel == Services \ Sequential

(* What holds of a payment info request whose state is this. *)
InfoOK(c) ==
  /\ asked[c] \subseteq Services
  /\ pc[c] = "idle" => asked[c] = {} /\ c \notin refetched
  /\ pc[c] # "idle" => Always \subseteq asked[c]
  /\ \A j \in Parallel : j \in asked[c] <=> status[<<c, j>>] # "none"
  /\ \A j \in Parallel : status[<<c, j>>] \in {"added", "over"} =>
       outcome[<<c, j>>] \in Outcomes(<<c, j>>)
  /\ \A j \in Parallel : status[<<c, j>>] = "added" => outcome[<<c, j>>] # "throws"
  /\ \A j \in Parallel :
       status[<<c, j>>] \in {"added", "over"} /\ outcome[<<c, j>>] \in {"result", "error"} =>
         j \in response[c] \/ (pc[c] \notin {"idle", "active"} /\ j \in Internal)
  /\ pc[c] \notin {"idle", "active"} => latch[c] = 0
  /\ latch[c] = Cardinality(Owing(c))
  /\ c \in refetched => "details" \notin asked[c]
  /\ response[c] \subseteq asked[c]
  /\ pc[c] = "answered" /\ (shown[c] = "unfiltered" \/ response[c] \cap Internal # {}) =>
       \/ "details" \notin asked[c] \/ outcome[<<c, "details">>] = "error"
       \/ "config2" \in asked[c]

(* What holds of a page request. *)
PageOK(c) ==
  pc[c] = "answered" => shown[c] # "unfiltered"

(* The types but the latches', which follow from what they count. *)
Typed ==
  /\ pc \in [Clients -> {"idle", "active", "timed", "answered", "failed", "hung"}]
  /\ asked \in [Clients -> SUBSET Jobs]
  /\ latch \in [Clients -> Int]
  /\ response \in [Clients -> SUBSET Jobs]
  /\ refetched \in SUBSET Infos
  /\ shown \in [Clients -> {"nothing", "unfiltered", "kept", "filtered", "error"}]
  /\ status \in [Tasks -> {"none", "queued", "running", "added", "over", "hung"}]
  /\ outcome \in [Tasks -> {"none", "result", "error", "null", "throws"}]
  /\ \A c \in Pages \cup Lists : latch[c] = 0

(* The inductive invariant. *)
IInv ==
  /\ Typed
  /\ \A c \in Infos : InfoOK(c)
  /\ \A c \in Pages : PageOK(c)

LEMMA CopiesAre == Copies = {"config2", "bins2"} /\ Internal = {"config", "bins", "config2", "bins2"}
<1>1. Again["config"] = "config2" /\ Again["bins"] = "bins2"
  BY DEF Again
<1>2. Copies = {"config2", "bins2"}
  BY <1>1 DEF Copies, Always
<1> QED
  BY <1>2 DEF Internal, Always

LEMMA ParallelIs == Parallel = {"details", "cards", "config", "bins", "config2", "bins2"}
BY CopiesAre DEF Parallel, Services, Requestable, Sequential

LEMMA TaskParts ==
  ASSUME NEW t \in Tasks
  PROVE  /\ t = <<t[1], t[2]>> /\ t[1] \in Clients /\ t[2] \in Jobs
         /\ t[1] \in Infos => t[2] \in Parallel
         /\ t[1] \in Pages => t[2] \in PageJobs
BY SharedPoolAssumption, ParallelIs
   DEF Tasks, Clients, Jobs, Parallel, PageJobs, Services, Requestable, Always, Sequential

LEMMA InfoTasks ==
  ASSUME NEW c \in Infos, NEW j \in Parallel
  PROVE  <<c, j>> \in Tasks /\ Mini(<<c, j>>)
BY DEF Tasks, Mini, Parallel

LEMMA PageTasks ==
  ASSUME NEW c \in Pages, NEW j \in PageJobs
  PROVE  <<c, j>> \in Tasks /\ ~Mini(<<c, j>>)
BY SharedPoolAssumption DEF Tasks, Mini

LEMMA OutcomesTyped ==
  ASSUME NEW t, NEW o \in Outcomes(t)
  PROVE  o \in {"result", "error", "null", "throws"}
BY DEF Outcomes

LEMMA ParallelFinite == IsFiniteSet(Parallel)
<1>1. Parallel = ((((({} \cup {"details"}) \cup {"cards"}) \cup {"config"}) \cup {"bins"})
                     \cup {"config2"}) \cup {"bins2"}
  BY ParallelIs
<1> QED
  BY <1>1, FS_EmptySet, FS_AddElement

LEMMA OwingFinite ==
  ASSUME NEW c
  PROVE  IsFiniteSet(asked[c] \cap Parallel) /\ IsFiniteSet({j \in asked[c] \cap Parallel : ~Over(c, j) \/ Threw(c, j)})
<1> QED
  BY ParallelFinite, FS_Subset

LEMMA OwingIs ==
  ASSUME NEW c \in Infos, Typed, InfoOK(c)
  PROVE  /\ Owing(c) = {j \in asked[c] \cap Parallel : ~Over(c, j) \/ Threw(c, j)}
         /\ IsFiniteSet(Owing(c))
         /\ latch[c] \in Nat
<1>1. Owing(c) = {j \in asked[c] \cap Parallel : ~Over(c, j) \/ Threw(c, j)}
  BY DEF Owing, InfoOK, Parallel
<1> QED
  BY <1>1, OwingFinite, FS_CardinalityType DEF InfoOK

(* The latch is at zero when every service is in, and none threw. *)
LEMMA AtZero ==
  ASSUME NEW c \in Infos, Typed, InfoOK(c), latch[c] = 0
  PROVE  \A j \in asked[c] \cap Parallel : Over(c, j) /\ outcome[<<c, j>>] # "throws"
<1>1. Owing(c) = {}
  BY OwingIs, FS_EmptySet DEF InfoOK
<1> QED
  BY <1>1, OwingIs DEF Threw

(* Nothing of a request changes. *)
SameInfo(c) ==
  /\ pc'[c] = pc[c] /\ asked'[c] = asked[c] /\ latch'[c] = latch[c]
  /\ response'[c] = response[c] /\ shown'[c] = shown[c]
  /\ c \in refetched' <=> c \in refetched
  /\ \A j \in Parallel : status'[<<c, j>>] = status[<<c, j>>] /\ outcome'[<<c, j>>] = outcome[<<c, j>>]

SamePage(c) == pc'[c] = pc[c] /\ shown'[c] = shown[c]

(* The set a latch counts stays the same while the services of the request *)
(* do not end, or throw as they end.                                       *)
LEMMA OwingSame ==
  ASSUME NEW c \in Infos, asked'[c] = asked[c], asked[c] \subseteq Services,
         \A j \in Parallel : (Over(c, j) /\ ~Threw(c, j)) <=> (Over(c, j) /\ ~Threw(c, j))'
  PROVE  Owing(c)' = Owing(c)
BY DEF Owing, Parallel, Over, Threw

LEMMA InfoFrame ==
  ASSUME NEW c \in Infos, InfoOK(c), SameInfo(c)
  PROVE  InfoOK(c)'
<1>1. Owing(c)' = Owing(c)
  BY OwingSame DEF SameInfo, InfoOK, Over, Threw
<1>2. "details" \in Parallel
  BY ParallelIs
<1> QED
  BY <1>1, <1>2 DEF InfoOK, SameInfo, Outcomes, Mini

LEMMA PageFrame ==
  ASSUME NEW c \in Pages, PageOK(c), SamePage(c)
  PROVE  PageOK(c)'
BY DEF PageOK, SamePage

LEMMA InitHolds == Init => IInv
<1> SUFFICES ASSUME Init PROVE IInv
  OBVIOUS
<1>1. Typed
  BY DEF Init, Typed, Clients
<1>2. ASSUME NEW c \in Infos PROVE InfoOK(c)
  <2>1. Owing(c) = {} /\ c \in Clients
    BY DEF Owing, Init, Clients
  <2>2. \A j \in Parallel : status[<<c, j>>] = "none" /\ outcome[<<c, j>>] = "none"
    BY InfoTasks DEF Init
  <2> QED
    BY <2>1, <2>2, FS_EmptySet DEF InfoOK, Init
<1>3. ASSUME NEW c \in Pages PROVE PageOK(c)
  BY DEF PageOK, Init, Clients
<1> QED
  BY <1>1, <1>2, <1>3 DEF IInv

(* An action of a client leaves the requests of the others as they are. *)
LEMMA OtherInfos ==
  ASSUME IInv, NEW d, UNCHANGED outcome,
         \A c \in Infos \ {d} :
           /\ pc'[c] = pc[c] /\ asked'[c] = asked[c] /\ latch'[c] = latch[c]
           /\ response'[c] = response[c] /\ shown'[c] = shown[c]
           /\ c \in refetched' <=> c \in refetched
           /\ \A j \in Parallel : status'[<<c, j>>] = status[<<c, j>>]
  PROVE  \A c \in Infos \ {d} : InfoOK(c)'
BY InfoFrame DEF IInv, SameInfo

LEMMA OtherPages ==
  ASSUME IInv, NEW d,
         \A c \in Pages \ {d} : pc'[c] = pc[c] /\ shown'[c] = shown[c]
  PROVE  \A c \in Pages \ {d} : PageOK(c)'
BY PageFrame DEF IInv, SamePage

(* A submission touches the tasks of its client alone. *)
LEMMA SubmitIs ==
  ASSUME Typed, NEW d \in Clients, NEW jobs, Submit(d, jobs)
  PROVE  /\ status' \in [Tasks -> {"none", "queued", "running", "added", "over", "hung"}]
         /\ \A c \in Infos \ {d} : \A j \in Parallel : status'[<<c, j>>] = status[<<c, j>>]
<1>1. \A t \in Tasks : status'[t] = IF t[1] = d /\ t[2] \in jobs THEN "queued" ELSE status[t]
  BY DEF Submit
<1>2. \A c \in Infos, j \in Parallel : <<c, j>> \in Tasks
  BY InfoTasks
<1>4. status' \in [Tasks -> {"none", "queued", "running", "added", "over", "hung"}]
  BY DEF Submit, Typed
<1>5. \A c \in Infos \ {d} : \A j \in Parallel : status'[<<c, j>>] = status[<<c, j>>]
  BY <1>1, <1>2
<1> QED
  BY <1>4, <1>5

(* A task that starts or hangs. *)
LEMMA StartStep ==
  ASSUME IInv, NEW t \in Tasks, Start(t) \/ CallHangs(t)
  PROVE  IInv'
<1> DEFINE new == IF status[t] = "queued" THEN "running" ELSE "hung"
<1>1. status[t] \in {"queued", "running"} /\ status' = [status EXCEPT ![t] = new]
  BY DEF Start, CallHangs
<1>2. UNCHANGED <<pc, asked, latch, response, refetched, shown, outcome>>
  BY DEF Start, CallHangs
<1>3. new \in {"running", "hung"}
  OBVIOUS
<1>4. \A s \in Tasks : status'[s] = IF s = t THEN new ELSE status[s]
  BY <1>1 DEF IInv, Typed
<1> HIDE DEF new
<1>5. Typed'
  BY <1>1, <1>2, <1>3 DEF IInv, Typed
<1>6. ASSUME NEW c \in Infos PROVE InfoOK(c)'
  <2>1. \A j \in Parallel : status'[<<c, j>>] = IF <<c, j>> = t THEN new ELSE status[<<c, j>>]
    BY <1>4, InfoTasks
  <2>2. Owing(c)' = Owing(c)
    <3>1. asked'[c] = asked[c] /\ asked[c] \subseteq Services
      BY <1>2 DEF IInv, InfoOK
    <3> QED
      BY <1>1, <1>2, <1>3, <2>1, <3>1, OwingSame DEF Over, Threw
  <2>3. "details" \in Parallel
    BY ParallelIs
  <2> QED
    BY <1>1, <1>2, <1>3, <2>1, <2>2, <2>3 DEF IInv, InfoOK, Outcomes, Mini
<1>7. ASSUME NEW c \in Pages PROVE PageOK(c)'
  BY <1>2, PageFrame DEF IInv, SamePage
<1> QED
  BY <1>5, <1>6, <1>7 DEF IInv

LEMMA FutureEndsStep ==
  ASSUME IInv, NEW t \in Tasks, FutureEnds(t)
  PROVE  IInv'
<1>1. PICK o \in Outcomes(t) : outcome' = [outcome EXCEPT ![t] = o]
  BY DEF FutureEnds
<1>2. Typed'
  BY <1>1, OutcomesTyped DEF IInv, Typed, FutureEnds
<1>3. \A s \in Tasks : /\ status'[s] = IF s = t THEN "over" ELSE status[s]
                       /\ outcome'[s] = IF s = t THEN o ELSE outcome[s]
  BY <1>1 DEF FutureEnds, IInv, Typed
<1>4. ASSUME NEW c \in Infos PROVE InfoOK(c)'
  <2>1. \A j \in Parallel : <<c, j>> \in Tasks /\ <<c, j>> # t
    BY InfoTasks DEF FutureEnds
  <2>2. SameInfo(c)
    BY <1>3, <2>1 DEF SameInfo, FutureEnds
  <2> QED
    BY <2>2, InfoFrame DEF IInv
<1>5. ASSUME NEW c \in Pages PROVE PageOK(c)'
  BY PageFrame DEF IInv, SamePage, FutureEnds
<1> QED
  BY <1>2, <1>4, <1>5 DEF IInv

LEMMA MiniServiceEndsStep ==
  ASSUME IInv, NEW t \in Tasks, MiniServiceEnds(t)
  PROVE  IInv'
<1> DEFINE c == t[1]
           j == t[2]
<1>1. t = <<c, j>> /\ c \in Infos /\ j \in Parallel /\ c \in Clients
  BY TaskParts DEF MiniServiceEnds, Mini
<1>2. InfoOK(c) /\ Typed
  BY <1>1 DEF IInv
<1>3. j \in asked[c] \cap Parallel /\ status[t] # "over" /\ status[t] # "none"
  BY <1>1, <1>2 DEF InfoOK, MiniServiceEnds
<1>4. j \in Owing(c)
  BY <1>1, <1>2, <1>3, OwingIs DEF Over
<1>5. /\ \A s \in Tasks \ {t} : status'[s] = status[s] /\ outcome'[s] = outcome[s]
      /\ \A d \in Clients \ {c} : latch'[d] = latch[d] /\ response'[d] = response[d]
  BY <1>1, <1>2 DEF MiniServiceEnds, AddResult, Typed
<1>6. UNCHANGED <<pc, asked, refetched, shown>>
  BY DEF MiniServiceEnds
<1>7. ASSUME NEW d \in Infos, d # c PROVE InfoOK(d)'
  <2>1. \A i \in Parallel : <<d, i>> \in Tasks \ {t}
    BY <1>1, <1>7, InfoTasks
  <2>2. SameInfo(d)
    BY <1>5, <1>6, <1>7, <2>1 DEF SameInfo, Clients
  <2> QED
    BY <2>2, InfoFrame DEF IInv
<1>8. ASSUME NEW d \in Pages PROVE PageOK(d)'
  BY <1>6, PageFrame DEF IInv, SamePage
<1>9. \A i \in Parallel : /\ <<c, i>> \in Tasks
                          /\ i # j => <<c, i>> # t
  BY <1>1, InfoTasks
<1>10. pc[c] \in {"idle", "active"}
  BY <1>1, <1>2, <1>4, AtZero, <1>3 DEF InfoOK, Over
<1>11. j \in Jobs
  BY TaskParts
<1>12. "details" \in Parallel
  BY ParallelIs
<1>13. \A i \in Parallel \ {j} :
         status'[<<c, i>>] = status[<<c, i>>] /\ outcome'[<<c, i>>] = outcome[<<c, i>>]
  BY <1>5, <1>9
<1>14. \A i \in Parallel : Outcomes(<<c, i>>)' = Outcomes(<<c, i>>)
  BY DEF Outcomes, Mini
<1>20. CASE /\ status[t] = "running"
            /\ \E o \in Outcomes(t) \ {"throws"} :
                 outcome' = [outcome EXCEPT ![t] = o] /\ AddResult(t, o)
            /\ status' = [status EXCEPT ![t] = "added"]
            /\ UNCHANGED latch
  <2>1. PICK o \in Outcomes(t) \ {"throws"} :
          outcome' = [outcome EXCEPT ![t] = o] /\ AddResult(t, o)
    BY <1>20
  <2>2. Typed'
    BY <1>1, <1>2, <1>6, <1>11, <1>20, <2>1, OutcomesTyped DEF Typed, AddResult
  <2>3. status'[t] = "added" /\ outcome'[t] = o /\ response'[c] = IF o = "null" THEN response[c] ELSE response[c] \cup {j}
    BY <1>1, <1>2, <1>20, <2>1 DEF Typed, AddResult
  <2>4. Owing(c)' = Owing(c)
    BY <1>1, <1>2, <1>3, <1>5, <1>6, <1>9, <2>3, OwingSame DEF Over, Threw, InfoOK
  <2>5. InfoOK(c)'
    <3>1. asked'[c] = asked[c] /\ pc'[c] = pc[c] /\ shown'[c] = shown[c] /\ latch'[c] = latch[c]
      BY <1>6, <1>20
    <3>2. /\ \A i \in Parallel : i \in asked[c] <=> status'[<<c, i>>] # "none"
          /\ \A i \in Parallel : status'[<<c, i>>] \in {"added", "over"} =>
               outcome'[<<c, i>>] \in Outcomes(<<c, i>>)'
          /\ \A i \in Parallel : status'[<<c, i>>] = "added" => outcome'[<<c, i>>] # "throws"
      BY <1>1, <1>2, <1>3, <1>13, <1>14, <2>1, <2>3 DEF InfoOK
    <3>3. \A i \in Parallel :
            status'[<<c, i>>] \in {"added", "over"} /\ outcome'[<<c, i>>] \in {"result", "error"} =>
              i \in response'[c] \/ (pc[c] \notin {"idle", "active"} /\ i \in Internal)
      BY <1>1, <1>2, <1>13, <2>3 DEF InfoOK
    <3>4. response'[c] \subseteq asked[c]
      BY <1>2, <1>3, <2>3 DEF InfoOK
    <3> QED
      BY <1>1, <1>2, <1>6, <1>10, <1>12, <2>4, <3>1, <3>2, <3>3, <3>4 DEF InfoOK
  <2> QED
    BY <1>7, <1>8, <2>2, <2>5 DEF IInv
<1>21. CASE /\ status[t] = "running"
            /\ outcome' = [outcome EXCEPT ![t] = "throws"]
            /\ status' = [status EXCEPT ![t] = "over"]
            /\ UNCHANGED <<latch, response>>
  <2>2. Typed'
    BY <1>2, <1>6, <1>21 DEF Typed
  <2>3. status'[t] = "over" /\ outcome'[t] = "throws"
    BY <1>2, <1>21 DEF Typed
  <2>4. Owing(c)' = Owing(c)
    BY <1>1, <1>2, <1>3, <1>5, <1>6, <1>9, <2>3, OwingSame DEF Over, Threw, InfoOK
  <2>5. InfoOK(c)'
    BY <1>1, <1>2, <1>3, <1>5, <1>6, <1>9, <1>10, <1>12, <1>21, <2>3, <2>4 DEF InfoOK, Outcomes, Mini
  <2> QED
    BY <1>7, <1>8, <2>2, <2>5 DEF IInv
<1>22. CASE /\ status[t] = "added"
            /\ latch' = [latch EXCEPT ![t[1]] = @ - 1]
            /\ status' = [status EXCEPT ![t] = "over"]
            /\ UNCHANGED <<response, outcome>>
  <2>1. latch'[c] = latch[c] - 1 /\ status'[t] = "over" /\ outcome'[t] = outcome[t] /\ outcome[t] # "throws"
    BY <1>1, <1>2, <1>22 DEF Typed, InfoOK
  <2>2. Typed'
    BY <1>1, <1>2, <1>6, <1>22, SharedPoolAssumption DEF Typed, Clients
  <2>3. Owing(c)' = Owing(c) \ {j}
    <3>1. Owing(c)' = {i \in asked[c] \cap Parallel : ~Over(c, i)' \/ Threw(c, i)'}
      BY <1>1, <1>2, <1>6 DEF Owing, InfoOK, Parallel
    <3>2. ~(~Over(c, j)' \/ Threw(c, j)')
      BY <1>1, <2>1 DEF Over, Threw
    <3>3. \A i \in Parallel \ {j} : (Over(c, i)' <=> Over(c, i)) /\ (Threw(c, i)' <=> Threw(c, i))
      BY <1>5, <1>9 DEF Over, Threw
    <3> QED
      BY <1>1, <1>2, <3>1, <3>2, <3>3, OwingIs
  <2>4. latch'[c] = Cardinality(Owing(c)')
    <3>1. latch[c] = Cardinality(Owing(c)) /\ latch[c] \in Nat /\ IsFiniteSet(Owing(c))
      BY <1>1, <1>2, OwingIs DEF InfoOK
    <3>2. Cardinality(Owing(c) \ {j}) = Cardinality(Owing(c)) - 1
      BY <1>4, <3>1, FS_RemoveElement
    <3> QED
      BY <2>1, <2>3, <3>1, <3>2
  <2>5. InfoOK(c)'
    <3>1. /\ asked'[c] = asked[c] /\ pc'[c] = pc[c] /\ shown'[c] = shown[c]
          /\ response'[c] = response[c] /\ UNCHANGED outcome
      BY <1>6, <1>22
    <3>2. /\ \A i \in Parallel : i \in asked[c] <=> status'[<<c, i>>] # "none"
          /\ \A i \in Parallel : status'[<<c, i>>] \in {"added", "over"} =>
               outcome'[<<c, i>>] \in Outcomes(<<c, i>>)'
          /\ \A i \in Parallel : status'[<<c, i>>] = "added" => outcome'[<<c, i>>] # "throws"
      BY <1>1, <1>2, <1>3, <1>13, <1>14, <1>22, <2>1 DEF InfoOK
    <3>3. \A i \in Parallel :
            status'[<<c, i>>] \in {"added", "over"} /\ outcome'[<<c, i>>] \in {"result", "error"} =>
              i \in response[c] \/ (pc[c] \notin {"idle", "active"} /\ i \in Internal)
      BY <1>1, <1>2, <1>13, <1>22, <2>1 DEF InfoOK
    <3> QED
      BY <1>1, <1>2, <1>6, <1>10, <1>12, <2>4, <3>1, <3>2, <3>3 DEF InfoOK
  <2> QED
    BY <1>7, <1>8, <2>2, <2>5 DEF IInv
<1> QED
  BY <1>20, <1>21, <1>22 DEF MiniServiceEnds

LEMMA AskInfoStep ==
  ASSUME IInv, NEW c \in Infos, NEW requested \in Requests, AskInfo(c, requested)
  PROVE  IInv'
<1> DEFINE all == ToDo(requested)
<1>1. /\ c \in Clients /\ pc[c] = "idle" /\ pc' = [pc EXCEPT ![c] = "active"]
      /\ UNCHANGED <<response, refetched, shown, outcome>>
      /\ Submit(c, all \ Sequential) /\ Typed /\ InfoOK(c)
  BY DEF AskInfo, Comes, Clients, IInv
<1>2. all \subseteq Services /\ all \subseteq Jobs
  <2>1. requested \subseteq Requestable /\ Always \subseteq Requestable
    BY SharedPoolAssumption DEF Requestable, Always
  <2>2. {Again[j] : j \in requested \cap Always} \subseteq Copies
    BY DEF Copies
  <2> QED
    BY <2>1, <2>2 DEF ToDo, Services, Jobs
<1>3. IsFiniteSet(all)
  <2>1. Services = (Parallel \cup {"options"}) \cup {"corpCards"}
    BY ParallelIs DEF Parallel, Services, Requestable, Sequential
  <2>3. IsFiniteSet(Parallel)
    BY ParallelFinite
  <2>4. IsFiniteSet(Services)
    BY <2>1, <2>3, FS_AddElement
  <2> QED
    BY <1>2, <2>4, FS_Subset
<1>4. /\ Cardinality(all) - Cardinality(all \cap Sequential) = Cardinality(all \ Sequential)
      /\ Cardinality(all \ Sequential) \in Nat
  <2>1. all \cap Sequential = all \ (all \ Sequential)
    OBVIOUS
  <2>2. all \ Sequential = (all \ {"options"}) \ {"corpCards"}
    BY DEF Sequential
  <2>3. /\ IsFiniteSet(all \ {"options"})
        /\ Cardinality(all \ {"options"}) = IF "options" \in all THEN Cardinality(all) - 1 ELSE Cardinality(all)
    BY <1>3, FS_RemoveElement
  <2>4. /\ IsFiniteSet(all \ Sequential)
        /\ Cardinality(all \ Sequential) = IF "corpCards" \in all THEN Cardinality(all \ {"options"}) - 1
                                                                 ELSE Cardinality(all \ {"options"})
    BY <2>2, <2>3, FS_RemoveElement
  <2>5. Cardinality(all \cap Sequential) = (IF "options" \in all THEN 1 ELSE 0) + (IF "corpCards" \in all THEN 1 ELSE 0)
    <3>1. all \cap Sequential = ({} \cup (IF "options" \in all THEN {"options"} ELSE {}))
                                   \cup (IF "corpCards" \in all THEN {"corpCards"} ELSE {})
      BY DEF Sequential
    <3>2. CASE "options" \in all /\ "corpCards" \in all
      <4> DEFINE S == {"options"}
      <4>1. all \cap Sequential = S \cup {"corpCards"} /\ "corpCards" \notin S
        BY <3>1, <3>2
      <4>2. IsFiniteSet(S) /\ Cardinality(S) = 1
        BY FS_Singleton
      <4> HIDE DEF S
      <4>3. Cardinality(S \cup {"corpCards"}) =
              IF "corpCards" \in S THEN Cardinality(S) ELSE Cardinality(S) + 1
        BY <4>2, FS_AddElement
      <4> QED
        BY <3>2, <4>1, <4>2, <4>3
    <3>3. CASE "options" \notin all /\ "corpCards" \notin all
      BY <3>1, <3>3, FS_EmptySet
    <3>4. CASE "options" \in all /\ "corpCards" \notin all
      <4>1. all \cap Sequential = {"options"}
        BY <3>1, <3>4
      <4> QED
        BY <3>4, <4>1, FS_Singleton
    <3>5. CASE "options" \notin all /\ "corpCards" \in all
      <4>1. all \cap Sequential = {"corpCards"}
        BY <3>1, <3>5
      <4>2. Cardinality({"corpCards"}) = 1
        BY FS_Singleton
      <4> QED
        BY <3>5, <4>1, <4>2
    <3> QED
      BY <3>2, <3>3, <3>4, <3>5
  <2>6. Cardinality(all) \in Nat /\ Cardinality(all \ Sequential) \in Nat
    BY <1>3, <2>4, FS_CardinalityType
  <2> QED
    BY <2>3, <2>4, <2>5, <2>6
<1>5. latch' = [latch EXCEPT ![c] = Cardinality(all \ Sequential)] /\ asked' = [asked EXCEPT ![c] = all]
  BY <1>4 DEF AskInfo
<1>6. Typed'
  <2>1. c \notin Pages \cup Lists
    BY SharedPoolAssumption
  <2> QED
    BY <1>1, <1>2, <1>4, <1>5, <2>1, SubmitIs DEF Typed, Clients
<1>7. \A d \in Infos \ {c} : InfoOK(d)'
  <2>1. \A d \in Infos \ {c} :
           /\ pc'[d] = pc[d] /\ asked'[d] = asked[d] /\ latch'[d] = latch[d]
           /\ response'[d] = response[d] /\ shown'[d] = shown[d]
           /\ d \in refetched' <=> d \in refetched
           /\ \A j \in Parallel : status'[<<d, j>>] = status[<<d, j>>]
    BY <1>1, <1>5, SubmitIs DEF Typed, Clients
  <2> QED
    BY <1>1, <2>1, OtherInfos
<1>8. \A d \in Pages : PageOK(d)'
  <2>1. \A d \in Pages \ {c} : pc'[d] = pc[d] /\ shown'[d] = shown[d]
    BY <1>1 DEF Typed, Clients
  <2>2. \A d \in Pages \ {c} : PageOK(d)'
    BY <1>1, <2>1, OtherPages
  <2> QED
    BY <2>2, SharedPoolAssumption
<1>9. \A j \in Parallel : status'[<<c, j>>] = IF j \in all THEN "queued" ELSE "none"
  <2>1. \A j \in Parallel : <<c, j>> \in Tasks /\ status[<<c, j>>] = "none"
    BY <1>1, InfoTasks DEF InfoOK
  <2> QED
    BY <1>1, <2>1 DEF Submit, Parallel
<1>10. InfoOK(c)'
  <2>1. asked'[c] = all /\ pc'[c] = "active" /\ latch'[c] = Cardinality(all \ Sequential)
    BY <1>1, <1>5 DEF Typed
  <2>2. Owing(c)' = all \ Sequential
    BY <1>2, <1>9, <2>1 DEF Owing, Over, Threw, Parallel
  <2>3. c \in refetched' => "details" \notin all
    BY <1>1 DEF InfoOK
  <2>4. Always \subseteq all
    BY DEF ToDo
  <2>5. response'[c] \subseteq {}
    BY <1>1 DEF InfoOK
  <2> QED
    BY <1>2, <1>9, <2>1, <2>2, <2>3, <2>4, <2>5 DEF InfoOK
<1> QED
  BY <1>6, <1>7, <1>8, <1>10 DEF IInv

LEMMA AnswerInfoStep ==
  ASSUME IInv, NEW c \in Infos, NEW enabled, NEW cardsFail, NEW filter \in Filtered,
         AnswerInfo(c, enabled, cardsFail, filter)
  PROVE  IInv'
<1>1. /\ c \in Clients /\ pc[c] = "active" /\ latch[c] = 0 /\ Typed /\ InfoOK(c)
      /\ UNCHANGED <<asked, latch, status, outcome>>
  BY DEF AnswerInfo, Clients, IInv
<1>2. \A j \in asked[c] \cap Parallel : Over(c, j) /\ outcome[<<c, j>>] # "throws"
  BY <1>1, AtZero
<1>3. /\ \A d \in Clients \ {c} : pc'[d] = pc[d] /\ shown'[d] = shown[d] /\ response'[d] = response[d]
      /\ \A d \in Infos \ {c} : d \in refetched' <=> d \in refetched
      /\ pc'[c] \in {"failed", "answered"}
      /\ response'[c] \in {response[c], response[c] \ Internal}
      /\ c \in refetched' => c \in refetched \/ "details" \notin response[c]
  BY <1>1 DEF AnswerInfo, Typed
<1>4. Typed'
  <2>1. CardsShown(c, enabled, filter) \in {"nothing", "unfiltered", "kept", "filtered", "error"}
    BY DEF CardsShown, Filtered
  <2> QED
    BY <1>1, <2>1 DEF Typed, AnswerInfo
<1>5. \A d \in Infos \ {c} : InfoOK(d)'
  BY <1>1, <1>3, OtherInfos DEF Clients
<1>6. \A d \in Pages : PageOK(d)'
  <2>1. \A d \in Pages \ {c} : PageOK(d)'
    BY <1>1, <1>3, OtherPages DEF Clients
  <2> QED
    BY <2>1, SharedPoolAssumption
<1>7. "details" \in asked[c] => "details" \in response[c]
  <2> SUFFICES ASSUME "details" \in asked[c] PROVE "details" \in response[c]
    OBVIOUS
  <2>1. "details" \in Parallel
    BY ParallelIs
  <2>2. outcome[<<c, "details">>] \in {"result", "error"}
    BY <1>1, <1>2, <2>1 DEF InfoOK, Over, Outcomes
  <2> QED
    BY <1>1, <1>2, <2>1, <2>2 DEF InfoOK, Over
<1>8. "config" \in asked[c] /\ "config" \in Parallel
  BY <1>1, ParallelIs DEF InfoOK, Always
<1>9. "config" \in response[c]
  <2>1. outcome[<<c, "config">>] \in {"result", "error"}
    BY <1>1, <1>2, <1>8 DEF InfoOK, Over, Outcomes
  <2> QED
    BY <1>1, <1>2, <1>8, <2>1 DEF InfoOK, Over
<1>10. pc'[c] = "answered" =>
         /\ shown'[c] = CardsShown(c, enabled, filter)
         /\ response'[c] = IF OverrideFails(c, enabled) THEN response[c] ELSE response[c] \ Internal
  BY <1>1 DEF AnswerInfo, Typed
<1>11. OverrideFails(c, enabled) =>
         \/ "details" \notin asked[c] \/ outcome[<<c, "details">>] = "error"
         \/ "config2" \in asked[c]
  BY <1>1, <1>7 DEF OverrideFails, Readable, InfoOK
<1>12. CardsShown(c, enabled, filter) = "unfiltered" => OverrideFails(c, enabled)
  BY <1>9 DEF CardsShown, Filtered
<1>13. pc'[c] = "answered" /\ (shown'[c] = "unfiltered" \/ response'[c] \cap Internal # {}) =>
         \/ "details" \notin asked[c] \/ outcome[<<c, "details">>] = "error"
         \/ "config2" \in asked[c]
  BY <1>10, <1>11, <1>12
<1>14. Owing(c)' = Owing(c)
  BY <1>1, OwingSame DEF InfoOK, Over, Threw
<1>15. \A j \in Parallel : Outcomes(<<c, j>>)' = Outcomes(<<c, j>>)
  BY DEF Outcomes, Mini
<1>16. c \in refetched' => "details" \notin asked[c]
  BY <1>1, <1>3, <1>7 DEF InfoOK
<1>17. \A j \in Parallel :
         status[<<c, j>>] \in {"added", "over"} /\ outcome[<<c, j>>] \in {"result", "error"} =>
           j \in response'[c] \/ j \in Internal
  BY <1>1, <1>3 DEF InfoOK
<1>18. response'[c] \subseteq asked[c]
  BY <1>1, <1>3 DEF InfoOK
<1>19. InfoOK(c)'
  BY <1>1, <1>3, <1>13, <1>14, <1>15, <1>16, <1>17, <1>18 DEF InfoOK
<1> QED
  BY <1>4, <1>5, <1>6, <1>19 DEF IInv

LEMMA PageStep ==
  ASSUME IInv, NEW c \in Pages, PageNext(c)
  PROVE  IInv'
<1>1. c \in Clients /\ c \notin Infos /\ Typed /\ PageOK(c)
  BY SharedPoolAssumption DEF Clients, IInv
<1> USE DEF PageNext, PageAnswers, AskPage, Comes, CardsOrTimeout, AnswerPage, Filtered
<1>2. UNCHANGED <<latch, response, refetched, outcome>>
  OBVIOUS
<1>3. \A d \in Clients \ {c} : pc'[d] = pc[d] /\ asked'[d] = asked[d] /\ shown'[d] = shown[d]
  BY <1>1 DEF Typed
<1>4. /\ status' \in [Tasks -> {"none", "queued", "running", "added", "over", "hung"}]
      /\ \A d \in Infos : \A j \in Parallel : status'[<<d, j>>] = status[<<d, j>>]
  <2>1. CASE Submit(c, PageJobs)
    BY <1>1, <2>1, SubmitIs
  <2>2. CASE UNCHANGED status
    BY <1>1, <2>2 DEF Typed
  <2> QED
    BY <2>1, <2>2
<1>5. Typed'
  <2>1. asked' \in [Clients -> SUBSET Jobs]
    <3>1. PageJobs \subseteq Jobs
      BY DEF PageJobs, Jobs, Services, Requestable
    <3> QED
      BY <1>1, <3>1 DEF Typed
  <2>2. pc' \in [Clients -> {"idle", "active", "timed", "answered", "failed", "hung"}]
    BY <1>1 DEF Typed
  <2>3. shown' \in [Clients -> {"nothing", "unfiltered", "kept", "filtered", "error"}]
    BY <1>1 DEF Typed
  <2> QED
    BY <1>1, <1>2, <1>4, <2>1, <2>2, <2>3 DEF Typed
<1>6. \A d \in Infos : InfoOK(d)'
  <2>1. \A d \in Infos \ {c} : InfoOK(d)'
    BY <1>1, <1>2, <1>3, <1>4, OtherInfos DEF Clients
  <2> QED
    BY <1>1, <2>1
<1>7. \A d \in Pages \ {c} : PageOK(d)'
  BY <1>3, OtherPages DEF Clients
<1>8. PageOK(c)'
  <2>1. CASE pc'[c] \in {"active", "timed"}
    BY <2>1 DEF PageOK
  <2>2. ASSUME NEW filter \in Filtered, AnswerPage(c, filter)
        PROVE  PageOK(c)'
    BY <1>1, <2>2 DEF PageOK, Typed
  <2> QED
    BY <1>1, <2>1, <2>2 DEF Typed
<1> QED
  BY <1>5, <1>6, <1>7, <1>8 DEF IInv

LEMMA ListStep ==
  ASSUME IInv, NEW c \in Lists, ListNext(c)
  PROVE  IInv'
<1>1. c \in Clients /\ c \notin Infos /\ c \notin Pages /\ Typed
  BY SharedPoolAssumption DEF Clients, IInv
<1> USE DEF ListNext, ListAnswers, AskList, Comes, ListFails, AnswerList, NextRound
<1>2. UNCHANGED <<latch, response, refetched, shown, outcome>>
  OBVIOUS
<1>3. \A d \in Clients \ {c} : pc'[d] = pc[d] /\ asked'[d] = asked[d]
  BY <1>1 DEF Typed
<1>4. /\ status' \in [Tasks -> {"none", "queued", "running", "added", "over", "hung"}]
      /\ \A d \in Infos : \A j \in Parallel : status'[<<d, j>>] = status[<<d, j>>]
  <2>1. ASSUME NEW jobs, Submit(c, jobs) PROVE <1>4!:
    BY <1>1, <2>1, SubmitIs
  <2>2. CASE UNCHANGED status
    BY <1>1, <2>2 DEF Typed
  <2> QED
    BY <2>1, <2>2
<1>5. Typed'
  <2>1. asked' \in [Clients -> SUBSET Jobs]
    <3>1. Fetches \subseteq Jobs /\ Refetches \subseteq Jobs /\ Profiles \subseteq Jobs
      BY DEF Jobs
    <3>2. ASSUME NEW jobs \in SUBSET Jobs, asked' = [asked EXCEPT ![c] = jobs]
          PROVE  asked' \in [Clients -> SUBSET Jobs]
      BY <1>1, <3>2 DEF Typed
    <3>3. CASE UNCHANGED asked
      BY <1>1, <3>3 DEF Typed
    <3>4. \A jobs \in {Refetches} \cup SUBSET Profiles : jobs \in SUBSET Jobs
      BY <3>1
    <3> QED
      BY <3>1, <3>2, <3>3, <3>4
  <2>2. pc' \in [Clients -> {"idle", "active", "timed", "answered", "failed", "hung"}]
    BY <1>1 DEF Typed
  <2> QED
    BY <1>1, <1>2, <1>4, <2>1, <2>2 DEF Typed
<1>6. \A d \in Infos : InfoOK(d)'
  <2>1. \A d \in Infos \ {c} : InfoOK(d)'
    BY <1>1, <1>2, <1>3, <1>4, OtherInfos DEF Clients
  <2> QED
    BY <1>1, <2>1
<1>7. \A d \in Pages : PageOK(d)'
  <2>1. \A d \in Pages \ {c} : PageOK(d)'
    BY <1>2, <1>3, OtherPages DEF Clients
  <2> QED
    BY <1>1, <2>1
<1> QED
  BY <1>5, <1>6, <1>7 DEF IInv

LEMMA HangStep ==
  ASSUME IInv, NEW c \in Clients, RequestHangs(c)
  PROVE  IInv'
<1>1. /\ pc[c] \in {"active", "timed"} /\ pc' = [pc EXCEPT ![c] = "hung"] /\ Typed
      /\ UNCHANGED <<asked, latch, response, refetched, shown, status, outcome>>
      /\ c \in Infos => latch[c] = 0
  BY DEF RequestHangs, IInv
<1>2. Typed'
  BY <1>1 DEF Typed
<1>3. \A d \in Clients \ {c} : pc'[d] = pc[d]
  BY <1>1 DEF Typed
<1>4. pc'[c] = "hung"
  BY <1>1 DEF Typed
<1>5. \A d \in Infos \ {c} : InfoOK(d)'
  BY <1>1, <1>3, OtherInfos DEF Clients
<1>6. ASSUME c \in Infos PROVE InfoOK(c)'
  <2>1. InfoOK(c)
    BY <1>6 DEF IInv
  <2>2. Owing(c)' = Owing(c)
    BY <1>1, <1>6, <2>1, OwingSame DEF InfoOK, Over, Threw
  <2>3. \A j \in Parallel : Outcomes(<<c, j>>)' = Outcomes(<<c, j>>)
    BY DEF Outcomes, Mini
  <2> QED
    BY <1>1, <1>4, <1>6, <2>1, <2>2, <2>3 DEF InfoOK
<1>7. \A d \in Pages \ {c} : PageOK(d)'
  BY <1>1, <1>3, OtherPages DEF Clients
<1>8. PageOK(c)'
  BY <1>4 DEF PageOK
<1> QED
  BY <1>2, <1>5, <1>6, <1>7, <1>8 DEF IInv

LEMMA StutterStep ==
  ASSUME IInv, UNCHANGED vars
  PROVE  IInv'
<1>1. Typed'
  BY DEF IInv, Typed, vars
<1>2. ASSUME NEW c \in Infos PROVE InfoOK(c)'
  BY InfoFrame DEF IInv, SameInfo, vars
<1>3. ASSUME NEW c \in Pages PROVE PageOK(c)'
  BY PageFrame DEF IInv, SamePage, vars
<1> QED
  BY <1>1, <1>2, <1>3 DEF IInv

(* The invariant is kept by every step. *)
THEOREM IInvHolds == Spec => []IInv
<1>1. IInv /\ [Next]_vars => IInv'
  <2> SUFFICES ASSUME IInv, [Next]_vars PROVE IInv'
    OBVIOUS
  <2>1. CASE PoolNext
    BY <2>1, StartStep, FutureEndsStep, MiniServiceEndsStep DEF PoolNext
  <2>2. ASSUME NEW c \in Infos, InfoNext(c) PROVE IInv'
    BY <2>2, AskInfoStep, AnswerInfoStep DEF InfoNext, InfoAnswers
  <2>3. ASSUME NEW c \in Pages, PageNext(c) PROVE IInv'
    BY <2>3, PageStep
  <2>4. ASSUME NEW c \in Lists, ListNext(c) PROVE IInv'
    BY <2>4, ListStep
  <2>5. ASSUME NEW t \in Tasks, CallHangs(t) PROVE IInv'
    BY <2>5, StartStep
  <2>6. ASSUME NEW c \in Clients, RequestHangs(c) PROVE IInv'
    BY <2>6, HangStep
  <2>7. CASE UNCHANGED vars
    BY <2>7, StutterStep
  <2> QED
    BY <2>1, <2>2, <2>3, <2>4, <2>5, <2>6, <2>7 DEF Next, Rest
<1> QED
  BY <1>1, InitHolds, PTL DEF Spec

(* Every variable keeps its type: no latch is counted down too often. *)
THEOREM TypeCorrect == Spec => []TypeOK
<1>1. IInv => TypeOK
  <2> SUFFICES ASSUME IInv PROVE TypeOK
    OBVIOUS
  <2>1. \A c \in Clients : latch[c] \in Nat
    <3>1. \A c \in Infos : latch[c] \in Nat
      BY OwingIs DEF IInv
    <3> QED
      BY <3>1 DEF IInv, Typed, Clients
  <2> QED
    BY <2>1 DEF IInv, Typed, TypeOK, Clients
<1> QED
  BY <1>1, IInvHolds, PTL

(* A request's latch counts the services that have not given their result. *)
THEOREM LatchCorrect == Spec => []LatchIsExact
<1>1. IInv => LatchIsExact
  BY DEF IInv, InfoOK, LatchIsExact
<1> QED
  BY <1>1, IInvHolds, PTL

(* A request does not fetch the booking details it asked for. *)
THEOREM FetchedOnce == Spec => []DetailsFetchedOnce
<1>1. IInv => DetailsFetchedOnce
  BY DEF IInv, Typed, InfoOK, DetailsFetchedOnce
<1> QED
  BY <1>1, IInvHolds, PTL

(* An answer holds all that its services gave. *)
THEOREM AnswersComplete == Spec => []AnswerIsComplete
<1>1. IInv => AnswerIsComplete
  <2> SUFFICES ASSUME IInv, NEW c \in Infos, NEW j \in asked[c] \cap {"details", "cards"},
                      pc[c] = "answered"
               PROVE  Over(c, j) /\ (outcome[<<c, j>>] \in {"result", "error"} => j \in response[c])
    BY DEF AnswerIsComplete
  <2>1. j \in Parallel /\ j \notin Internal
    BY ParallelIs, CopiesAre
  <2>2. InfoOK(c) /\ latch[c] = 0 /\ Typed
    BY DEF IInv, InfoOK
  <2>3. Over(c, j)
    BY <2>1, <2>2, AtZero
  <2> QED
    BY <2>1, <2>2, <2>3 DEF InfoOK, Over
<1> QED
  BY <1>1, IInvHolds, PTL

(* The filter and the removal of the configuration are passed over for the *)
(* reasons FilterIsReached names, and for no other.                        *)
THEOREM FilterReached == Spec => []FilterIsReached
<1>1. IInv => FilterIsReached
  BY DEF IInv, InfoOK, PageOK, FilterIsReached
<1> QED
  BY <1>1, IInvHolds, PTL
===============================================================================
