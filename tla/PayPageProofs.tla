---------------------------- MODULE PayPageProofs ----------------------------
(***************************************************************************)
(* Proofs about PayPage, for any number of attempts and any durations: its *)
(* type invariant, with the bounds on calls and timers it rests on.  What  *)
(* the page's globals, timers and popups are for is proved in              *)
(* PayPageSafety.                                                          *)
(***************************************************************************)
EXTENDS PayPage, FiniteSetTheorems, TLAPS

USE PayPageAssumption DEF PayPageAssumption

Started == {a \in Attempts : kind[a] # "none"}

(* The types, with what keeps the calls and the timers within bounds.      *)
Typed ==
  /\ option \in Offered /\ enabled \in BOOLEAN /\ qrButton \in BOOLEAN
  /\ modal \in BOOLEAN /\ messages \in SUBSET Messages /\ black \in BOOLEAN
  /\ kind \in [Attempts -> Kinds]
  /\ asked \in SUBSET Attempts
  /\ inits \in [Attempts -> Nat]
  /\ image \in Attempts \cup {Nobody}
  /\ paytm \in SUBSET Attempts
  /\ fromQR \in BOOLEAN /\ forceStop \in BOOLEAN
  /\ resp \in Attempts \cup {Nobody}
  /\ timers \in [Attempts -> Timer] /\ made \in 0..MaxAttempts
  /\ handle \in 0..MaxAttempts
  /\ ownHandle \in [Attempts -> 0..MaxAttempts]
  /\ polls \in [Attempts -> 0..MaxPolls]
  /\ noAddress \in SUBSET Attempts
  /\ leaving \in [to : Places \cup {"here"}, att : Attempts \cup {Nobody}]
  /\ unloaded \in BOOLEAN
  /\ paid \in SUBSET Attempts /\ stopped \in SUBSET Attempts
  /\ touched \in BOOLEAN /\ trouble \in BOOLEAN

Founded ==
  /\ \A i \in Attempts : timers[i].live => timers[i].att # Nobody
  /\ \A i \in Attempts : timers[i].att # Nobody => i <= made
  /\ "ask" \in messages => resp # Nobody
  /\ asked \subseteq Started

(* An attempt's payment is initiated at most once for every /payNow that   *)
(* was answered.                                                           *)
Counted ==
  \A a \in Attempts :
    inits[a] + (IF "ask" \in messages THEN 1 ELSE 0) <= Cardinality(Started \ asked)

TInv == Typed /\ Founded /\ Counted

LEMMA Finite ==
  /\ IsFiniteSet(Attempts) /\ Cardinality(Attempts) = MaxAttempts
  /\ IsFiniteSet(Started \ asked) /\ Cardinality(Started \ asked) \in 0..MaxAttempts
<1>1. IsFiniteSet(Attempts) /\ Cardinality(Attempts) = MaxAttempts
  BY FS_Interval DEF Attempts
<1>2. Started \ asked \in SUBSET Attempts
  BY DEF Started
<1>3. IsFiniteSet(Started \ asked) /\ Cardinality(Started \ asked) <= MaxAttempts
  BY <1>1, <1>2, FS_Subset
<1> QED
  BY <1>1, <1>3, FS_CardinalityType

LEMMA NextAttemptIs == Unstarted # {} => NextAttempt \in Unstarted
BY DEF NextAttempt

(* No timer is left behind by what the page does to the others.            *)
LEMMA ClearedTyped ==
  ASSUME timers \in [Attempts -> Timer], NEW h
  PROVE  /\ Cleared(timers, h) \in [Attempts -> Timer]
         /\ \A i \in Attempts : /\ Cleared(timers, h)[i].att = timers[i].att
                                /\ Cleared(timers, h)[i].age = timers[i].age
                                /\ Cleared(timers, h)[i].given = timers[i].given
                                /\ Cleared(timers, h)[i].live = (timers[i].live /\ i # h)
BY DEF Cleared, Timer

LEMMA StopTyped ==
  ASSUME Typed, Founded, StopPolling
  PROVE  /\ timers' \in [Attempts -> Timer] /\ qrButton' = TRUE /\ stopped' \in SUBSET Attempts
         /\ \A i \in Attempts : /\ timers'[i].att = timers[i].att
                                /\ timers'[i].live = (timers[i].live /\ i # handle)
<1>1. timers \in [Attempts -> Timer]
  BY DEF Typed
<1>2. PolledBy(handle) \subseteq Attempts
  BY <1>1 DEF Typed, Founded, PolledBy, Live, Timer
<1> QED
  BY <1>1, <1>2, ClearedTyped DEF StopPolling, Typed

LEMMA TInvInit == Init => TInv
<1> SUFFICES ASSUME Init PROVE TInv
  OBVIOUS
<1>1. Typed
  <2>1. leaving \in [to : Places \cup {"here"}, att : Attempts \cup {Nobody}]
    BY DEF Init, Stay
  <2>2. timers \in [Attempts -> Timer]
    <3>1. [att |-> Nobody, live |-> FALSE, age |-> 0, given |-> FALSE] \in Timer
      BY DEF Timer
    <3> QED
      BY <3>1 DEF Init
  <2>3. made \in 0..MaxAttempts /\ handle \in 0..MaxAttempts
    BY DEF Init
  <2>4. ownHandle \in [Attempts -> 0..MaxAttempts] /\ polls \in [Attempts -> 0..MaxPolls]
    BY DEF Init
  <2>5. kind \in [Attempts -> Kinds] /\ inits \in [Attempts -> Nat]
    BY DEF Init, Kinds
  <2> QED
    BY <2>1, <2>2, <2>3, <2>4, <2>5 DEF Init, Typed
<1>2. Founded
  BY DEF Init, Founded
<1>3. Counted
  <2>1. \A a \in Attempts : inits[a] = 0
    BY DEF Init
  <2>2. "ask" \notin messages
    BY DEF Init
  <2>3. Cardinality(Started \ asked) \in Nat
    BY Finite
  <2> QED
    BY <2>1, <2>2, <2>3 DEF Counted
<1> QED
  BY <1>1, <1>2, <1>3 DEF TInv

(* A press that submits counts nothing: its attempt is asked.              *)
LEMMA SubmitIs ==
  ASSUME Typed, Founded, NEW k \in Kinds \ {"none"}, Submit(k)
  PROVE  /\ NextAttempt \in Attempts /\ kind[NextAttempt] = "none" /\ NextAttempt \notin asked
         /\ kind' \in [Attempts -> Kinds] /\ asked' = asked \cup {NextAttempt} /\ enabled' = FALSE
         /\ kind'[NextAttempt] = k
         /\ \A b \in Attempts \ {NextAttempt} : kind'[b] = kind[b]
         /\ asked' \subseteq Started' /\ Started' \ asked' = Started \ asked
<1>1. NextAttempt \in Attempts /\ kind[NextAttempt] = "none" /\ NextAttempt \notin asked
  BY NextAttemptIs DEF Submit, Unstarted, Founded, Started
<1>2. /\ kind' = [kind EXCEPT ![NextAttempt] = k] /\ asked' = asked \cup {NextAttempt}
      /\ enabled' = FALSE
  BY DEF Submit
<1> QED
  BY <1>1, <1>2 DEF Typed, Founded, Started

LEMMA AnsweredCounts ==
  ASSUME Typed, Founded, NEW a \in asked, asked' = asked \ {a}, UNCHANGED kind
  PROVE  Cardinality(Started' \ asked') = Cardinality(Started \ asked) + 1
<1>1. Started' \ asked' = (Started \ asked) \cup {a} /\ a \notin Started \ asked
  BY DEF Founded, Started
<1> QED
  BY <1>1, Finite, FS_AddElement

LEMMA TInvPayNow ==
  ASSUME TInv, NEW valid \in BOOLEAN, PayNow(valid)
  PROVE  TInv'
<1> USE DEF PayNow, exits
<1>1. Typed /\ Founded /\ Counted
  BY DEF TInv
<1>2. /\ messages' \in SUBSET messages /\ black' \in BOOLEAN /\ touched' \in BOOLEAN
      /\ UNCHANGED <<option, inits, image, paytm, resp, handle, made, ownHandle, polls,
                     noAddress, leaving, unloaded, paid, trouble>>
  BY <1>1 DEF Touch, Typed
<1>3. /\ timers' \in [Attempts -> Timer] /\ qrButton' \in BOOLEAN /\ stopped' \in SUBSET Attempts
      /\ \A i \in Attempts : /\ timers'[i].att = timers[i].att
                             /\ timers'[i].live => timers[i].live
  <2>1. CASE StopPolling
    BY <1>1, <2>1, StopTyped
  <2>2. CASE UNCHANGED <<qrButton, timers, stopped>>
    BY <1>1, <2>2 DEF Typed
  <2> QED
    BY <2>1, <2>2
<1>4. /\ kind' \in [Attempts -> Kinds] /\ asked' \in SUBSET Attempts
      /\ asked' \subseteq Started' /\ Started' \ asked' = Started \ asked
      /\ modal' \in BOOLEAN /\ enabled' \in BOOLEAN /\ fromQR' \in BOOLEAN /\ forceStop' \in BOOLEAN
  <2>1. CASE Submit(option) /\ modal' = TRUE /\ forceStop' = (option # "upi")
    <3>1. option \in Kinds \ {"none"}
      BY <1>1 DEF Typed, Kinds
    <3> QED
      BY <1>1, <2>1, <3>1, SubmitIs DEF Typed
  <2>2. CASE /\ forceStop' = (forceStop \/ option # "upi")
             /\ enabled' = TRUE /\ UNCHANGED <<kind, asked, modal>>
    BY <1>1, <2>2 DEF Typed, Founded, Started
  <2> QED
    BY <2>1, <2>2
<1>5. Typed'
  BY <1>1, <1>2, <1>3, <1>4 DEF Typed
<1>6. Founded'
  BY <1>1, <1>2, <1>3, <1>4 DEF Founded
<1>7. Counted'
  BY <1>1, <1>2, <1>4, Finite DEF Counted, Typed
<1> QED
  BY <1>5, <1>6, <1>7 DEF TInv

LEMMA TInvShowQR ==
  ASSUME TInv, ShowQR
  PROVE  TInv'
<1> USE DEF ShowQR, polling, exits, Touch
<1>1. Typed /\ Founded /\ Counted
  BY DEF TInv
<1>2. "qr" \in Kinds \ {"none"}
  BY DEF Kinds
<1>3. /\ kind' \in [Attempts -> Kinds] /\ asked' \in SUBSET Attempts /\ enabled' = FALSE
      /\ asked' \subseteq Started' /\ Started' \ asked' = Started \ asked
  BY <1>1, <1>2, SubmitIs DEF Typed
<1>4. Typed'
  BY <1>1, <1>3 DEF Typed
<1>5. Founded'
  BY <1>1, <1>3 DEF Founded
<1>6. Counted'
  BY <1>1, <1>3 DEF Counted
<1> QED
  BY <1>4, <1>5, <1>6 DEF TInv

LEMMA TInvChanges ==
  ASSUME TInv, \/ \E o \in Offered : ChangeOption(o)
               \/ \E stops, shows \in BOOLEAN : ChangeAmount(stops, shows)
  PROVE  TInv'
<1> USE DEF globals, polling, exits, history, calls
<1>1. Typed /\ Founded /\ Counted
  BY DEF TInv
<1>2. CASE \E o \in Offered : ChangeOption(o)
  <2> USE <1>2 DEF ChangeOption
  <2>1. Typed'
    BY <1>1 DEF Typed
  <2>2. Founded' /\ Counted'
    BY <1>1 DEF Founded, Counted, Started
  <2> QED
    BY <2>1, <2>2 DEF TInv
<1>3. ASSUME NEW stops \in BOOLEAN, NEW shows \in BOOLEAN, ChangeAmount(stops, shows) PROVE TInv'
  <2> USE <1>3 DEF ChangeAmount
  <2>1. /\ timers' \in [Attempts -> Timer] /\ qrButton' \in BOOLEAN /\ stopped' \in SUBSET Attempts
        /\ forceStop' \in BOOLEAN
        /\ \A i \in Attempts : /\ timers'[i].att = timers[i].att
                               /\ timers'[i].live => timers[i].live
    <3>1. CASE StopPolling /\ forceStop' = TRUE
      BY <1>1, <3>1, StopTyped
    <3>2. CASE UNCHANGED <<qrButton, timers, stopped, forceStop>>
      BY <1>1, <3>2 DEF Typed
    <3> QED
      BY <3>1, <3>2
  <2>2. Typed'
    BY <1>1, <2>1 DEF Typed
  <2>3. Founded'
    BY <1>1, <2>1 DEF Founded, Started
  <2>4. Counted'
    BY <1>1 DEF Counted, Started
  <2> QED
    BY <2>2, <2>3, <2>4 DEF TInv
<1> QED
  BY <1>2, <1>3

(* What continueWithPayment does to the types.                             *)
LEMMA PostTyped ==
  ASSUME NEW place \in Places, NEW a \in Attempts \cup {Nobody}, Post(place, a)
  PROVE  /\ leaving' \in [to : Places \cup {"here"}, att : Attempts \cup {Nobody}]
         /\ leaving'.to = place /\ leaving'.att = a
BY DEF Post

LEMMA ContinueTyped ==
  ASSUME Typed, NEW a \in Attempts, Continue(a)
  PROVE  /\ inits' \in [Attempts -> Nat] /\ paytm' \in SUBSET Attempts /\ modal' \in BOOLEAN
         /\ leaving' \in [to : Places \cup {"here"}, att : Attempts \cup {Nobody}]
         /\ \A b \in Attempts : inits'[b] <= inits[b] + 1
<1>1. inits \in [Attempts -> Nat]
  BY DEF Typed
<1>2. CASE /\ inits' = [inits EXCEPT ![a] = @ + 1]
           /\ modal' = ~fromQR
           /\ UNCHANGED <<paytm, leaving>>
  <2>1. inits' \in [Attempts -> Nat] /\ \A b \in Attempts : inits'[b] <= inits[b] + 1
    BY <1>1, <1>2
  <2> QED
    BY <1>2, <2>1 DEF Typed
<1>3. CASE UNCHANGED inits
  <2>1. inits' \in [Attempts -> Nat] /\ \A b \in Attempts : inits'[b] <= inits[b] + 1
    BY <1>1, <1>3
  <2>2. CASE paytm' = paytm \cup {a} /\ modal' = FALSE /\ UNCHANGED leaving
    BY <2>1, <2>2 DEF Typed
  <2>3. CASE Post("gateway", a) /\ modal' = FALSE /\ UNCHANGED paytm
    <3>1. "gateway" \in Places
      BY DEF Places
    <3> QED
      BY <2>1, <2>3, <3>1, PostTyped DEF Typed
  <2> QED
    BY <1>3, <2>2, <2>3, <1>2 DEF Continue
<1> QED
  BY <1>2, <1>3 DEF Continue

LEMMA TInvPopups ==
  ASSUME TInv, GoOn \/ \E m \in Messages : GoBack(m) \/ LeaveBy(m)
  PROVE  TInv'
<1> USE DEF globals, polling, exits, history, calls
<1>1. Typed /\ Founded /\ Counted
  BY DEF TInv
<1>2. CASE GoOn
  <2>1. resp \in Attempts /\ Continue(resp) /\ "ask" \in messages /\ messages' = messages \ {"ask"}
    BY <1>1, <1>2 DEF GoOn, Founded, Typed
  <2>2. Typed'
    BY <1>1, <1>2, <2>1, ContinueTyped DEF Typed, GoOn
  <2>3. Founded'
    BY <1>1, <1>2, <2>1 DEF Founded, GoOn, Started
  <2>4. Counted'
    <3>1. Started' = Started /\ asked' = asked
      BY <1>2 DEF GoOn, Started
    <3>2. \A b \in Attempts : inits[b] \in Nat /\ inits'[b] \in Nat /\ inits'[b] <= inits[b] + 1
      BY <1>1, <2>1, ContinueTyped DEF Typed
    <3>3. Cardinality(Started \ asked) \in Nat
      BY Finite
    <3> QED
      BY <1>1, <2>1, <3>1, <3>2, <3>3 DEF Counted
  <2> QED
    BY <2>2, <2>3, <2>4 DEF TInv
<1>3. ASSUME NEW m \in Messages, GoBack(m) \/ LeaveBy(m) PROVE TInv'
  <2>1. /\ messages' = messages \ {m} /\ Started' = Started
        /\ UNCHANGED <<inits, asked, resp, timers, made>>
    BY <1>3 DEF GoBack, LeaveBy, Started
  <2>2. Typed'
    <3>1. leaving' \in [to : Places \cup {"here"}, att : Attempts \cup {Nobody}]
      <4>1. CASE GoBack(m)
        BY <1>1, <4>1 DEF GoBack, Typed
      <4>2. CASE LeaveBy(m)
        <5>1. "elsewhere" \in Places
          BY DEF Places
        <5> QED
          BY <4>2, <5>1, PostTyped DEF LeaveBy
      <4> QED
        BY <1>3, <4>1, <4>2
    <3> QED
      BY <1>1, <1>3, <3>1 DEF Typed, GoBack, LeaveBy
  <2>3. Founded'
    BY <1>1, <2>1 DEF Founded
  <2>4. Counted'
    <3>1. Cardinality(Started \ asked) \in Nat
      BY Finite
    <3>2. \A b \in Attempts : inits[b] \in Nat
      BY <1>1 DEF Typed
    <3> QED
      BY <1>1, <2>1, <3>1, <3>2 DEF Counted
  <2> QED
    BY <2>2, <2>3, <2>4 DEF TInv
<1> QED
  BY <1>2, <1>3

(* An action that leaves the counted calls alone.                          *)
LEMMA CountedFrame ==
  ASSUME TInv, UNCHANGED <<kind, asked, messages>>, inits' \in [Attempts -> Nat],
         \A b \in Attempts : inits'[b] <= inits[b]
  PROVE  Counted' /\ Started' = Started
<1>1. Started' = Started
  BY DEF Started
<1>2. \A b \in Attempts : inits[b] \in Nat /\ inits'[b] \in Nat
  BY DEF TInv, Typed
<1>3. Cardinality(Started \ asked) \in Nat
  BY Finite
<1> QED
  BY <1>1, <1>2, <1>3 DEF TInv, Counted

LEMMA TInvPayNowAnswered ==
  ASSUME TInv, NEW a \in Attempts, NEW answer \in PayNowAnswers, PayNowAnswered(a, answer)
  PROVE  TInv'
<1> USE DEF PayNowAnswered, polling
<1>1. Typed /\ Founded /\ Counted
  BY DEF TInv
<1>2. /\ inits' \in [Attempts -> Nat] /\ paytm' \in SUBSET Attempts /\ modal' \in BOOLEAN
      /\ leaving' \in [to : Places \cup {"here"}, att : Attempts \cup {Nobody}]
      /\ \A b \in Attempts : inits'[b] <= inits[b] + 1
      /\ answer # "go" => UNCHANGED inits
  <2>1. CASE answer = "go"
    BY <1>1, <2>1, ContinueTyped
  <2>2. CASE answer # "go"
    <3>1. modal' = FALSE /\ UNCHANGED <<inits, paytm, leaving>>
      BY <2>2
    <3>2. \A b \in Attempts : inits[b] \in Nat
      BY <1>1 DEF Typed
    <3>3. \A b \in Attempts : inits'[b] <= inits[b] + 1
      BY <3>1, <3>2
    <3> QED
      BY <1>1, <3>1, <3>3 DEF Typed
  <2> QED
    BY <2>1, <2>2
<1>3. /\ messages' \in SUBSET Messages /\ black' \in BOOLEAN
      /\ "ask" \in messages' => "ask" \in messages \/ answer = "ask"
  BY <1>1 DEF Typed
<1>4. Typed'
  BY <1>1, <1>2, <1>3 DEF Typed
<1>5. Founded'
  <2>1. "ask" \in messages' => resp' # Nobody
    BY <1>1, <1>3 DEF Founded, Nobody, Attempts
  <2> QED
    BY <1>1, <2>1 DEF Founded, Started
<1>6. Counted'
  <2>1. Cardinality(Started' \ asked') = Cardinality(Started \ asked) + 1
    BY <1>1, AnsweredCounts
  <2>2. Cardinality(Started \ asked) \in Nat
    BY Finite
  <2>3. \A b \in Attempts : inits[b] \in Nat /\ inits'[b] \in Nat
    BY <1>1, <1>2 DEF Typed
  <2>4. ASSUME NEW b \in Attempts
        PROVE  inits'[b] + (IF "ask" \in messages' THEN 1 ELSE 0) <= Cardinality(Started' \ asked')
    <3>1. inits[b] + (IF "ask" \in messages THEN 1 ELSE 0) <= Cardinality(Started \ asked)
      BY <1>1 DEF Counted
    <3>2. CASE answer = "go"
      <4>1. "ask" \in messages' => "ask" \in messages
        BY <1>3, <3>2
      <4> QED
        BY <1>2, <2>1, <2>2, <2>3, <3>1, <4>1
    <3>3. CASE answer # "go"
      <4>1. inits'[b] = inits[b]
        BY <1>2, <3>3
      <4> QED
        BY <2>1, <2>2, <2>3, <3>1, <4>1
    <3> QED
      BY <3>2, <3>3
  <2> QED
    BY <2>4 DEF Counted
<1> QED
  BY <1>4, <1>5, <1>6 DEF TInv

(* A new interval takes the first free place.                              *)
LEMMA StartTimerIs ==
  ASSUME Typed, Founded, NEW a \in Attempts, NEW given \in BOOLEAN, StartTimer(a, given)
  PROVE  /\ made + 1 \in Attempts /\ made' = made + 1 /\ made' \in 0..MaxAttempts
         /\ handle' = made + 1 /\ handle' \in 0..MaxAttempts
         /\ timers' \in [Attempts -> Timer]
         /\ timers[made + 1].att = Nobody /\ ~timers[made + 1].live
         /\ timers'[made + 1].att = a /\ timers'[made + 1].live
         /\ \A i \in Attempts \ {made + 1} : timers'[i] = timers[i]
<1>1. made \in 0..MaxAttempts /\ made < MaxAttempts /\ made + 1 \in Attempts
  BY DEF StartTimer, Typed, Attempts
<1>2. [att |-> a, live |-> TRUE, age |-> 0, given |-> given] \in Timer
  BY DEF Timer
<1>3. timers[made + 1].att = Nobody /\ ~timers[made + 1].live
  BY <1>1 DEF Founded, Typed, Attempts
<1>4. timers' = [timers EXCEPT ![made + 1] = [att |-> a, live |-> TRUE, age |-> 0, given |-> given]]
  BY DEF StartTimer
<1>5. timers' \in [Attempts -> Timer]
  BY <1>1, <1>2, <1>4 DEF Typed
<1>6. /\ timers'[made + 1] = [att |-> a, live |-> TRUE, age |-> 0, given |-> given]
      /\ \A i \in Attempts \ {made + 1} : timers'[i] = timers[i]
  BY <1>1, <1>4 DEF Typed
<1>7. handle' = made + 1 /\ made' = made + 1
  BY DEF StartTimer
<1> QED
  BY <1>1, <1>3, <1>5, <1>6, <1>7

LEMMA ErrorRedirectTyped ==
  ASSUME Typed, NEW a \in Attempts, ErrorRedirect(a)
  PROVE  /\ leaving' \in [to : Places \cup {"here"}, att : Attempts \cup {Nobody}]
         /\ leaving'.att = a /\ leaving'.to = IF a \in noAddress THEN "nowhere" ELSE "failed"
         /\ noAddress' = noAddress \cup {a} /\ noAddress' \in SUBSET Attempts
<1>1. (IF a \in noAddress THEN "nowhere" ELSE "failed") \in Places
  BY DEF Places
<1> QED
  BY <1>1, PostTyped DEF ErrorRedirect, Typed

LEMMA TInvInitAnswered ==
  ASSUME TInv, NEW a \in Attempts, NEW answer \in InitAnswers, NEW given \in BOOLEAN,
         InitAnswered(a, answer, given)
  PROVE  TInv'
<1> USE DEF InitAnswered, screen
<1>1. Typed /\ Founded /\ Counted
  BY DEF TInv
<1>2. inits' \in [Attempts -> Nat] /\ \A b \in Attempts : inits'[b] <= inits[b]
  BY <1>1 DEF Typed
<1>3. /\ image' \in Attempts \cup {Nobody} /\ trouble' \in BOOLEAN
      /\ made' \in 0..MaxAttempts /\ handle' \in 0..MaxAttempts /\ made <= made'
      /\ timers' \in [Attempts -> Timer]
      /\ \A i \in Attempts : timers'[i].live => timers'[i].att # Nobody
      /\ \A i \in Attempts : timers'[i].att # Nobody => i <= made'
      /\ leaving' \in [to : Places \cup {"here"}, att : Attempts \cup {Nobody}]
      /\ noAddress' \in SUBSET Attempts
  <2>1. CASE UNCHANGED <<timers, made, handle>>
    <3>1. CASE answer = "error" /\ ErrorRedirect(a) /\ UNCHANGED <<image, trouble>>
      BY <1>1, <2>1, <3>1, ErrorRedirectTyped DEF Typed, Founded
    <3>2. CASE answer = "no" /\ Post("failed", a) /\ UNCHANGED <<image, noAddress, trouble>>
      <4>1. "failed" \in Places
        BY DEF Places
      <4> QED
        BY <1>1, <2>1, <3>2, <4>1, PostTyped DEF Typed, Founded
    <3>3. CASE UNCHANGED <<leaving, noAddress>>
      <4>1. image' \in Attempts \cup {Nobody} /\ trouble' \in BOOLEAN
        BY <1>1, <2>1 DEF Typed
      <4>2. made <= made'
        BY <1>1, <2>1 DEF Typed
      <4> QED
        BY <1>1, <2>1, <3>3, <4>1, <4>2 DEF Typed, Founded
    <3> QED
      BY <2>1, <3>1, <3>2, <3>3
  <2>2. CASE StartTimer(a, given) /\ UNCHANGED <<image, leaving, noAddress, trouble>>
    <3>1. made \in Nat /\ made' = made + 1 /\ \A i \in Attempts : i \in Nat
      <4>1. made \in Nat
        BY <1>1 DEF Typed
      <4>2. made' = made + 1
        BY <2>2 DEF StartTimer
      <4> QED
        BY <4>1, <4>2 DEF Attempts
    <3>3. made <= made' /\ \A i \in Attempts : i <= made => i <= made'
      BY <3>1
    <3>2. a # Nobody
      BY DEF Attempts, Nobody
    <3> QED
      BY <1>1, <2>2, <3>2, <3>3, StartTimerIs DEF Typed, Founded
  <2> QED
    BY <2>1, <2>2
<1>4. Typed'
  BY <1>1, <1>2, <1>3 DEF Typed
<1>5. Counted' /\ Started' = Started
  BY <1>2, CountedFrame
<1>6. Founded'
  BY <1>1, <1>3, <1>5 DEF Founded
<1> QED
  BY <1>4, <1>5, <1>6 DEF TInv

LEMMA TInvImage ==
  ASSUME TInv, ImageFails \/ \E given \in BOOLEAN : ImageLoaded(given)
  PROVE  TInv'
<1>1. Typed /\ Founded /\ Counted
  BY DEF TInv
<1>2. CASE ImageFails
  <2> USE <1>2 DEF ImageFails, screen, globals, polling, exits
  <2>1. Typed'
    BY <1>1 DEF Typed
  <2>2. Founded' /\ Counted'
    BY <1>1 DEF Founded, Counted, Started
  <2> QED
    BY <2>1, <2>2 DEF TInv
<1>3. ASSUME NEW given \in BOOLEAN, ImageLoaded(given) PROVE TInv'
  <2> USE <1>3 DEF ImageLoaded, exits, history
  <2>1. StartTimer(image, given) /\ image \in Attempts /\ image # Nobody
    BY <1>1 DEF Typed
  <2>2. Typed'
    BY <1>1, <2>1, StartTimerIs DEF Typed
  <2>3. Counted' /\ Started' = Started
    BY <1>1, CountedFrame DEF Typed
  <2>4. Founded'
    <3>1. made \in Nat /\ made' = made + 1 /\ \A i \in Attempts : i \in Nat
      <4>1. made \in Nat
        BY <1>1 DEF Typed
      <4>2. made' = made + 1
        BY <2>1 DEF StartTimer
      <4> QED
        BY <4>1, <4>2 DEF Attempts
    <3>2. \A i \in Attempts : i <= made => i <= made'
      BY <3>1
    <3> QED
      BY <1>1, <2>1, <2>3, <3>2, StartTimerIs DEF Founded
  <2> QED
    BY <2>2, <2>3, <2>4 DEF TInv
<1> QED
  BY <1>2, <1>3

(* A tick of a live interval clears the interval the handle names, or none.*)
LEMMA TickIs ==
  ASSUME Typed, Founded, NEW i \in Attempts, Tick(i)
  PROVE  /\ timers[i].live /\ timers[i].att \in Attempts
         /\ timers' \in [Attempts -> Timer]
         /\ \A k \in Attempts :
              /\ timers'[k].att = timers[k].att
              /\ timers'[k].live = timers[k].live \/ (k = handle /\ timers'[k].live = FALSE)
<1> DEFINE older == [timers EXCEPT ![i].age = Older(@)]
<1>1. timers[i] \in Timer /\ timers[i].live /\ timers[i].att \in Attempts
  BY DEF Tick, Typed, Founded, Timer
<1>2. Older(timers[i].age) \in 0..MaxAge
  BY <1>1 DEF Timer, Older
<1>3. older \in [Attempts -> Timer]
  BY <1>1, <1>2 DEF Typed, Timer
<1>4. \A k \in Attempts : older[k].att = timers[k].att /\ older[k].live = timers[k].live
  BY <1>1 DEF Typed, Timer
<1>5. Cleared(older, handle) \in [Attempts -> Timer]
  BY <1>3 DEF Cleared, Timer
<1>6. \A k \in Attempts : /\ Cleared(older, handle)[k].att = timers[k].att
                         /\ Cleared(older, handle)[k].live = (timers[k].live /\ k # handle)
  BY <1>3, <1>4 DEF Cleared, Timer
<1>7. timers' = older \/ timers' = Cleared(older, handle)
  BY DEF Tick
<1>8. \A k \in Attempts : timers[k].live \in BOOLEAN
  BY DEF Typed, Timer
<1>9. CASE timers' = older
  BY <1>1, <1>3, <1>4, <1>9
<1>10. CASE timers' = Cleared(older, handle)
  <2>1. \A k \in Attempts :
          /\ timers'[k].att = timers[k].att
          /\ timers'[k].live = timers[k].live \/ (k = handle /\ timers'[k].live = FALSE)
    BY <1>6, <1>8, <1>10
  <2> QED
    BY <1>1, <1>5, <1>10, <2>1
<1> QED
  BY <1>7, <1>9, <1>10

LEMMA TInvTick ==
  ASSUME TInv, NEW i \in Attempts, Tick(i)
  PROVE  TInv'
<1>1. Typed /\ Founded /\ Counted
  BY DEF TInv
<1>2. UNCHANGED <<screen, kind, calls, forceStop, resp, handle, made, unloaded, history>>
  BY DEF Tick
<1> USE DEF screen, calls, history
<1>3. /\ fromQR' \in BOOLEAN
      /\ ownHandle' \in [Attempts -> 0..MaxAttempts] /\ polls' \in [Attempts -> 0..MaxPolls]
  <2> DEFINE a == timers[i].att
  <2>1. CASE fromQR' = FALSE /\ UNCHANGED <<ownHandle, polls>>
    BY <1>1, <2>1 DEF Typed
  <2>2. CASE /\ ownHandle' = [ownHandle EXCEPT ![a] = handle]
             /\ polls' = [polls EXCEPT ![a] = IF @ < MaxPolls THEN @ + 1 ELSE @]
             /\ UNCHANGED fromQR
    <3>1. polls \in [Attempts -> 0..MaxPolls] /\ MaxPolls \in Nat
      BY <1>1 DEF Typed
    <3>2. \A n \in 0..MaxPolls : (IF n < MaxPolls THEN n + 1 ELSE n) \in 0..MaxPolls
      BY <3>1
    <3>3. polls' \in [Attempts -> 0..MaxPolls]
      BY <2>2, <3>1, <3>2
    <3> QED
      BY <1>1, <2>2, <3>3 DEF Typed
  <2> QED
    BY <2>1, <2>2 DEF Tick
<1>4. /\ leaving' \in [to : Places \cup {"here"}, att : Attempts \cup {Nobody}]
      /\ noAddress' \in SUBSET Attempts
  <2>1. CASE UNCHANGED <<leaving, noAddress>>
    BY <1>1, <2>1 DEF Typed
  <2>2. CASE ErrorRedirect(timers[i].att)
    BY <1>1, <2>2, ErrorRedirectTyped, TickIs
  <2> QED
    BY <2>1, <2>2 DEF Tick
<1>5. Typed'
  <2>1. timers' \in [Attempts -> Timer]
    BY <1>1, TickIs
  <2> QED
    BY <1>1, <1>2, <1>3, <1>4, <2>1 DEF Typed
<1>6. Counted' /\ Started' = Started
  BY <1>1, <1>2, CountedFrame DEF Typed
<1>7. Founded'
  <2>1. \A k \in Attempts : timers'[k].live => timers[k].live
    BY <1>1, TickIs DEF Typed, Timer
  <2> QED
    BY <1>1, <1>2, <1>6, <2>1, TickIs DEF Founded
<1> QED
  BY <1>5, <1>6, <1>7 DEF TInv

LEMMA TInvPolls ==
  ASSUME TInv, NEW a \in Attempts, PollComplete(a) \/ PollPending(a)
  PROVE  TInv'
<1>1. Typed /\ Founded /\ Counted
  BY DEF TInv
<1> USE DEF PollComplete, PollPending, screen, calls, globals, history, exits
<1>2. polls' \in [Attempts -> 0..MaxPolls]
  BY <1>1 DEF Typed
<1>3. leaving' \in [to : Places \cup {"here"}, att : Attempts \cup {Nobody}]
  <2>1. "success" \in Places
    BY DEF Places
  <2>2. CASE Post("success", a)
    BY <2>1, <2>2, PostTyped
  <2>3. CASE UNCHANGED leaving
    BY <1>1, <2>3 DEF Typed
  <2> QED
    BY <2>2, <2>3
<1>4. /\ timers' \in [Attempts -> Timer]
      /\ \A i \in Attempts : /\ timers'[i].att = timers[i].att
                             /\ timers'[i].live => timers[i].live
  BY <1>1, ClearedTyped DEF Typed
<1>5. Typed'
  BY <1>1, <1>2, <1>3, <1>4 DEF Typed
<1>6. Counted' /\ Started' = Started
  BY <1>1, CountedFrame DEF Typed
<1>7. Founded'
  BY <1>1, <1>4, <1>6 DEF Founded
<1> QED
  BY <1>5, <1>6, <1>7 DEF TInv

(* The steps that touch neither the calls nor the timers.                  *)
LEMMA TInvRest ==
  ASSUME TInv, \/ \E a \in Attempts, how \in {"closed", "done", "not loaded"} : PaytmEnds(a, how)
               \/ \E a \in Attempts : CustomerPays(a)
               \/ Close \/ Unload \/ UNCHANGED vars
  PROVE  TInv'
<1>1. Typed /\ Founded /\ Counted
  BY DEF TInv
<1> USE DEF Close, Unload, CustomerPays, PaytmEnds,
            screen, calls, globals, polling, history, exits, vars
<1>2. UNCHANGED <<kind, asked, messages, inits, timers, made, resp>>
  OBVIOUS
<1>3. Counted' /\ Started' = Started
  BY <1>1, <1>2, CountedFrame DEF Typed
<1>4. Founded'
  BY <1>1, <1>2, <1>3 DEF Founded
<1>5. leaving' \in [to : Places \cup {"here"}, att : Attempts \cup {Nobody}]
  <2>1. "gateway" \in Places
    BY DEF Places
  <2>2. ASSUME NEW a \in Attempts, Post("gateway", a) PROVE <1>5!:
    BY <2>1, <2>2, PostTyped
  <2>3. CASE UNCHANGED leaving
    BY <1>1, <2>3 DEF Typed
  <2> QED
    BY <2>2, <2>3
<1>6. Typed'
  <2>1. /\ UNCHANGED <<option, qrButton, modal, messages, black, kind, asked, inits, image,
                       globals, polling, noAddress, stopped, touched>>
        /\ paid' \in SUBSET Attempts /\ paytm' \in SUBSET Attempts
        /\ enabled' \in BOOLEAN /\ unloaded' \in BOOLEAN /\ trouble' \in BOOLEAN
    BY <1>1 DEF Typed
  <2> QED
    BY <1>1, <1>5, <2>1 DEF Typed
<1> QED
  BY <1>3, <1>4, <1>6 DEF TInv

LEMMA TInvStep == TInv /\ [Next]_vars => TInv'
<1> SUFFICES ASSUME TInv, [Next]_vars PROVE TInv'
  OBVIOUS
<1>1. CASE User
  BY <1>1, TInvPayNow, TInvShowQR, TInvChanges, TInvPopups, TInvRest DEF User
<1>2. CASE Answers
  BY <1>2, TInvPayNowAnswered, TInvInitAnswered, TInvImage, TInvTick, TInvPolls, TInvRest DEF Answers
<1>3. CASE Gone \/ UNCHANGED vars
  BY <1>3, TInvRest DEF Gone
<1> QED
  BY <1>1, <1>2, <1>3 DEF Next

(* Every variable keeps its type: the calls that initiate a payment are    *)
(* never more than the presses, and a tick always belongs to an attempt.   *)
THEOREM TypeCorrect == Spec => []TypeOK
<1>1. TInv => TypeOK
  <2> SUFFICES ASSUME TInv PROVE TypeOK
    OBVIOUS
  <2>1. ASSUME NEW a \in Attempts PROVE inits[a] \in 0..MaxAttempts
    <3>1. inits[a] + (IF "ask" \in messages THEN 1 ELSE 0) <= Cardinality(Started \ asked)
      BY DEF TInv, Counted
    <3>2. inits[a] \in Nat
      BY DEF TInv, Typed
    <3> QED
      BY <3>1, <3>2, Finite
  <2> QED
    BY <2>1 DEF TInv, Typed, TypeOK
<1> QED
  BY <1>1, TInvInit, TInvStep, PTL DEF Spec
==============================================================================
