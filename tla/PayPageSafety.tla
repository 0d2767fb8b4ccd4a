---------------------------- MODULE PayPageSafety ----------------------------
(***************************************************************************)
(* Proofs about PayPage, for any number of attempts and any durations: that*)
(* the page's globals, timers and popups do what they are for while every  *)
(* press waits for the attempt before it.  The types and the bounds are in *)
(* PayPageProofs.                                                          *)
(***************************************************************************)
EXTENDS PayPageProofs

(* The attempts that are open, or that a popup asks about. *)
Busy == Open \cup {a \in {resp} : "ask" \in messages}

(* An attempt nothing is under way for. *)
Spent(a) ==
  /\ a \in Attempts /\ kind[a] # "none" /\ a \notin Busy
  /\ \A i \in Live : timers[i].att # a

(* At most one attempt is open, in one way; no interval is live meanwhile  *)
(* and no popup waits for an answer.                                       *)
OneOpen ==
  /\ \A a, b \in Open : a = b
  /\ \A a \in asked : inits[a] = 0 /\ image # a /\ a \notin paytm
  /\ \A a \in Attempts : inits[a] > 0 =>
       inits[a] = 1 /\ image # a /\ a \notin paytm /\ kind[a] \in {"upi", "qr"}
  /\ image # Nobody => image \notin paytm /\ kind[image] = "qr"
  /\ Open # {} => Live = {} /\ messages = {}
  /\ \A a \in Open : kind[a] # "none"

(* At most one popup waits for an answer, over a page at rest.             *)
OnePopup ==
  /\ messages # {} => Live = {} /\ black /\ ~modal
  /\ \A m, n \in messages : m = n
  /\ "ask" \in messages => kind[resp] # "none"

(* At most one interval is live, and the handle names it.                  *)
OneTimer ==
  /\ Live \subseteq {handle}
  /\ Live # {} => ~forceStop /\ (modal \/ ~qrButton) /\ (modal \/ enabled)
  /\ \A i \in Live : kind[timers[i].att] # "none"

(* The flags fit the attempt that is open, or that a popup asks about.     *)
Fit(a) ==
  /\ kind[a] = "qr" => ~qrButton
  /\ kind[a] \in {"upi", "qr"} => ~forceStop

FlagsFit ==
  /\ \A a \in Busy : Fit(a)
  /\ \A a \in Attempts : a \in asked \/ inits[a] > 0 => fromQR = (kind[a] = "qr")
  /\ \A a \in Attempts : inits[a] > 0 /\ ~fromQR => modal
  /\ paytm # {} => ~modal
  /\ "ask" \in messages => fromQR = (kind[resp] = "qr")

(* What the user, the time or the server has ended is not started again.   *)
Ended ==
  /\ \A a \in noAddress \cup stopped : Spent(a)
  /\ leaving.to = "success" => Spent(leaving.att)
  /\ leaving.to # "nowhere"
  /\ \A a \in Attempts : polls[a] > 0 =>
       /\ kind[a] # "none" /\ a \notin Busy
       /\ \A i \in Live : timers[i].att = a => ownHandle[a] = i

(* A payment that was polled for is polled for until it is ended.          *)
Watched ==
  \A i \in Attempts : timers[i].att # Nobody /\ leaving = Stay =>
    \/ timers[i].att \in stopped
    \/ \E k \in Live : timers[k].att = timers[i].att

(* With nothing under way the page can be used.                            *)
AtRest ==
  ~trouble /\ Open = {} /\ Live = {} /\ leaving = Stay => ~modal /\ (messages = {} => enabled)

Calm == OneOpen /\ OnePopup /\ OneTimer /\ FlagsFit /\ Ended /\ Watched /\ AtRest

CInv == ~touched => Calm

LEMMA CalmInit == Init => CInv
<1> SUFFICES ASSUME Init PROVE Calm
  BY DEF CInv
<1>1. /\ Open = {} /\ Busy = {} /\ Live = {} /\ messages = {} /\ leaving = Stay
      /\ enabled = TRUE /\ modal = FALSE
  BY DEF Init, Open, Live, Busy
<1>2. leaving.to = "here"
  BY <1>1 DEF Stay
<1>3. OneOpen /\ OnePopup /\ OneTimer /\ FlagsFit
  <2>1. asked = {} /\ paytm = {} /\ image = Nobody /\ \A a \in Attempts : inits[a] = 0
    BY DEF Init
  <2> QED
    BY <1>1, <2>1 DEF OneOpen, OnePopup, OneTimer, FlagsFit
<1>4. Ended
  <2>1. noAddress = {} /\ stopped = {} /\ \A a \in Attempts : polls[a] = 0
    BY DEF Init
  <2> QED
    BY <1>2, <2>1 DEF Ended
<1>5. Watched
  BY DEF Watched, Init
<1>6. AtRest
  BY <1>1 DEF AtRest
<1> QED
  BY <1>3, <1>4, <1>5, <1>6 DEF Calm
------------------------------------------------------------------------------
(* What the parts of the invariant need of a step. *)

LEMMA SpentFrame ==
  ASSUME NEW a, Spent(a), kind'[a] # "none", a \in Busy' => a \in Busy,
         \A i \in Live' : timers'[i].att = a => i \in Live /\ timers[i].att = a
  PROVE  Spent(a)'
BY DEF Spent

(* No spent attempt is taken up again. *)
LEMMA EndedFrame ==
  ASSUME Ended,
         \A a \in Attempts : kind[a] # "none" => kind'[a] # "none" /\ (a \in Busy' => a \in Busy),
         \A i \in Live' : timers'[i].att \in Busy \/ (i \in Live /\ timers'[i].att = timers[i].att),
         \A a \in noAddress' \cup stopped' : a \in noAddress \cup stopped \/ Spent(a)',
         leaving' = leaving \/ leaving'.to \notin {"success", "nowhere"},
         \A a \in Attempts : polls'[a] > 0 => polls[a] > 0,
         UNCHANGED ownHandle
  PROVE  Ended'
<1>1. ASSUME NEW a, Spent(a)
      PROVE  Spent(a)'
  <2>1. a \in Attempts /\ kind[a] # "none" /\ a \notin Busy /\ \A i \in Live : timers[i].att # a
    BY <1>1 DEF Spent
  <2>2. kind'[a] # "none" /\ a \notin Busy'
    BY <2>1
  <2>3. \A i \in Live' : timers'[i].att # a
    BY <2>1
  <2> QED
    BY <2>1, <2>2, <2>3 DEF Spent
<1>2. \A a \in noAddress' \cup stopped' : Spent(a)'
  BY <1>1 DEF Ended
<1>3. leaving'.to = "success" => Spent(leaving.att)'
  <2>1. CASE leaving' = leaving
    <3>1. ASSUME NEW b, b = leaving.att, leaving.to = "success"
          PROVE  Spent(b)'
      BY <1>1, <3>1 DEF Ended
    <3> QED
      BY <2>1, <3>1 DEF Spent
  <2> QED
    BY <2>1
<1>4. leaving'.to # "nowhere"
  BY DEF Ended
<1>5. ASSUME NEW a \in Attempts, polls'[a] > 0
      PROVE  /\ kind'[a] # "none" /\ a \notin Busy'
             /\ \A i \in Live' : timers'[i].att = a => ownHandle'[a] = i
  <2>1. polls[a] > 0
    BY <1>5
  <2>2. kind[a] # "none" /\ a \notin Busy /\ \A i \in Live : timers[i].att = a => ownHandle[a] = i
    BY <2>1 DEF Ended
  <2>4. kind'[a] # "none" /\ a \notin Busy'
    BY <2>2
  <2>3. ASSUME NEW i \in Live', timers'[i].att = a
        PROVE  ownHandle'[a] = i
    <3>1. i \in Live /\ timers[i].att = a
      BY <2>2, <2>3
    <3>2. ownHandle[a] = i
      BY <2>2, <3>1
    <3> QED
      BY <3>2
  <2> QED
    BY <2>4, <2>3
<1> QED
  BY <1>2, <1>3, <1>4, <1>5 DEF Ended

LEMMA WatchedFrame ==
  ASSUME Watched, stopped \subseteq stopped', leaving' = Stay => leaving = Stay,
         \A i \in Attempts : timers'[i].att = timers[i].att \/ i \in Live',
         \A i \in Live : (i \in Live' /\ timers'[i].att = timers[i].att) \/ timers[i].att \in stopped'
  PROVE  Watched'
<1> SUFFICES ASSUME NEW i \in Attempts, timers'[i].att # Nobody, leaving' = Stay,
                    timers'[i].att \notin stopped'
             PROVE  \E k \in Live' : timers'[k].att = timers'[i].att
  BY DEF Watched
<1>1. CASE i \in Live'
  BY <1>1
<1>2. CASE timers'[i].att = timers[i].att
  <2>1. PICK k \in Live : timers[k].att = timers[i].att
    BY <1>2 DEF Watched
  <2> QED
    BY <1>2, <2>1
<1> QED
  BY <1>1, <1>2

(* The page leaves: there is nothing to watch or to explain. *)
LEMMA GoneFrame ==
  ASSUME leaving' # Stay
  PROVE  Watched' /\ AtRest'
BY DEF Watched, AtRest

(* Nothing is open after the step. *)
LEMMA NoneOpen ==
  ASSUME Typed', Open' = {}
  PROVE  /\ asked' = {} /\ image' = Nobody /\ paytm' = {} /\ \A a \in Attempts : inits'[a] = 0
         /\ OneOpen'
<1>1. asked' = {} /\ image' = Nobody /\ paytm' = {}
  BY DEF Open
<1>2. \A a \in Attempts : inits'[a] = 0
  <2>1. \A a \in Attempts : ~(inits'[a] > 0) /\ inits'[a] \in Nat
    BY DEF Open, Typed
  <2> QED
    BY <2>1
<1> QED
  BY <1>1, <1>2 DEF OneOpen

LEMMA NoneAsked ==
  ASSUME Typed', Open' = {}, "ask" \notin messages'
  PROVE  OneOpen' /\ FlagsFit' /\ Busy' = {}
<1>1. Busy' = {}
  BY DEF Busy
<1>2. FlagsFit'
  BY <1>1, NoneOpen DEF FlagsFit
<1> QED
  BY <1>1, <1>2, NoneOpen

(* What is known of a page on which an attempt is open. *)
LEMMA OpenIs ==
  ASSUME Typed, Calm, NEW a \in Open
  PROVE  /\ a \in Attempts /\ kind[a] # "none" /\ Open = {a} /\ Busy = {a} /\ Live = {} /\ messages = {}
         /\ Fit(a) /\ a \notin noAddress /\ a \notin stopped
<1>1. Open = {a} /\ Live = {} /\ messages = {} /\ kind[a] # "none"
  BY DEF Calm, OneOpen
<1>2. a \in Attempts
  BY DEF Open, Typed
<1>3. Busy = {a}
  BY <1>1 DEF Busy
<1> QED
  BY <1>1, <1>2, <1>3 DEF Calm, FlagsFit, Ended, Spent

(* Stopping the polling stops the one interval that is live. *)
LEMMA StopIs ==
  ASSUME Typed, Founded, OneTimer, StopPolling
  PROVE  /\ Live' = {} /\ qrButton' = TRUE
         /\ stopped' = stopped \cup {timers[i].att : i \in Live}
         /\ \A i \in Attempts : timers'[i].att = timers[i].att
<1>1. \A i \in Attempts : timers'[i].att = timers[i].att /\ timers'[i].live = (timers[i].live /\ i # handle)
  BY StopTyped
<1>2. Live' = {}
  BY <1>1 DEF Live, OneTimer
<1>3. Live \cap {handle} = Live
  BY DEF OneTimer
<1>4. stopped' = stopped \cup {timers[i].att : i \in Live}
  BY <1>3 DEF StopPolling, PolledBy
<1> QED
  BY <1>1, <1>2, <1>4 DEF StopPolling

(* The attempts of live intervals have started, and nothing else is under  *)
(* way for them.                                                           *)
LEMMA LiveIs ==
  ASSUME Typed, Founded, Calm, NEW i \in Live
  PROVE  /\ i \in Attempts /\ i = handle /\ Live = {i}
         /\ timers[i].att \in Attempts /\ kind[timers[i].att] # "none"
         /\ Open = {} /\ messages = {} /\ Busy = {}
         /\ timers[i].att \notin stopped /\ timers[i].att \notin noAddress
<1>1. i \in Attempts /\ i = handle /\ Live = {i} /\ Open = {} /\ messages = {}
  BY DEF Calm, OneOpen, OnePopup, OneTimer, Live
<1>2. timers[i].att \in Attempts /\ kind[timers[i].att] # "none"
  BY <1>1 DEF Calm, OneTimer, Live, Founded, Typed, Timer
<1>3. Busy = {}
  BY <1>1 DEF Busy
<1>4. timers[i].att \notin stopped /\ timers[i].att \notin noAddress
  BY DEF Calm, Ended, Spent
<1> QED
  BY <1>1, <1>2, <1>3, <1>4

(* A press on a page with nothing open, that submits. *)
LEMMA CalmSubmit ==
  ASSUME Typed, Founded, Calm, Open = {}, NEW k \in Kinds \ {"none"}, Submit(k),
         messages' = {}, Live' = {},
         fromQR' = (k = "qr"), k = "qr" => ~qrButton', k \in {"upi", "qr"} => ~forceStop',
         stopped' = stopped \cup {timers[i].att : i \in Live},
         \A i \in Attempts : timers'[i].att = timers[i].att,
         UNCHANGED <<inits, image, paytm, polls, noAddress, leaving, ownHandle>>
  PROVE  Calm'
<1>1. asked = {} /\ image = Nobody /\ paytm = {}
  BY DEF Open
<1>a. \A b \in Attempts : inits[b] = 0 /\ ~(inits[b] > 0)
  <2>1. \A b \in Attempts : ~(inits[b] > 0) /\ inits[b] \in Nat
    BY DEF Open, Typed
  <2> QED
    BY <2>1
<1>2. PICK a \in Attempts :
        /\ kind[a] = "none" /\ asked' = {a} /\ kind'[a] = k
        /\ \A b \in Attempts \ {a} : kind'[b] = kind[b]
  BY <1>1, SubmitIs
<1>3. Open' = {a} /\ Busy' = {a}
  <2>1. {b \in Attempts : inits'[b] > 0} = {} /\ {image'} \ {Nobody} = {} /\ paytm' = {}
    BY <1>1, <1>a
  <2>2. Open' = {a}
    BY <1>2, <2>1 DEF Open
  <2> QED
    BY <2>2 DEF Busy
<1>4. OneOpen' /\ OnePopup' /\ OneTimer'
  <2>1. a # Nobody
    BY <1>2 DEF Attempts, Nobody
  <2>2. OneOpen'
    BY <1>1, <1>a, <1>2, <1>3, <2>1 DEF OneOpen
  <2> QED
    BY <2>2 DEF OnePopup, OneTimer
<1>5. FlagsFit'
  <2>1. Fit(a)'
    BY <1>2 DEF Fit
  <2>2. \A b \in Attempts : b \in asked' \/ inits'[b] > 0 => b = a
    BY <1>a, <1>2
  <2>3. \A b \in Busy' : Fit(b)'
    BY <1>3, <2>1 DEF Fit
  <2>4. \A b \in Attempts : b \in asked' \/ inits'[b] > 0 => fromQR' = (kind'[b] = "qr")
    BY <1>2, <2>2
  <2>5. \A b \in Attempts : ~(inits'[b] > 0)
    BY <1>a
  <2> QED
    BY <1>1, <2>3, <2>4, <2>5 DEF FlagsFit
<1>6. \A b \in Attempts : kind[b] # "none" => kind'[b] # "none" /\ b \notin Busy'
  BY <1>2, <1>3
<1>7. Ended'
  <2>1. ASSUME NEW i \in Live, NEW b, b = timers[i].att
        PROVE  Spent(b)'
    <3>1. b \in Attempts /\ kind'[b] # "none" /\ b \notin Busy'
      BY <1>6, <2>1, LiveIs
    <3> QED
      BY <3>1 DEF Spent
  <2>2. ASSUME NEW b \in noAddress' \cup stopped'
        PROVE  b \in noAddress \cup stopped \/ Spent(b)'
    BY <2>1
  <2> QED
    BY <1>6, <2>2, EndedFrame DEF Calm
<1>8. Watched'
  BY WatchedFrame DEF Calm
<1>9. AtRest'
  BY <1>3 DEF AtRest
<1> QED
  BY <1>4, <1>5, <1>7, <1>8, <1>9 DEF Calm

(* Stopping the polling of a page with nothing open, that stays. *)
LEMMA CalmStop ==
  ASSUME Typed, Typed', Founded, Calm, Open = {}, Open' = {}, "ask" \notin messages',
         messages' # {} => messages' = messages /\ black' = black,
         StopPolling, enabled' = TRUE \/ (enabled' = enabled /\ messages' = messages),
         modal' = FALSE, modal = FALSE,
         UNCHANGED <<kind, noAddress, leaving, polls, ownHandle, handle, trouble>>
  PROVE  Calm'
<1>1. /\ Live' = {} /\ qrButton' = TRUE
      /\ stopped' = stopped \cup {timers[i].att : i \in Live}
      /\ \A i \in Attempts : timers'[i].att = timers[i].att
  BY StopIs DEF Calm
<1>2. OneOpen' /\ FlagsFit' /\ Busy' = {}
  BY NoneAsked
<1>3. OnePopup'
  BY <1>1 DEF OnePopup, Calm
<1>4. OneTimer'
  BY <1>1 DEF OneTimer
<1>5. Ended'
  <2>1. ASSUME NEW i \in Live, NEW b, b = timers[i].att
        PROVE  Spent(b)'
    <3>1. b \in Attempts /\ kind'[b] # "none" /\ b \notin Busy'
      BY <1>2, <2>1, LiveIs
    <3> QED
      BY <1>1, <3>1 DEF Spent
  <2>2. ASSUME NEW b \in noAddress' \cup stopped'
        PROVE  b \in noAddress \cup stopped \/ Spent(b)'
    BY <1>1, <2>1
  <2> QED
    BY <1>1, <1>2, <2>2, EndedFrame DEF Calm
<1>6. Watched'
  BY <1>1, WatchedFrame DEF Calm
<1>7. AtRest'
  <2>1. CASE enabled' = TRUE
    BY <2>1 DEF AtRest
  <2>2. CASE enabled' = enabled /\ messages' = messages
    BY <1>1, <2>2 DEF AtRest, Calm, OneTimer
  <2> QED
    BY <2>1, <2>2
<1> QED
  BY <1>2, <1>3, <1>4, <1>5, <1>6, <1>7 DEF Calm

(* A step over a page with nothing open, that leaves the polling alone. *)
LEMMA CalmFree ==
  ASSUME Typed, Typed', Calm, Open = {}, Open' = {}, "ask" \notin messages',
         messages' # {} => messages' = messages /\ black' = black,
         modal = FALSE, enabled' = TRUE,
         leaving' = leaving \/ leaving'.to = "elsewhere",
         UNCHANGED <<kind, noAddress, polls, ownHandle, handle, timers, stopped, modal, qrButton,
                     forceStop>>
  PROVE  Calm'
<1>1. Live' = Live
  BY DEF Live
<1>2. OneOpen' /\ FlagsFit' /\ Busy' = {}
  BY NoneAsked
<1>3. OnePopup' /\ OneTimer'
  BY <1>1 DEF OnePopup, OneTimer, Calm
<1>4. Ended'
  BY <1>1, <1>2, EndedFrame DEF Calm
<1>5. Watched'
  <2>1. leaving' = Stay => leaving = Stay
    BY DEF Stay
  <2> QED
    BY <1>1, <2>1, WatchedFrame DEF Calm
<1>6. AtRest'
  BY DEF AtRest
<1> QED
  BY <1>2, <1>3, <1>4, <1>5, <1>6 DEF Calm

LEMMA CalmPayNow ==
  ASSUME TInv, TInv', CInv, NEW valid \in BOOLEAN, PayNow(valid)
  PROVE  CInv'
<1> SUFFICES ASSUME ~touched' PROVE Calm'
  BY DEF CInv
<1>1. Typed /\ Typed' /\ Founded /\ Calm /\ Open = {}
  BY DEF TInv, CInv, PayNow, Touch
<1>2. messages' = {} /\ modal = FALSE
  <2>1. CASE Reachable /\ UNCHANGED <<messages, black>>
    BY <1>1, <2>1 DEF Reachable, Calm, OnePopup, Typed
  <2>2. CASE ~modal /\ "refused" \in messages /\ messages' = messages \ {"refused"}
    <3>1. \A m \in messages : m = "refused"
      BY <1>1, <2>2 DEF Calm, OnePopup
    <3> QED
      BY <1>1, <2>2, <3>1 DEF Typed
  <2> QED
    BY <2>1, <2>2 DEF PayNow
<1>3. /\ UNCHANGED <<inits, image, paytm, polls, noAddress, leaving, ownHandle, handle, trouble>>
      /\ fromQR' = FALSE
  BY DEF PayNow, exits
<1>4. CASE valid
  <2>1. StopPolling /\ Submit(option) /\ forceStop' = (option # "upi")
    BY <1>4 DEF PayNow
  <2>2. option \in Kinds \ {"none"} /\ option # "qr"
    BY <1>1, PayPageAssumption DEF PayPageAssumption, Typed, Kinds
  <2>3. /\ Live' = {} /\ stopped' = stopped \cup {timers[i].att : i \in Live}
        /\ \A i \in Attempts : timers'[i].att = timers[i].att
    BY <1>1, <2>1, StopIs DEF Calm
  <2> QED
    BY <1>1, <1>2, <1>3, <2>1, <2>2, <2>3, CalmSubmit
<1>5. CASE ~valid
  <2>1. enabled' = TRUE /\ UNCHANGED <<kind, asked, modal>> /\ forceStop' = (forceStop \/ option # "upi")
    BY <1>5 DEF PayNow
  <2>2. Open' = {}
    BY <1>1, <1>3, <2>1 DEF Open
  <2>3. CASE StopPolling
    BY <1>1, <1>2, <1>3, <2>1, <2>2, <2>3, CalmStop
  <2>4. CASE option = "upi" /\ UNCHANGED <<qrButton, timers, stopped>>
    <3>1. forceStop' = forceStop
      BY <1>1, <2>1, <2>4 DEF Typed
    <3> QED
      BY <1>1, <1>2, <1>3, <2>1, <2>2, <2>4, <3>1, CalmFree
  <2> QED
    BY <1>5, <2>3, <2>4 DEF PayNow
<1> QED
  BY <1>4, <1>5

LEMMA CalmShowQR ==
  ASSUME TInv, TInv', CInv, ShowQR
  PROVE  CInv'
<1> SUFFICES ASSUME ~touched' PROVE Calm'
  BY DEF CInv
<1>1. Typed /\ Founded /\ Calm /\ Open = {}
  BY DEF TInv, CInv, ShowQR, Touch
<1>2. messages = {} /\ Live = {}
  BY <1>1 DEF ShowQR, Reachable, Calm, OnePopup, OneTimer, Typed
<1>3. /\ Submit("qr") /\ fromQR' = TRUE /\ forceStop' = FALSE /\ qrButton' = FALSE
      /\ UNCHANGED <<messages, timers, inits, image, paytm, polls, noAddress, leaving, ownHandle, stopped>>
  BY DEF ShowQR, polling, exits
<1>4. Live' = {} /\ stopped' = stopped \cup {timers[i].att : i \in Live}
  BY <1>2, <1>3 DEF Live
<1>5. "qr" \in Kinds \ {"none"}
  BY DEF Kinds
<1> QED
  BY <1>1, <1>2, <1>3, <1>4, <1>5, CalmSubmit

LEMMA CalmChangeAmount ==
  ASSUME TInv, TInv', CInv, NEW stops \in BOOLEAN, NEW shows \in BOOLEAN,
         ChangeAmount(stops, shows)
  PROVE  CInv'
<1> SUFFICES ASSUME ~touched' PROVE Calm'
  BY DEF CInv
<1>1. Typed /\ Typed' /\ Founded /\ Calm /\ Open = {} /\ Reachable
  BY DEF TInv, CInv, ChangeAmount
<1>2. /\ UNCHANGED <<modal, messages, black, kind, asked, inits, image, paytm, handle, ownHandle,
                     polls, noAddress, leaving, trouble>>
      /\ enabled' = (enabled \/ shows)
  BY DEF ChangeAmount, calls, exits
<1>3. messages = {} /\ modal = FALSE /\ Open' = {}
  BY <1>1, <1>2 DEF Reachable, Calm, OnePopup, Typed, Open
<1>4. CASE stops
  <2>1. StopPolling
    BY <1>4 DEF ChangeAmount
  <2>2. enabled' = TRUE \/ enabled' = enabled
    BY <1>1, <1>2 DEF Typed
  <2> QED
    BY <1>1, <1>2, <1>3, <2>1, <2>2, CalmStop
<1>5. CASE ~stops
  <2>1. enabled' = TRUE /\ UNCHANGED <<qrButton, timers, stopped, forceStop>>
    BY <1>5, <1>2 DEF ChangeAmount
  <2> QED
    BY <1>1, <1>2, <1>3, <2>1, CalmFree
<1> QED
  BY <1>4, <1>5

LEMMA CalmBack ==
  ASSUME TInv, TInv', CInv, NEW m \in Messages, GoBack(m) \/ LeaveBy(m)
  PROVE  CInv'
<1> SUFFICES ASSUME ~touched' PROVE Calm'
  BY DEF CInv
<1>1. touched' = touched /\ ~modal /\ m \in messages /\ messages' = messages \ {m} /\ enabled' = TRUE
      /\ UNCHANGED <<asked, inits, image, paytm, kind, noAddress, polls, ownHandle, handle, timers,
                     stopped, modal, qrButton, forceStop>>
      /\ (leaving' = leaving \/ leaving'.to = "elsewhere")
  BY DEF GoBack, LeaveBy, Post, calls, globals, polling, exits, history
<1>2. Typed /\ Typed' /\ Calm
  BY <1>1 DEF TInv, CInv
<1>3. Open = {} /\ \A n \in messages : n = m
  BY <1>1, <1>2 DEF Calm, OnePopup, OneOpen
<1>4. messages' = {} /\ Open' = {} /\ modal = FALSE
  BY <1>1, <1>2, <1>3 DEF Open, Typed
<1> QED
  BY <1>1, <1>2, <1>3, <1>4, CalmFree

(* Another tab, the closing of the page, the customer's payment: what the  *)
(* invariant speaks of stays as it is, or Pay Now is enabled.              *)
LEMMA CalmStill ==
  ASSUME TInv, TInv', CInv, touched' = touched, enabled' = TRUE \/ enabled' = enabled,
         UNCHANGED <<qrButton, modal, messages, black, kind, asked, inits, image, paytm, fromQR,
                     forceStop, resp, handle, timers, ownHandle, polls, noAddress, leaving,
                     stopped, trouble>>
  PROVE  CInv'
<1> SUFFICES ASSUME ~touched' PROVE Calm'
  BY DEF CInv
<1>1. Calm
  BY DEF CInv
<1>2. Open' = Open /\ Live' = Live
  BY DEF Open, Live
<1>3. Busy' = Busy
  BY <1>2 DEF Busy
<1>4. OneOpen' /\ OnePopup' /\ OneTimer' /\ FlagsFit'
  BY <1>1, <1>2, <1>3 DEF Calm, OneOpen, OnePopup, OneTimer, FlagsFit, Fit
<1>5. Ended'
  BY <1>1, <1>2, <1>3 DEF Calm, Ended, Spent
<1>6. Watched' /\ AtRest'
  BY <1>1, <1>2 DEF Calm, Watched, AtRest
<1> QED
  BY <1>4, <1>5, <1>6 DEF Calm

(* continueWithPayment for the one attempt that is busy. *)
LEMMA CalmContinue ==
  ASSUME Typed, Typed', Calm, NEW a \in Attempts, Busy = {a}, Live = {},
         image = Nobody, paytm = {}, \A b \in Attempts : inits[b] = 0,
         kind[a] # "none", Fit(a), fromQR = (kind[a] = "qr"), Continue(a),
         asked' = {}, messages' = {},
         UNCHANGED <<qrButton, kind, image, fromQR, forceStop, handle, timers, ownHandle, polls,
                     noAddress, stopped>>
  PROVE  Calm'
<1>1. Live' = {} /\ OnePopup' /\ OneTimer'
  BY DEF Live, OnePopup, OneTimer
<1>2. Fit(a)'
  BY DEF Fit
<1>3. a # Nobody
  BY DEF Attempts, Nobody
<1>4. ASSUME Busy' \subseteq {a},
             leaving' = leaving \/ leaving'.to = "gateway"
      PROVE  Ended' /\ Watched'
  <2>1. Ended'
    BY <1>1, <1>4, EndedFrame DEF Calm
  <2>2. leaving' = Stay => leaving = Stay
    BY <1>4 DEF Stay
  <2> QED
    BY <1>1, <2>1, <2>2, WatchedFrame DEF Calm
<1>5. CASE /\ kind[a] \in {"upi", "qr"} /\ inits' = [inits EXCEPT ![a] = @ + 1]
           /\ modal' = ~fromQR /\ UNCHANGED <<paytm, leaving>>
  <2>1. inits'[a] = 1 /\ \A b \in Attempts \ {a} : inits'[b] = 0
    BY <1>5 DEF Typed
  <2>2. {b \in Attempts : inits'[b] > 0} = {a}
    BY <2>1
  <2>3. Open' = {a}
    BY <1>5, <2>2 DEF Open
  <2>4. Busy' = {a}
    BY <2>3 DEF Busy
  <2>5. \A b \in Attempts : inits'[b] > 0 => b = a
    BY <2>1
  <2>6. OneOpen'
    BY <1>1, <1>3, <1>5, <2>1, <2>3, <2>5 DEF OneOpen
  <2>7. \A b \in Busy' : Fit(b)'
    BY <1>2, <2>4 DEF Fit
  <2>8. FlagsFit'
    BY <1>5, <2>5, <2>7 DEF FlagsFit
  <2>9. AtRest'
    BY <2>3 DEF AtRest
  <2> QED
    BY <1>1, <1>4, <1>5, <2>4, <2>6, <2>8, <2>9 DEF Calm
<1>6. CASE /\ paytm' = paytm \cup {a} /\ modal' = FALSE /\ UNCHANGED <<inits, leaving>>
  <2>1. {b \in Attempts : inits'[b] > 0} = {} /\ \A b \in Attempts : ~(inits'[b] > 0)
    BY <1>6
  <2>2. Open' = {a}
    BY <1>6, <2>1 DEF Open
  <2>3. Busy' = {a}
    BY <2>2 DEF Busy
  <2>4. OneOpen'
    BY <1>1, <1>3, <2>1, <2>2 DEF OneOpen
  <2>5. \A b \in Busy' : Fit(b)'
    BY <1>2, <2>3 DEF Fit
  <2>6. FlagsFit'
    BY <1>6, <2>1, <2>5 DEF FlagsFit
  <2>7. AtRest'
    BY <2>2 DEF AtRest
  <2> QED
    BY <1>1, <1>4, <1>6, <2>3, <2>4, <2>6, <2>7 DEF Calm
<1>7. CASE Post("gateway", a) /\ modal' = FALSE /\ UNCHANGED <<inits, paytm>>
  <2>1. leaving'.to = "gateway" /\ leaving' # Stay
    BY <1>7 DEF Post, Stay
  <2>2. {b \in Attempts : inits'[b] > 0} = {}
    BY <1>7
  <2>3. Open' = {}
    BY <1>7, <2>2 DEF Open
  <2>4. OneOpen' /\ FlagsFit' /\ Busy' = {}
    BY <2>3, NoneAsked
  <2> QED
    BY <1>1, <1>4, <2>1, <2>4, GoneFrame DEF Calm
<1> QED
  BY <1>5, <1>6, <1>7 DEF Continue

LEMMA CalmGoOn ==
  ASSUME TInv, TInv', CInv, GoOn
  PROVE  CInv'
<1> SUFFICES ASSUME ~touched' PROVE Calm'
  BY DEF CInv
<1>1. /\ touched' = touched /\ "ask" \in messages /\ messages' = messages \ {"ask"} /\ Continue(resp)
      /\ UNCHANGED <<asked, qrButton, kind, image, fromQR, forceStop, handle, timers, ownHandle,
                     polls, noAddress, stopped>>
  BY DEF GoOn, globals, polling, history
<1>2. Typed /\ Typed' /\ Founded /\ Calm
  BY <1>1 DEF TInv, CInv
<1>3. PICK a \in Attempts : a = resp
  BY <1>1, <1>2 DEF Founded, Typed
<1>4. Open = {} /\ Live = {} /\ messages' = {} /\ kind[a] # "none" /\ fromQR = (kind[a] = "qr")
  <2>1. \A n \in messages : n = "ask"
    BY <1>1, <1>2 DEF Calm, OnePopup
  <2> QED
    BY <1>1, <1>2, <1>3, <2>1 DEF Calm, OnePopup, OneOpen, FlagsFit, Typed
<1>5. Busy = {a}
  BY <1>1, <1>3, <1>4 DEF Busy
<1>6. Fit(a)
  BY <1>2, <1>5 DEF Calm, FlagsFit
<1>7. asked' = {} /\ image = Nobody /\ paytm = {} /\ \A b \in Attempts : inits[b] = 0
  <2>1. \A b \in Attempts : ~(inits[b] > 0) /\ inits[b] \in Nat
    BY <1>2, <1>4 DEF Open, Typed
  <2>2. \A b \in Attempts : inits[b] = 0
    BY <2>1
  <2> QED
    BY <1>1, <1>4, <2>2 DEF Open
<1> QED
  BY <1>1, <1>2, <1>3, <1>4, <1>5, <1>6, <1>7, CalmContinue

LEMMA CalmPayNowAnswered ==
  ASSUME TInv, TInv', CInv, NEW a \in Attempts, NEW answer \in PayNowAnswers,
         PayNowAnswered(a, answer)
  PROVE  CInv'
<1> SUFFICES ASSUME ~touched' PROVE Calm'
  BY DEF CInv
<1>1. /\ touched' = touched /\ a \in asked /\ asked' = asked \ {a}
      /\ UNCHANGED <<qrButton, kind, image, fromQR, forceStop, handle, timers, ownHandle, polls,
                     noAddress, stopped>>
  BY DEF PayNowAnswered, polling
<1>2. Typed /\ Typed' /\ Founded /\ Calm
  BY <1>1 DEF TInv, CInv
<1>3. /\ kind[a] # "none" /\ Open = {a} /\ Busy = {a} /\ Live = {} /\ messages = {} /\ Fit(a)
  BY <1>1, <1>2, OpenIs DEF Open
<1>4. /\ asked' = {} /\ image = Nobody /\ paytm = {} /\ \A b \in Attempts : inits[b] = 0
      /\ fromQR = (kind[a] = "qr")
  <2>1. inits[a] = 0 /\ image # a /\ a \notin paytm /\ fromQR = (kind[a] = "qr")
    BY <1>1, <1>2 DEF Calm, OneOpen, FlagsFit
  <2>2. \A b \in Attempts : ~(inits[b] > 0) /\ inits[b] \in Nat
    <3>1. \A b \in Attempts \ {a} : ~(inits[b] > 0)
      BY <1>3 DEF Open
    <3> QED
      BY <1>2, <2>1, <3>1 DEF Typed
  <2>3. \A b \in Attempts : inits[b] = 0
    BY <2>2
  <2>4. asked \subseteq {a} /\ paytm \subseteq {a} /\ {image} \ {Nobody} \subseteq {a}
    BY <1>3 DEF Open
  <2>5. asked' = {} /\ paytm = {} /\ image = Nobody
    BY <1>1, <2>1, <2>4
  <2> QED
    BY <2>1, <2>3, <2>5
<1>5. CASE answer = "go"
  <2>1. Continue(a) /\ messages' = {}
    BY <1>3, <1>5 DEF PayNowAnswered, Messages
  <2> QED
    BY <1>1, <1>2, <1>3, <1>4, <2>1, CalmContinue
<1>6. CASE answer # "go"
  <2>1. /\ modal' = FALSE /\ UNCHANGED <<inits, paytm, leaving>>
        /\ messages' = (IF answer \in Messages THEN {answer} ELSE {})
        /\ (answer \in Messages => black' = TRUE /\ resp' = a)
        /\ (messages' = {} /\ ~trouble' => enabled')
    <3>1. answer \in Messages => answer \notin {"empty", "error"}
      BY DEF Messages
    <3>2. enabled' = (enabled \/ answer \in {"error", "failed"} \cup Messages)
      BY DEF PayNowAnswered
    <3>3. trouble' = (trouble \/ answer \in {"empty", "throws"})
      BY DEF PayNowAnswered
    <3>4. messages' = (IF answer \in Messages THEN {answer} ELSE {})
      BY <1>3 DEF PayNowAnswered
    <3>5. answer \in {"empty", "throws"} \/ answer \in {"error", "failed"} \cup Messages
      BY <1>6 DEF PayNowAnswers
    <3>6. messages' = {} /\ ~trouble' => enabled'
      BY <3>2, <3>3, <3>5
    <3>7. modal' = FALSE /\ UNCHANGED <<inits, paytm, leaving>>
      BY <1>6 DEF PayNowAnswered
    <3>8. answer \in Messages => black' = TRUE /\ resp' = a
      BY <3>1 DEF PayNowAnswered
    <3> QED
      BY <3>4, <3>6, <3>7, <3>8
  <2>2. Open' = {}
    <3>1. {b \in Attempts : inits'[b] > 0} = {}
      BY <1>4, <2>1
    <3> QED
      BY <1>1, <1>4, <2>1, <3>1 DEF Open
  <2>3. "ask" \in messages' => resp' = a
    BY <2>1
  <2>4. Busy' \subseteq {a}
    BY <2>2, <2>3 DEF Busy
  <2>5. Live' = {}
    BY <1>1, <1>3 DEF Live
  <2>6. OneOpen' /\ OneTimer'
    BY <1>2, <2>2, <2>5, NoneOpen DEF OneTimer
  <2>7. OnePopup'
    BY <1>1, <1>3, <2>1, <2>5 DEF OnePopup
  <2>8. FlagsFit'
    <3>1. \A b \in Busy' : Fit(b)'
      BY <1>1, <1>3, <2>4 DEF Fit
    <3>2. paytm' = {} /\ asked' = {} /\ \A b \in Attempts : ~(inits'[b] > 0)
      BY <1>4, <2>1
    <3>3. "ask" \in messages' => fromQR' = (kind'[resp'] = "qr")
      BY <1>1, <1>4, <2>3
    <3> QED
      BY <3>1, <3>2, <3>3 DEF FlagsFit
  <2>9. Ended'
    BY <1>1, <1>2, <1>3, <2>1, <2>4, <2>5, EndedFrame DEF Calm
  <2>10. Watched'
    BY <1>1, <1>2, <1>3, <2>1, <2>5, WatchedFrame DEF Calm
  <2>11. AtRest'
    BY <2>1 DEF AtRest
  <2> QED
    BY <2>6, <2>7, <2>8, <2>9, <2>10, <2>11 DEF Calm
<1> QED
  BY <1>5, <1>6

(* An open attempt is open in one way. *)
LEMMA OneWay ==
  ASSUME Typed, Calm, NEW a \in Open
  PROVE  /\ inits[a] > 0 => inits[a] = 1 /\ asked = {} /\ image = Nobody /\ paytm = {}
         /\ image = a => asked = {} /\ paytm = {} /\ inits[a] = 0
         /\ a \in paytm => asked = {} /\ image = Nobody /\ inits[a] = 0
         /\ \A b \in Attempts \ {a} : inits[b] = 0
         /\ paytm \subseteq {a}
<1>1. Open = {a} /\ a \in Attempts
  BY OpenIs
<1>2. asked \subseteq {a} /\ paytm \subseteq {a} /\ {image} \ {Nobody} \subseteq {a}
  BY <1>1 DEF Open
<1>3. inits[a] \in Nat /\ \A b \in Attempts \ {a} : inits[b] = 0
  <2>1. \A b \in Attempts : inits[b] \in Nat
    BY DEF Typed
  <2>2. \A b \in Attempts \ {a} : ~(inits[b] > 0)
    BY <1>1 DEF Open
  <2> QED
    BY <1>1, <2>1, <2>2
<1>4. a # Nobody
  BY <1>1 DEF Attempts, Nobody
<1>5. /\ a \in asked => inits[a] = 0 /\ image # a /\ a \notin paytm
      /\ inits[a] > 0 => inits[a] = 1 /\ image # a /\ a \notin paytm
      /\ image = a => a \notin paytm
  BY <1>1, <1>4 DEF Calm, OneOpen
<1> QED
  BY <1>1, <1>2, <1>3, <1>4, <1>5

(* The interval of the attempt that was open is the only one. *)
LEMMA CalmStarts ==
  ASSUME Typed, Typed', Founded, Calm, NEW a \in Attempts, NEW given \in BOOLEAN,
         Busy = {a}, Live = {}, messages' = {}, kind[a] # "none",
         Open' = {}, StartTimer(a, given), ~forceStop', modal' \/ ~qrButton', modal' \/ enabled',
         UNCHANGED <<kind, ownHandle, polls, noAddress, leaving, stopped>>
  PROVE  Calm'
<1>1. PICK n \in Attempts :
        /\ handle' = n /\ timers'[n].att = a /\ timers'[n].live
        /\ \A i \in Attempts \ {n} : timers'[i] = timers[i]
  BY StartTimerIs
<1>2. Live' = {n}
  BY <1>1 DEF Live
<1>3. OneOpen' /\ FlagsFit' /\ Busy' = {}
  BY NoneAsked
<1>4. OnePopup' /\ OneTimer'
  BY <1>1, <1>2 DEF OnePopup, OneTimer
<1>5. Ended'
  <2>1. \A i \in Live' : timers'[i].att \in Busy
    BY <1>1, <1>2
  <2> QED
    BY <1>3, <2>1, EndedFrame DEF Calm
<1>6. Watched'
  <2>1. \A i \in Attempts : timers'[i].att = timers[i].att \/ i \in Live'
    BY <1>1, <1>2
  <2> QED
    BY <2>1, WatchedFrame DEF Calm
<1>7. AtRest'
  BY <1>2 DEF AtRest
<1> QED
  BY <1>3, <1>4, <1>5, <1>6, <1>7 DEF Calm

(* The attempt that was open is over. *)
LEMMA CalmCloses ==
  ASSUME Typed, Typed', Calm, NEW a \in Attempts, Busy = {a}, Live = {}, messages' = {},
         kind[a] # "none", Open' = {},
         leaving' = leaving \/ leaving'.to \in {"failed", "gateway"},
         trouble' \/ leaving' # Stay \/ (enabled' /\ ~modal'),
         noAddress' \subseteq noAddress \cup {a},
         UNCHANGED <<kind, timers, ownHandle, polls, stopped>>
  PROVE  Calm'
<1>1. Live' = {}
  BY DEF Live
<1>2. OneOpen' /\ FlagsFit' /\ Busy' = {}
  BY NoneAsked
<1>3. OnePopup' /\ OneTimer'
  BY <1>1 DEF OnePopup, OneTimer
<1>4. Ended'
  <2>1. Spent(a)'
    BY <1>1, <1>2 DEF Spent
  <2> QED
    BY <1>1, <1>2, <2>1, EndedFrame DEF Calm
<1>5. Watched'
  <2>1. leaving' = Stay => leaving = Stay
    BY DEF Stay
  <2> QED
    BY <1>1, <2>1, WatchedFrame DEF Calm
<1>6. AtRest'
  BY DEF AtRest
<1> QED
  BY <1>2, <1>3, <1>4, <1>5, <1>6 DEF Calm

LEMMA CalmInitAnswered ==
  ASSUME TInv, TInv', CInv, NEW a \in Attempts, NEW answer \in InitAnswers,
         NEW given \in BOOLEAN, InitAnswered(a, answer, given)
  PROVE  CInv'
<1> SUFFICES ASSUME ~touched' PROVE Calm'
  BY DEF CInv
<1>1. /\ touched' = touched /\ inits[a] > 0 /\ inits' = [inits EXCEPT ![a] = @ - 1]
      /\ UNCHANGED <<enabled, qrButton, modal, messages, black, kind, asked, paytm, fromQR,
                     forceStop, resp, ownHandle, polls, stopped>>
  BY DEF InitAnswered, screen
<1>2. Typed /\ Typed' /\ Founded /\ Calm
  BY <1>1 DEF TInv, CInv
<1>3. a \in Open
  BY <1>1 DEF Open
<1>4. /\ kind[a] # "none" /\ Open = {a} /\ Busy = {a} /\ Live = {} /\ messages = {} /\ Fit(a)
      /\ a \notin noAddress
  BY <1>2, <1>3, OpenIs
<1>5. /\ inits[a] = 1 /\ asked = {} /\ image = Nobody /\ paytm = {}
      /\ \A b \in Attempts \ {a} : inits[b] = 0
  BY <1>1, <1>2, <1>3, OneWay
<1>6. \A b \in Attempts : inits'[b] = 0 /\ ~(inits'[b] > 0)
  <2>1. inits \in [Attempts -> Nat]
    BY <1>2 DEF Typed
  <2>2. \A b \in Attempts : inits'[b] = 0
    BY <1>1, <1>5, <2>1
  <2> QED
    BY <2>2
<1>7. /\ kind[a] \in {"upi", "qr"} /\ fromQR = (kind[a] = "qr") /\ (~fromQR => modal)
      /\ ~forceStop
  BY <1>1, <1>2, <1>4 DEF Calm, OneOpen, FlagsFit, Fit
<1>8. image' = Nobody => Open' = {}
  <2>1. {b \in Attempts : inits'[b] > 0} = {}
    BY <1>6
  <2> QED
    BY <1>1, <1>5, <2>1 DEF Open
<1>9. CASE fromQR /\ image' = a /\ UNCHANGED <<timers, made, handle, leaving, noAddress, trouble>>
  <2>1. a # Nobody
    BY DEF Attempts, Nobody
  <2>2. {b \in Attempts : inits'[b] > 0} = {}
    BY <1>6
  <2>3. Open' = {a}
    BY <1>1, <1>5, <1>9, <2>1, <2>2 DEF Open
  <2>4. Busy' = {a}
    BY <1>1, <1>4, <2>3 DEF Busy
  <2>5. Live' = {}
    BY <1>4, <1>9 DEF Live
  <2>6. OneOpen'
    <3>1. asked' = {} /\ paytm' = {} /\ kind'[a] = "qr" /\ messages' = {}
      BY <1>1, <1>4, <1>5, <1>7, <1>9
    <3> QED
      BY <1>6, <1>9, <2>3, <2>5, <3>1 DEF OneOpen
  <2>7. OnePopup' /\ OneTimer'
    BY <1>1, <1>4, <2>5 DEF OnePopup, OneTimer
  <2>8. FlagsFit'
    <3>1. \A b \in Busy' : Fit(b)'
      BY <1>1, <1>4, <2>4 DEF Fit
    <3> QED
      BY <1>1, <1>4, <1>5, <1>6, <3>1 DEF FlagsFit
  <2>9. Ended'
    BY <1>1, <1>2, <1>4, <1>9, <2>4, <2>5, EndedFrame DEF Calm
  <2>10. Watched'
    BY <1>1, <1>2, <1>4, <1>9, WatchedFrame DEF Calm
  <2>11. AtRest'
    BY <2>3 DEF AtRest
  <2> QED
    BY <2>6, <2>7, <2>8, <2>9, <2>10, <2>11 DEF Calm
<1>10. CASE /\ ~fromQR /\ StartTimer(a, given)
            /\ UNCHANGED <<image, leaving, noAddress, trouble>>
  <2>1. Open' = {} /\ messages' = {} /\ ~forceStop' /\ modal'
    BY <1>1, <1>4, <1>5, <1>7, <1>8, <1>10
  <2> QED
    BY <1>1, <1>2, <1>4, <1>10, <2>1, CalmStarts
<1>11. CASE /\ UNCHANGED <<image, timers>>
            /\ leaving' = leaving \/ leaving'.to = "failed"
            /\ trouble' \/ leaving' # Stay
            /\ noAddress' \subseteq noAddress \cup {a}
  <2>1. Open' = {} /\ messages' = {}
    BY <1>1, <1>4, <1>5, <1>8, <1>11
  <2> QED
    BY <1>1, <1>2, <1>4, <1>11, <2>1, CalmCloses
<1>12. CASE answer = "no" /\ Post("failed", a) /\ UNCHANGED <<image, timers, noAddress>>
  <2>1. leaving'.to = "failed" /\ leaving' # Stay
    BY <1>12 DEF Post, Stay
  <2> QED
    BY <1>11, <1>12, <2>1
<1>13. CASE answer = "error" /\ ErrorRedirect(a) /\ UNCHANGED <<image, timers>>
  <2>1. leaving'.to = "failed" /\ leaving' # Stay /\ noAddress' = noAddress \cup {a}
    BY <1>4, <1>13 DEF ErrorRedirect, Post, Stay
  <2> QED
    BY <1>11, <1>13, <2>1
<1>14. CASE trouble' = TRUE /\ UNCHANGED <<image, timers, leaving, noAddress>>
  BY <1>11, <1>14
<1> QED
  BY <1>9, <1>10, <1>12, <1>13, <1>14 DEF InitAnswered

LEMMA CalmImage ==
  ASSUME TInv, TInv', CInv, ImageFails \/ \E given \in BOOLEAN : ImageLoaded(given)
  PROVE  CInv'
<1> SUFFICES ASSUME ~touched' PROVE Calm'
  BY DEF CInv
<1>1. /\ touched' = touched /\ image # Nobody /\ image' = Nobody
      /\ UNCHANGED <<qrButton, modal, messages, black, kind, asked, inits, paytm, fromQR,
                     forceStop, ownHandle, polls, noAddress, leaving, stopped>>
  BY DEF ImageFails, ImageLoaded, screen, globals, polling, exits, history
<1>2. Typed /\ Typed' /\ Founded /\ Calm
  BY <1>1 DEF TInv, CInv
<1>3. PICK a \in Attempts : a = image
  BY <1>1, <1>2 DEF Typed
<1>4. a \in Open
  BY <1>1, <1>3 DEF Open
<1>5. /\ kind[a] # "none" /\ Busy = {a} /\ Live = {} /\ messages = {} /\ Fit(a)
  BY <1>2, <1>4, OpenIs
<1>6. asked = {} /\ paytm = {} /\ \A b \in Attempts : inits[b] = 0
  BY <1>2, <1>3, <1>4, OneWay
<1>7. Open' = {}
  <2>1. {b \in Attempts : inits'[b] > 0} = {}
    BY <1>1, <1>6
  <2> QED
    BY <1>1, <1>6, <2>1 DEF Open
<1>8. CASE ImageFails
  BY <1>1, <1>2, <1>5, <1>7, <1>8, CalmCloses DEF ImageFails, polling
<1>9. ASSUME NEW given \in BOOLEAN, ImageLoaded(given) PROVE Calm'
  <2>1. StartTimer(a, given) /\ enabled' = TRUE
    BY <1>3, <1>9 DEF ImageLoaded
  <2>2. ~qrButton' /\ ~forceStop'
    <3>1. kind[a] = "qr"
      BY <1>1, <1>2, <1>3 DEF Calm, OneOpen
    <3> QED
      BY <1>1, <1>5, <3>1 DEF Fit
  <2> QED
    BY <1>1, <1>2, <1>5, <1>7, <2>1, <2>2, CalmStarts
<1> QED
  BY <1>8, <1>9

LEMMA NothingOpen ==
  ASSUME \A b \in Attempts : inits[b] = 0, inits' = inits,
         asked' = {}, image' = Nobody, paytm' = {}
  PROVE  Open' = {}
<1>1. {b \in Attempts : inits'[b] > 0} = {}
  OBVIOUS
<1> QED
  BY <1>1 DEF Open

LEMMA CalmPaytmEnds ==
  ASSUME TInv, TInv', CInv, NEW a \in Attempts, NEW how \in {"closed", "done", "not loaded"},
         PaytmEnds(a, how)
  PROVE  CInv'
<1> SUFFICES ASSUME ~touched' PROVE Calm'
  BY DEF CInv
<1>1. /\ touched' = touched /\ a \in paytm /\ paytm' = paytm \ {a}
      /\ UNCHANGED <<qrButton, modal, messages, black, kind, asked, inits, image, timers,
                     ownHandle, polls, noAddress, stopped>>
  BY DEF PaytmEnds, globals, polling
<1>2. Typed /\ Typed' /\ Founded /\ Calm
  BY <1>1 DEF TInv, CInv
<1>3. a \in Open
  BY <1>1 DEF Open
<1>4. kind[a] # "none" /\ Busy = {a} /\ Live = {} /\ messages = {}
  BY <1>2, <1>3, OpenIs
<1>5. asked = {} /\ image = Nobody /\ paytm' = {} /\ \A b \in Attempts : inits[b] = 0
  BY <1>1, <1>2, <1>3, OneWay
<1>6. Open' = {}
  <2>1. inits' = inits /\ asked' = {} /\ image' = Nobody
    BY <1>1, <1>5
  <2> QED
    BY <1>5, <2>1, NothingOpen
<1>7. ~modal'
  BY <1>1, <1>2 DEF Calm, FlagsFit
<1>8. /\ leaving' = leaving \/ leaving'.to \in {"failed", "gateway"}
      /\ trouble' \/ leaving' # Stay \/ (enabled' /\ ~modal')
  <2>1. CASE how = "closed"
    <3>1. enabled' /\ UNCHANGED leaving
      BY <2>1 DEF PaytmEnds
    <3> QED
      BY <1>7, <3>1
  <2>2. CASE how = "done"
    BY <2>2 DEF PaytmEnds, Post, Stay
  <2>3. CASE how = "not loaded"
    <3>1. trouble' /\ UNCHANGED leaving
      BY <2>3 DEF PaytmEnds
    <3> QED
      BY <3>1
  <2> QED
    BY <2>1, <2>2, <2>3
<1> QED
  BY <1>1, <1>2, <1>4, <1>6, <1>8, CalmCloses

(* The one live interval: it goes on, or its time is over. *)
LEMMA CalmTick ==
  ASSUME TInv, TInv', CInv, NEW i \in Attempts, Tick(i)
  PROVE  CInv'
<1> SUFFICES ASSUME ~touched' PROVE Calm'
  BY DEF CInv
<1>1. /\ touched' = touched /\ i \in Live
      /\ UNCHANGED <<enabled, qrButton, modal, messages, black, kind, asked, inits, image, paytm,
                     forceStop, resp, handle, stopped, trouble>>
  BY DEF Tick, Live, screen, calls, history
<1>2. Typed /\ Typed' /\ Founded /\ Calm
  BY <1>1 DEF TInv, CInv
<1>3. PICK a \in Attempts : a = timers[i].att
  BY <1>1, <1>2, LiveIs
<1>4. /\ i = handle /\ Live = {i} /\ kind[a] # "none" /\ Open = {} /\ messages = {} /\ Busy = {}
      /\ a \notin stopped /\ a \notin noAddress /\ ~forceStop
  BY <1>1, <1>2, <1>3, LiveIs DEF Calm, OneTimer
<1>5. Open' = {} /\ messages' = {}
  BY <1>1, <1>4 DEF Open
<1>6. OneOpen' /\ FlagsFit' /\ Busy' = {}
  BY <1>2, <1>5, NoneAsked
<1>7. OnePopup'
  BY <1>5 DEF OnePopup
<1>8. \A k \in Attempts : timers'[k].att = timers[k].att
  BY <1>2, TickIs
<1> DEFINE now == [timers EXCEPT ![i].age = Older(@)]
<1>9. CASE timers' = Cleared(now, handle) /\ UNCHANGED <<ownHandle, polls>> /\ ErrorRedirect(a)
  <2>1. Live' = {}
    <3>1. \A k \in Attempts : now[k].live = timers[k].live
      BY <1>2 DEF Typed, Timer
    <3>2. \A k \in Attempts : timers'[k].live => timers[k].live /\ k # handle
      BY <1>2, <1>9, <3>1 DEF Cleared, Typed, Timer
    <3> QED
      BY <1>4, <3>2 DEF Live
  <2>2. leaving'.to = "failed" /\ leaving' # Stay /\ noAddress' = noAddress \cup {a}
    BY <1>4, <1>9 DEF ErrorRedirect, Post, Stay
  <2>3. Spent(a)'
    BY <1>1, <1>4, <1>6, <2>1 DEF Spent
  <2>4. Ended'
    BY <1>1, <1>2, <1>6, <1>9, <2>1, <2>2, <2>3, EndedFrame DEF Calm
  <2>5. OneTimer'
    BY <2>1 DEF OneTimer
  <2> QED
    BY <1>6, <1>7, <2>2, <2>4, <2>5, GoneFrame DEF Calm
<1>10. CASE /\ timers' = now /\ ownHandle' = [ownHandle EXCEPT ![a] = handle]
            /\ polls' = [polls EXCEPT ![a] = IF @ < MaxPolls THEN @ + 1 ELSE @]
            /\ UNCHANGED <<leaving, noAddress>>
  <2>1. \A k \in Attempts : timers'[k].live = timers[k].live
    BY <1>2, <1>10 DEF Typed, Timer
  <2>2. Live' = {i}
    BY <1>4, <2>1 DEF Live
  <2>3. OneTimer'
    BY <1>1, <1>2, <1>4, <1>8, <2>2 DEF Calm, OneTimer
  <2>4. Ended'
    <3>1. ASSUME NEW b, Spent(b) PROVE Spent(b)'
      BY <1>1, <1>4, <1>6, <1>8, <2>2, <3>1 DEF Spent
    <3>2. \A b \in noAddress' \cup stopped' : Spent(b)'
      BY <1>1, <1>2, <1>10, <3>1 DEF Calm, Ended
    <3>3. leaving'.to = "success" => Spent(leaving.att)'
      <4>1. ASSUME NEW b, b = leaving.att, leaving.to = "success" PROVE Spent(b)'
        BY <1>2, <3>1, <4>1 DEF Calm, Ended
      <4> QED
        BY <1>10, <4>1 DEF Spent
    <3>4. leaving'.to # "nowhere"
      BY <1>2, <1>10 DEF Calm, Ended
    <3>5. ASSUME NEW b \in Attempts, polls'[b] > 0
          PROVE  /\ kind'[b] # "none" /\ b \notin Busy'
                 /\ \A k \in Live' : timers'[k].att = b => ownHandle'[b] = k
      <4>1. CASE b = a
        <5>1. ownHandle'[a] = i
          BY <1>2, <1>4, <1>10 DEF Typed
        <5> QED
          BY <1>1, <1>4, <1>6, <2>2, <4>1, <5>1
      <4>2. CASE b # a
        <5>1. polls[b] > 0
          BY <1>2, <1>10, <3>5, <4>2 DEF Typed
        <5>2. kind[b] # "none"
          BY <1>2, <5>1 DEF Calm, Ended
        <5>3. timers'[i].att # b
          BY <1>3, <1>8, <4>2
        <5> QED
          BY <1>1, <1>6, <2>2, <5>2, <5>3
      <4> QED
        BY <4>1, <4>2
    <3> QED
      BY <3>2, <3>3, <3>4, <3>5 DEF Ended
  <2>5. Watched'
    BY <1>1, <1>2, <1>4, <1>8, <1>10, <2>2, WatchedFrame DEF Calm
  <2>6. AtRest'
    BY <2>2 DEF AtRest
  <2> QED
    BY <1>6, <1>7, <2>3, <2>4, <2>5, <2>6 DEF Calm
<1> QED
  BY <1>3, <1>4, <1>9, <1>10 DEF Tick

LEMMA CalmPollComplete ==
  ASSUME TInv, TInv', CInv, NEW a \in Attempts, PollComplete(a)
  PROVE  CInv'
<1> SUFFICES ASSUME ~touched' PROVE Calm'
  BY DEF CInv
<1>1. /\ touched' = touched /\ polls[a] > 0 /\ polls' = [polls EXCEPT ![a] = @ - 1]
      /\ timers' = Cleared(timers, ownHandle[a]) /\ Post("success", a)
      /\ UNCHANGED <<enabled, qrButton, modal, messages, black, kind, asked, inits, image, paytm,
                     fromQR, forceStop, resp, handle, ownHandle, stopped, noAddress>>
  BY DEF PollComplete, screen, calls, globals, history
<1>2. Typed /\ Typed' /\ Founded /\ Calm
  BY <1>1 DEF TInv, CInv
<1>3. \A k \in Attempts : /\ timers'[k].att = timers[k].att
                         /\ timers'[k].live = (timers[k].live /\ k # ownHandle[a])
  BY <1>1, <1>2, ClearedTyped DEF Typed
<1>4. Live' \subseteq Live /\ \A k \in Live' : k # ownHandle[a]
  BY <1>3 DEF Live
<1>5. Open' = Open
  BY <1>1 DEF Open
<1>6. Busy' = Busy
  BY <1>1, <1>5 DEF Busy
<1>7. OneOpen' /\ OnePopup' /\ FlagsFit'
  BY <1>1, <1>2, <1>4, <1>5, <1>6 DEF Calm, OneOpen, OnePopup, FlagsFit, Fit
<1>8. OneTimer'
  <2>1. Live' \subseteq Attempts
    BY DEF Live
  <2>2. \A k \in Live' : kind'[timers'[k].att] # "none"
    BY <1>1, <1>2, <1>3, <1>4, <2>1 DEF Calm, OneTimer
  <2> QED
    BY <1>1, <1>2, <1>4, <2>2 DEF Calm, OneTimer
<1>9. leaving'.to = "success" /\ leaving'.att = a /\ leaving' # Stay
  BY <1>1 DEF Post, Stay
<1>10. Ended'
  <2>1. Live' \subseteq Attempts
    BY DEF Live
  <2>2. ASSUME NEW b, Spent(b) PROVE Spent(b)'
    BY <1>1, <1>3, <1>4, <1>6, <2>1, <2>2 DEF Spent
  <2>3. \A b \in noAddress' \cup stopped' : Spent(b)'
    BY <1>1, <1>2, <2>2 DEF Calm, Ended
  <2>4. kind[a] # "none" /\ a \notin Busy /\ \A k \in Live : timers[k].att = a => ownHandle[a] = k
    BY <1>1, <1>2 DEF Calm, Ended
  <2>5. Spent(a)'
    BY <1>1, <1>3, <1>4, <1>6, <2>1, <2>4 DEF Spent
  <2>6. Spent(leaving.att)'
    BY <1>9, <2>5 DEF Spent
  <2>7. ASSUME NEW b \in Attempts, polls'[b] > 0
        PROVE  /\ kind'[b] # "none" /\ b \notin Busy'
               /\ \A k \in Live' : timers'[k].att = b => ownHandle'[b] = k
    <3>1. polls[b] > 0
      <4>1. polls \in [Attempts -> 0..MaxPolls]
        BY <1>2 DEF Typed
      <4>2. polls[b] \in Nat /\ polls[a] \in Nat
        BY <4>1
      <4>3. polls'[b] = IF b = a THEN polls[a] - 1 ELSE polls[b]
        BY <1>1, <4>1
      <4> QED
        BY <1>1, <2>7, <4>2, <4>3
    <3>2. kind[b] # "none" /\ b \notin Busy /\ \A k \in Live : timers[k].att = b => ownHandle[b] = k
      BY <1>2, <3>1 DEF Calm, Ended
    <3> QED
      BY <1>1, <1>3, <1>4, <1>6, <2>1, <3>2
  <2> QED
    BY <1>9, <2>3, <2>6, <2>7 DEF Ended
<1> QED
  BY <1>7, <1>8, <1>9, <1>10, GoneFrame DEF Calm

LEMMA CalmPollPending ==
  ASSUME TInv, TInv', CInv, NEW a \in Attempts, PollPending(a)
  PROVE  CInv'
<1> SUFFICES ASSUME ~touched' PROVE Calm'
  BY DEF CInv
<1>1. /\ touched' = touched /\ polls[a] > 0 /\ polls' = [polls EXCEPT ![a] = @ - 1]
      /\ UNCHANGED <<enabled, qrButton, modal, messages, black, kind, asked, inits, image, paytm,
                     fromQR, forceStop, resp, handle, timers, ownHandle, stopped, noAddress, leaving,
                     trouble>>
  BY DEF PollPending, screen, calls, globals, history, exits
<1>2. Typed /\ Typed' /\ Founded /\ Calm
  BY <1>1 DEF TInv, CInv
<1>3. Live' = Live /\ Open' = Open
  BY <1>1 DEF Live, Open
<1>4. Busy' = Busy
  BY <1>1, <1>3 DEF Busy
<1>5. OneOpen' /\ OnePopup' /\ OneTimer' /\ FlagsFit' /\ Watched' /\ AtRest'
  BY <1>1, <1>2, <1>3, <1>4
     DEF Calm, OneOpen, OnePopup, OneTimer, FlagsFit, Fit, Watched, AtRest
<1>6. \A b \in Attempts : polls'[b] > 0 => polls[b] > 0
  <2>1. polls \in [Attempts -> 0..MaxPolls]
    BY <1>2 DEF Typed
  <2>2. \A b \in Attempts : polls[b] \in Nat
    BY <2>1
  <2>3. \A b \in Attempts : polls'[b] = IF b = a THEN polls[a] - 1 ELSE polls[b]
    BY <1>1, <2>1
  <2> QED
    BY <1>1, <2>2, <2>3
<1>7. Ended'
  BY <1>1, <1>2, <1>3, <1>4, <1>6, EndedFrame DEF Calm
<1> QED
  BY <1>5, <1>7 DEF Calm

LEMMA CInvStep == TInv /\ TInv' /\ CInv /\ [Next]_vars => CInv'
<1> SUFFICES ASSUME TInv, TInv', CInv, [Next]_vars PROVE CInv'
  OBVIOUS
<1>1. CASE User
  <2>1. CASE (\E o \in Offered : ChangeOption(o)) \/ Close
    BY <2>1, CalmStill DEF ChangeOption, Close, screen, calls, globals, polling, exits, history
  <2> QED
    BY <1>1, <2>1, CalmPayNow, CalmShowQR, CalmChangeAmount, CalmGoOn, CalmBack DEF User
<1>2. CASE Answers
  <2>1. CASE (\E a \in Attempts : CustomerPays(a)) \/ Unload
    BY <2>1, CalmStill DEF CustomerPays, Unload, screen, calls, globals, polling, exits, history
  <2> QED
    BY <1>2, <2>1, CalmPayNowAnswered, CalmInitAnswered, CalmImage, CalmPaytmEnds, CalmTick,
       CalmPollComplete, CalmPollPending DEF Answers
<1>3. CASE Gone \/ UNCHANGED vars
  BY <1>3, CalmStill DEF Gone, vars, screen, calls, globals, polling, exits, history
<1> QED
  BY <1>1, <1>2, <1>3 DEF Next

(* The attempt an interval was made for never changes. *)
LEMMA AttsStay ==
  ASSUME TInv, [Next]_vars
  PROVE  \A i \in Attempts : timers[i].att # Nobody => timers'[i].att = timers[i].att
<1>1. Typed /\ Founded
  BY DEF TInv
<1>2. ASSUME NEW a \in Attempts, NEW given \in BOOLEAN, StartTimer(a, given)
      PROVE  \A i \in Attempts : timers[i].att # Nobody => timers'[i].att = timers[i].att
  BY <1>1, <1>2, StartTimerIs
<1>3. CASE UNCHANGED timers
  BY <1>3
<1>4. CASE StopPolling
  BY <1>1, <1>4, StopTyped
<1>5. CASE User
  <2>1. ASSUME NEW valid \in BOOLEAN, PayNow(valid)
        PROVE  StopPolling \/ UNCHANGED timers
    BY <2>1 DEF PayNow
  <2>2. ASSUME NEW stops \in BOOLEAN, NEW shows \in BOOLEAN, ChangeAmount(stops, shows)
        PROVE  StopPolling \/ UNCHANGED timers
    BY <2>2 DEF ChangeAmount
  <2>3. ShowQR \/ (\E o \in Offered : ChangeOption(o)) \/ GoOn
          \/ (\E m \in Messages : GoBack(m) \/ LeaveBy(m)) \/ Close => UNCHANGED timers
    BY DEF ShowQR, ChangeOption, GoOn, GoBack, LeaveBy, Close, polling
  <2> QED
    BY <1>3, <1>4, <1>5, <2>1, <2>2, <2>3 DEF User
<1>6. CASE Answers
  <2>1. ASSUME NEW a \in Attempts, NEW answer \in InitAnswers, NEW given \in BOOLEAN,
               InitAnswered(a, answer, given)
        PROVE  StartTimer(a, given) \/ UNCHANGED timers
    BY <2>1 DEF InitAnswered
  <2>2. ASSUME NEW given \in BOOLEAN, ImageLoaded(given)
        PROVE  image \in Attempts /\ StartTimer(image, given)
    BY <1>1, <2>2 DEF ImageLoaded, Typed
  <2>3. ASSUME NEW i \in Attempts, Tick(i)
        PROVE  \A k \in Attempts : timers'[k].att = timers[k].att
    BY <1>1, <2>3, TickIs
  <2>4. ASSUME NEW a \in Attempts, PollComplete(a)
        PROVE  \A k \in Attempts : timers'[k].att = timers[k].att
    BY <1>1, <2>4, ClearedTyped DEF PollComplete, Typed
  <2>5. \/ \E a \in Attempts, answer \in PayNowAnswers : PayNowAnswered(a, answer)
        \/ ImageFails
        \/ \E a \in Attempts, how \in {"closed", "done", "not loaded"} : PaytmEnds(a, how)
        \/ \E a \in Attempts : PollPending(a) \/ CustomerPays(a)
        \/ Unload
        => UNCHANGED timers
    BY DEF PayNowAnswered, ImageFails, PaytmEnds, PollPending, CustomerPays, Unload, polling
  <2> QED
    BY <1>2, <1>3, <1>6, <2>1, <2>2, <2>3, <2>4, <2>5 DEF Answers
<1>7. CASE Gone \/ UNCHANGED vars
  BY <1>7 DEF Gone, vars, polling
<1> QED
  BY <1>5, <1>6, <1>7 DEF Next

(* A payment is made only for an attempt that was polled for. *)
PaidFounded == \A a \in paid : \E i \in Attempts : timers[i].att = a

LEMMA PaidStep ==
  ASSUME TInv, PaidFounded, [Next]_vars
  PROVE  PaidFounded'
<1>1. \A i \in Attempts : timers[i].att # Nobody => timers'[i].att = timers[i].att
  BY AttsStay
<1>2. ASSUME NEW a \in paid'
      PROVE  a \in paid \/ \E i \in Attempts : timers[i].att = a
  <2>1. CASE \E b \in Attempts : CustomerPays(b)
    BY <1>2, <2>1 DEF CustomerPays
  <2>2. CASE UNCHANGED paid
    BY <1>2, <2>2
  <2>3. CASE User
    BY <2>2, <2>3 DEF User, PayNow, ShowQR, ChangeOption, ChangeAmount, GoOn, GoBack, LeaveBy, Close,
                      history
  <2>4. CASE Answers
    BY <2>1, <2>2, <2>4 DEF Answers, PayNowAnswered, InitAnswered, ImageLoaded, ImageFails, PaytmEnds,
                            Tick, PollComplete, PollPending, Unload, history
  <2>5. CASE Gone \/ UNCHANGED vars
    BY <2>2, <2>5 DEF Gone, vars, history
  <2> QED
    BY <2>3, <2>4, <2>5 DEF Next
<1>3. \A a \in paid' : a \in Attempts
  BY TInvStep DEF TInv, Typed
<1> QED
  BY <1>1, <1>2, <1>3 DEF PaidFounded, Attempts, Nobody

------------------------------------------------------------------------------
(* The theorems. *)

IInv == TInv /\ CInv /\ PaidFounded

LEMMA IInvInit == Init => IInv
<1>1. Init => PaidFounded
  BY DEF Init, PaidFounded
<1> QED
  BY <1>1, TInvInit, CalmInit DEF IInv

LEMMA IInvStep == IInv /\ [Next]_vars => IInv'
BY TInvStep, CInvStep, PaidStep DEF IInv

LEMMA Invariant == Spec => []IInv
BY IInvInit, IInvStep, PTL DEF Spec

(* While every press waits for the attempt before it, the globals resp,    *)
(* payNowCallFromQRCode and pollPayStatInterval suffice: one attempt is    *)
(* open at a time, the one live interval is the one that can be cleared,   *)
(* and the flag tells whether the attempt is a QR code's.                  *)
THEOREM GlobalsAreEnough == Spec => []GlobalsSuffice
<1>1. IInv => GlobalsSuffice
  <2> SUFFICES ASSUME IInv, ~touched PROVE GlobalsSuffice
    BY DEF GlobalsSuffice
  <2>1. Typed /\ Calm
    BY DEF IInv, TInv, CInv
  <2>2. Cardinality(Open) <= 1
    <3>1. CASE Open = {}
      BY <3>1, FS_EmptySet
    <3>2. CASE Open # {}
      <4>1. PICK a : Open = {a}
        BY <2>1, <3>2 DEF Calm, OneOpen
      <4>2. Cardinality({a}) = 1
        BY FS_Singleton
      <4> QED
        BY <4>1, <4>2
    <3> QED
      BY <3>1, <3>2
  <2>3. Live \subseteq {handle}
    BY <2>1 DEF Calm, OneTimer
  <2>4. \A a \in asked \cup {b \in Attempts : inits[b] > 0} : fromQR = (kind[a] = "qr")
    BY <2>1 DEF Calm, FlagsFit, Typed
  <2> QED
    BY <2>2, <2>3, <2>4 DEF GlobalsSuffice
<1> QED
  BY <1>1, Invariant, PTL

(* handleErrorRedirect does not take the address out of a map that has lost*)
(* it already, unless a press came while an attempt was open.              *)
THEOREM NeverToNowhere == Spec => []NeverNowhere
<1>1. IInv => NeverNowhere
  BY DEF IInv, CInv, Calm, Ended, NeverNowhere
<1> QED
  BY <1>1, Invariant, PTL

(* A page at rest can be used: neither the popup nor a disabled Pay Now is *)
(* left over, unless an answer was dropped or a press came too early.      *)
THEOREM StuckExplained == Spec => []StuckIsExplained
<1>1. IInv => StuckIsExplained
  BY DEF IInv, TInv, Typed, CInv, Calm, AtRest, StuckIsExplained, Idle
<1> QED
  BY <1>1, Invariant, PTL

(* A payment the customer has made is looked for as long as the page stays,*)
(* unless the user gave it up.                                             *)
THEOREM PaidWatched == Spec => []PaidIsWatched
<1>1. IInv => PaidIsWatched
  <2> SUFFICES ASSUME IInv, NEW a \in paid, leaving = Stay, ~touched, a \notin stopped
               PROVE  \E i \in Live : timers[i].att = a
    BY DEF PaidIsWatched
  <2>1. PICK i \in Attempts : timers[i].att = a
    BY DEF IInv, PaidFounded
  <2>2. a # Nobody
    BY DEF IInv, TInv, Typed, Attempts, Nobody
  <2> QED
    BY <2>1, <2>2 DEF IInv, CInv, Calm, Watched
<1> QED
  BY <1>1, Invariant, PTL

(* Only a call that initiates a payment, or a tick, fails a payment; both  *)
(* are over for a payment that is on its way to the success page.          *)
THEOREM SuccessStays == Spec => SuccessIsTheLastWord
<1> DEFINE Kept == leaving.to = "success" /\ leaving'.to \in {"failed", "nowhere"}
                     => touched \/ leaving'.att # leaving.att
<1>1. ASSUME IInv, [Next]_vars PROVE Kept
  <2> SUFFICES ASSUME leaving.to = "success", leaving'.to \in {"failed", "nowhere"}, ~touched
               PROVE  leaving'.att # leaving.att
    OBVIOUS
  <2>1. Typed /\ Founded /\ Calm /\ Spent(leaving.att)
    BY <1>1 DEF IInv, TInv, CInv, Calm, Ended
  <2>2. ASSUME NEW a \in Attempts, NEW answer \in InitAnswers, NEW given \in BOOLEAN,
               InitAnswered(a, answer, given)
        PROVE  leaving'.att = a /\ a \in Open
    BY <2>2 DEF InitAnswered, ErrorRedirect, Post, Open
  <2>3. ASSUME NEW i \in Attempts, Tick(i)
        PROVE  leaving'.att = timers[i].att /\ i \in Live
    BY <2>3 DEF Tick, ErrorRedirect, Post, Live
  <2>4. ASSUME NEW a, Continue(a) PROVE FALSE
    BY <2>4 DEF Continue, Post
  <2>5. CASE UNCHANGED leaving
    BY <2>5
  <2>6. CASE User
    BY <2>4, <2>5, <2>6 DEF User, PayNow, ShowQR, ChangeOption, ChangeAmount, GoOn, GoBack, LeaveBy,
                            Close, Post, exits
  <2>7. CASE Answers
    <3>1. CASE \E a \in Attempts, answer \in PayNowAnswers : PayNowAnswered(a, answer)
      BY <2>4, <2>5, <3>1 DEF PayNowAnswered
    <3>2. CASE \E a \in Attempts, answer \in InitAnswers, given \in BOOLEAN :
                 InitAnswered(a, answer, given)
      BY <2>1, <2>2, <3>2 DEF Spent, Busy
    <3>3. CASE \E i \in Attempts : Tick(i)
      BY <2>1, <2>3, <3>3 DEF Spent
    <3>4. ASSUME NEW a \in Attempts, NEW how, PaytmEnds(a, how)
          PROVE  leaving'.att # leaving.att
      <4>1. CASE Post("gateway", a)
        BY <4>1 DEF Post
      <4>2. CASE UNCHANGED leaving
        BY <4>2
      <4> QED
        BY <3>4, <4>1, <4>2 DEF PaytmEnds
    <3>5. CASE \E a \in Attempts : PollComplete(a)
      BY <3>5 DEF PollComplete, Post
    <3> QED
      BY <2>5, <2>7, <3>1, <3>2, <3>3, <3>4, <3>5
         DEF Answers, ImageLoaded, ImageFails, PollPending, CustomerPays, Unload, exits
  <2>8. CASE Gone \/ UNCHANGED vars
    BY <2>5, <2>8 DEF Gone, vars, exits
  <2> QED
    BY <1>1, <2>6, <2>7, <2>8 DEF Next
<1> QED
  BY <1>1, Invariant, PTL DEF Spec, SuccessIsTheLastWord

(* Only the tick of a live interval polls, and no interval of a payment the*)
(* user has given up is live.                                              *)
THEOREM GivenUpStays == Spec => GivenUpIsNotPolled
<1> DEFINE Kept == \A a \in Attempts : polls'[a] > polls[a] => a \notin stopped \/ touched
<1>1. ASSUME IInv, [Next]_vars PROVE Kept
  <2> SUFFICES ASSUME NEW a \in Attempts, polls'[a] > polls[a], ~touched
               PROVE  a \notin stopped
    OBVIOUS
  <2>1. Typed /\ Founded /\ Calm
    BY <1>1 DEF IInv, TInv, CInv
  <2>2. polls \in [Attempts -> 0..MaxPolls] /\ \A b \in Attempts : polls[b] \in Nat
    <3>1. polls \in [Attempts -> 0..MaxPolls]
      BY <2>1 DEF Typed
    <3> QED
      BY <3>1
  <2>3. CASE UNCHANGED polls
    BY <2>2, <2>3
  <2>4. ASSUME NEW b \in Attempts, polls' = [polls EXCEPT ![b] = @ - 1] PROVE FALSE
    BY <2>2, <2>4
  <2>5. ASSUME NEW i \in Attempts, Tick(i), ~UNCHANGED polls
        PROVE  a = timers[i].att /\ i \in Live
    <3>1. polls' = [polls EXCEPT ![timers[i].att] = IF @ < MaxPolls THEN @ + 1 ELSE @]
      BY <2>5 DEF Tick
    <3>2. \A b \in Attempts : b # timers[i].att => polls'[b] = polls[b]
      BY <2>2, <3>1
    <3> QED
      BY <2>2, <2>5, <3>2 DEF Tick, Live
  <2>6. CASE User
    BY <2>3, <2>6 DEF User, PayNow, ShowQR, ChangeOption, ChangeAmount, GoOn, GoBack, LeaveBy, Close,
                      polling
  <2>7. CASE Answers
    <3>1. CASE \E i \in Attempts : Tick(i)
      BY <2>1, <2>3, <2>5, <3>1, LiveIs
    <3>2. CASE \E b \in Attempts : PollComplete(b) \/ PollPending(b)
      BY <2>4, <3>2 DEF PollComplete, PollPending
    <3> QED
      BY <2>3, <2>7, <3>1, <3>2
         DEF Answers, PayNowAnswered, InitAnswered, ImageLoaded, ImageFails, PaytmEnds, CustomerPays,
             Unload, polling
  <2>8. CASE Gone \/ UNCHANGED vars
    BY <2>3, <2>8 DEF Gone, vars, polling
  <2> QED
    BY <1>1, <2>6, <2>7, <2>8 DEF Next
<1> QED
  BY <1>1, Invariant, PTL DEF Spec, GivenUpIsNotPolled
==============================================================================
