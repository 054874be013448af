------------------------------- MODULE TabsProofs -------------------------------
(***************************************************************************)
(* Of a browser tab, for every value of the constants: the consent that the *)
(* server has was given, a break warning reaches whoever can be reached,   *)
(* and the tab shows the page of the room's phase, under its own address.  *)
(***************************************************************************)
EXTENDS MCTabs, FiniteSetTheorems, SequenceTheorems, TLAPS

-----------------------------------------------------------------------------
(* Consent *)

\* Who is on the way to be logged in, with a consent, came back while it stood.
WaysGiven ==
  /\ sending # None => sending.as \in given /\ (sending.pc = "ok" => sending.as \in agreed)
  /\ mail # None => popup /\ mail \in given

\* A popup reaches Google only behind the button, which tells the opener.
PopupGiven ==
  popup => /\ departing \/ ahead \/ window = "google" => stands
           /\ back # None => back \in given
           /\ undisturbed => readied /\ opener /\ window # "callback"

\* A tab may come back to Google by the browser's forward button: what it has
\* stored is what its boxes say, and they decide.
TabGiven ==
  ~popup => /\ (departing \/ window = "google") /\ pending = "all" => stands
            /\ back # None => window = "callback" /\ (pending = "all" => back \in given)
            /\ sending # None => window = "callback" /\ back = None
            /\ undisturbed => /\ window = "terms" => departing
                              /\ window # "text"
                              /\ window # "closed" => pending = "all"
            /\ opener

\* What the boxes say is what is stored.
BoxesStored == window # "closed" => boxes = pending

\* The inductive invariant.
GivenInv ==
  /\ C!ConsentTypeOK /\ WaysGiven /\ PopupGiven /\ TabGiven /\ BoxesStored
  /\ C!AgreedGiven /\ C!LoggedInAgreed

LEMMA TermsStart == C!Init => GivenInv
BY DEF C!Init, GivenInv, C!ConsentTypeOK, C!Boxes, WaysGiven, PopupGiven, TabGiven, BoxesStored,
       C!AgreedGiven, C!LoggedInAgreed

LEMMA TermsKeep ==
  ASSUME GivenInv,
         C!Begin \/ C!Toggle \/ C!ReadText \/ C!ReturnToTerms \/ C!Reload \/ C!Leave \/ C!Arrive
  PROVE  GivenInv'
<1> USE DEF GivenInv, C!ConsentTypeOK, C!Boxes, WaysGiven, PopupGiven, TabGiven, BoxesStored,
            C!AgreedGiven, C!LoggedInAgreed, C!Shows, C!Stands, C!login, C!page, C!past
<1>1. CASE C!Begin
  BY <1>1 DEF C!Begin
<1>2. CASE C!Toggle
  <2>0. PICK choice \in C!Boxes \ {boxes} :
                    C!Toggle /\ C!Shows(choice) /\ C!Stands(departing /\ choice = "all")
    BY <1>2 DEF C!Toggle
  <2>1. C!ConsentTypeOK'
    BY <2>0, ZenonT(60) DEF C!Toggle
  <2>2. WaysGiven'
    BY <2>0 DEF C!Toggle
  <2>3. PopupGiven'
    BY <2>0 DEF C!Toggle
  <2>4. TabGiven'
    BY <2>0 DEF C!Toggle
  <2>5. BoxesStored' /\ C!AgreedGiven'
    BY <2>0 DEF C!Toggle
  <2>6. C!LoggedInAgreed'
    BY <2>0 DEF C!Toggle
  <2> QED BY <2>1, <2>2, <2>3, <2>4, <2>5, <2>6
<1>3. CASE C!ReadText
  <2>1. C!ConsentTypeOK'
    BY <1>3 DEF C!ReadText
  <2>2. WaysGiven' /\ PopupGiven'
    BY <1>3 DEF C!ReadText
  <2>3. TabGiven'
    BY <1>3 DEF C!ReadText
  <2>4. BoxesStored' /\ C!AgreedGiven' /\ C!LoggedInAgreed'
    BY <1>3 DEF C!ReadText
  <2> QED BY <2>1, <2>2, <2>3, <2>4
<1>4. CASE C!ReturnToTerms
  <2>1. C!ConsentTypeOK'
    BY <1>4 DEF C!ReturnToTerms
  <2>2. WaysGiven' /\ PopupGiven'
    BY <1>4 DEF C!ReturnToTerms
  <2>3. TabGiven'
    BY <1>4 DEF C!ReturnToTerms
  <2>4. BoxesStored' /\ C!AgreedGiven' /\ C!LoggedInAgreed'
    BY <1>4 DEF C!ReturnToTerms
  <2> QED BY <2>1, <2>2, <2>3, <2>4
<1>5. CASE C!Reload
  <2>1. C!ConsentTypeOK'
    BY <1>5 DEF C!Reload
  <2>2. WaysGiven' /\ PopupGiven'
    BY <1>5 DEF C!Reload
  <2>3. TabGiven'
    BY <1>5 DEF C!Reload
  <2>4. BoxesStored' /\ C!AgreedGiven' /\ C!LoggedInAgreed'
    BY <1>5 DEF C!Reload
  <2> QED BY <2>1, <2>2, <2>3, <2>4
<1>6. CASE C!Leave
  BY <1>6 DEF C!Leave
<1>7. CASE C!Arrive
  <2>1. C!ConsentTypeOK'
    BY <1>7 DEF C!Arrive
  <2>2. WaysGiven'
    BY <1>7 DEF C!Arrive
  <2>3. PopupGiven'
    BY <1>7 DEF C!Arrive
  <2>4. TabGiven'
    BY <1>7 DEF C!Arrive
  <2>5. BoxesStored' /\ C!AgreedGiven'
    BY <1>7 DEF C!Arrive
  <2>6. C!LoggedInAgreed'
    BY <1>7 DEF C!Arrive
  <2> QED BY <2>1, <2>2, <2>3, <2>4, <2>5, <2>6
<1> QED BY <1>1, <1>2, <1>3, <1>4, <1>5, <1>6, <1>7

LEMMA BrowserKeeps ==
  ASSUME GivenInv, C!Back \/ C!Forward \/ C!GiveUp \/ C!ReloadOpener
  PROVE  GivenInv'
<1> USE DEF GivenInv, C!ConsentTypeOK, C!Boxes, WaysGiven, PopupGiven, TabGiven, BoxesStored,
            C!AgreedGiven, C!LoggedInAgreed, C!Shows, C!Stands, C!login, C!page, C!past
<1>1. CASE C!Back
  <2>1. C!ConsentTypeOK'
    BY <1>1, ZenonT(60) DEF C!Back
  <2>2. WaysGiven'
    BY <1>1 DEF C!Back
  <2>3. PopupGiven'
    BY <1>1 DEF C!Back
  <2>4. TabGiven'
    BY <1>1 DEF C!Back
  <2>5. BoxesStored' /\ C!AgreedGiven'
    BY <1>1 DEF C!Back
  <2>6. C!LoggedInAgreed'
    BY <1>1 DEF C!Back
  <2> QED BY <2>1, <2>2, <2>3, <2>4, <2>5, <2>6
<1>2. CASE C!Forward
  <2>1. C!ConsentTypeOK'
    BY <1>2 DEF C!Forward
  <2>2. WaysGiven' /\ PopupGiven'
    BY <1>2 DEF C!Forward
  <2>3. TabGiven'
    BY <1>2 DEF C!Forward
  <2>4. BoxesStored' /\ C!AgreedGiven' /\ C!LoggedInAgreed'
    BY <1>2 DEF C!Forward
  <2> QED BY <2>1, <2>2, <2>3, <2>4
<1>3. CASE C!GiveUp
  <2>1. C!ConsentTypeOK'
    BY <1>3 DEF C!GiveUp
  <2>2. WaysGiven' /\ PopupGiven'
    BY <1>3 DEF C!GiveUp
  <2>3. TabGiven'
    BY <1>3 DEF C!GiveUp
  <2>4. BoxesStored' /\ C!AgreedGiven' /\ C!LoggedInAgreed'
    BY <1>3 DEF C!GiveUp
  <2> QED BY <2>1, <2>2, <2>3, <2>4
<1>4. CASE C!ReloadOpener
  <2>1. C!ConsentTypeOK'
    BY <1>4 DEF C!ReloadOpener
  <2>2. WaysGiven' /\ PopupGiven'
    BY <1>4 DEF C!ReloadOpener
  <2>3. TabGiven'
    BY <1>4 DEF C!ReloadOpener
  <2>4. BoxesStored' /\ C!AgreedGiven' /\ C!LoggedInAgreed'
    BY <1>4 DEF C!ReloadOpener
  <2> QED BY <2>1, <2>2, <2>3, <2>4
<1> QED BY <1>1, <1>2, <1>3, <1>4

LEMMA WayBackKeeps ==
  ASSUME GivenInv, (\E i \in Pages : C!Return(i)) \/ C!Handle \/ C!Callback
  PROVE  GivenInv'
<1> USE DEF GivenInv, C!ConsentTypeOK, C!Boxes, WaysGiven, PopupGiven, TabGiven, BoxesStored,
            C!AgreedGiven, C!LoggedInAgreed, C!Logged, C!Ask, C!page, C!past
<1>1. CASE \E i \in Pages : C!Return(i)
  <2>0. PICK i \in Pages : C!Return(i)
    BY <1>1 DEF C!Return
  <2>1. C!ConsentTypeOK'
    BY <2>0 DEF C!Return
  <2>2. WaysGiven'
    BY <2>0 DEF C!Return
  <2>3. PopupGiven'
    BY <2>0 DEF C!Return
  <2>4. TabGiven'
    BY <2>0 DEF C!Return
  <2>5. BoxesStored' /\ C!AgreedGiven'
    BY <2>0 DEF C!Return
  <2>6. C!LoggedInAgreed'
    BY <2>0 DEF C!Return
  <2> QED BY <2>1, <2>2, <2>3, <2>4, <2>5, <2>6
<1>2. CASE C!Handle
  BY <1>2 DEF C!Handle
<1>3. CASE C!Callback
  <2>1. C!ConsentTypeOK'
    <3>1. back \in Pages /\ undisturbed \in BOOLEAN
      BY <1>3 DEF C!Callback
    <3>2. CASE pending = "all"
      BY <1>3, <3>1, <3>2 DEF C!Callback
    <3>3. CASE pending # "all"
      <4>1. me' \in [who : Pages, sure : BOOLEAN] /\ window' = "closed"
            /\ pending' = "none" /\ oauth' = FALSE /\ back' = None
        BY <1>3, <3>1, <3>3, SMTT(30) DEF C!Callback
      <4>2. UNCHANGED <<popup, opener, boxes, departing, ahead, reloaded, readied, mail, sending,
                      agreed, C!past>>
        BY <1>3, <3>3 DEF C!Callback
      <4> HIDE DEF C!Logged, C!Ask
      <4> QED BY <4>1, <4>2
    <3> QED BY <3>2, <3>3
  <2>2. WaysGiven'
    BY <1>3 DEF C!Callback
  <2>3. PopupGiven'
    BY <1>3 DEF C!Callback
  <2>4. TabGiven'
    BY <1>3 DEF C!Callback
  <2>5. BoxesStored' /\ C!AgreedGiven'
    BY <1>3 DEF C!Callback
  <2>6. C!LoggedInAgreed'
    BY <1>3 DEF C!Callback
  <2> QED BY <2>1, <2>2, <2>3, <2>4, <2>5, <2>6
<1> QED BY <1>1, <1>2, <1>3

LEMMA ServerKeepsConsent ==
  ASSUME GivenInv, C!AgreeFind \/ C!AgreeWrite \/ C!Agreed \/ C!Lose \/ C!Logout
  PROVE  GivenInv'
<1> USE DEF GivenInv, C!ConsentTypeOK, C!Boxes, WaysGiven, PopupGiven, TabGiven, BoxesStored,
            C!AgreedGiven, C!LoggedInAgreed, C!page, C!past
<1>1. CASE C!AgreeFind
  BY <1>1 DEF C!AgreeFind
<1>2. CASE C!AgreeWrite
  BY <1>2 DEF C!AgreeWrite
<1>3. CASE C!Agreed
  <2>1. C!ConsentTypeOK'
    BY <1>3 DEF C!Agreed
  <2>2. WaysGiven'
    BY <1>3 DEF C!Agreed
  <2>3. PopupGiven'
    BY <1>3 DEF C!Agreed
  <2>4. TabGiven'
    BY <1>3 DEF C!Agreed
  <2>5. BoxesStored' /\ C!AgreedGiven'
    BY <1>3 DEF C!Agreed
  <2>6. C!LoggedInAgreed'
    BY <1>3 DEF C!Agreed
  <2> QED BY <2>1, <2>2, <2>3, <2>4, <2>5, <2>6
<1>4. CASE C!Lose
  BY <1>4 DEF C!Lose
<1>5. CASE C!Logout
  BY <1>5 DEF C!Logout
<1> QED BY <1>1, <1>2, <1>3, <1>4, <1>5

LEMMA TermsStep == GivenInv /\ [C!ConsentNext]_(C!vars) => GivenInv'
<1> SUFFICES ASSUME GivenInv, [C!ConsentNext]_(C!vars) PROVE GivenInv'
  OBVIOUS
<1>1. CASE UNCHANGED C!vars
  BY <1>1 DEF C!vars, C!page, C!login, C!past, GivenInv, C!ConsentTypeOK, WaysGiven, PopupGiven,
              TabGiven, BoxesStored, C!AgreedGiven, C!LoggedInAgreed
<1>2. CASE C!ConsentNext
  BY <1>2, TermsKeep, BrowserKeeps, WayBackKeeps, ServerKeepsConsent DEF C!ConsentNext
<1> QED BY <1>1, <1>2

\* An account has agreed only if its user left for Google with every box checked
\* and, in a tab, did not clear one since; and whoever is logged in by an attempt that
\* nothing disturbed has agreed (handleGoogleLogin, handleMessage, completeLogin,
\* agreeTerms).
THEOREM ConsentGiven == C!ConsentSpec => []C!ConsentMeant
<1>1. GivenInv => C!ConsentMeant
  BY DEF GivenInv, C!ConsentMeant
<1> QED BY <1>1, TermsStart, TermsStep, PTL DEF C!ConsentSpec

-----------------------------------------------------------------------------
(* The warning: the invariant *)

\* Nobody stands at an await of sendToRoom unless the job runs.
AtRest == warning.job \in {"queued", "done", "failed"} => \A m \in Members : warning.at[m] = "over"

\* Who has been reachable since sendToRoom began is reachable by the
\* subscription that was found, and has the message when it was sent.
SteadyServed ==
  \A m \in steady :
    /\ P!Reachable(m)
    /\ warning.job \in {"active", "done"} =>
         /\ warning.at[m] = "send" => warning.sub[m] = pushSub[m]
         /\ warning.at[m] = "over" => m \in notified

\* Every attempt that is spent was rejected at least once.
AttemptsCounted ==
  /\ rejected + warning.left >= P!Attempts
  /\ warning.job = "rejected" => rejected + warning.left > P!Attempts
  /\ warning.job \in {"queued", "active", "rejected"} => warning.left > 0
  /\ warning.job = "failed" => warning.left = 0

\* The inductive invariant.
ServedInv == P!PushTypeOK /\ AtRest /\ SteadyServed /\ AttemptsCounted

\* Somebody is there, and the bounds of the model are numbers.
Bounded == Members # {} /\ MaxSubs \in Nat \ {0} /\ MaxPushTurns \in Nat

LEMMA NoticesStart == Bounded /\ P!Init => ServedInv
<1> SUFFICES ASSUME Bounded, P!Init PROVE ServedInv
  OBVIOUS
<1> USE DEF P!NoSub, P!NoTarget, P!Attempts
<1>1. P!NoAlert \in [pc : {"idle", "find", "send", "cool", "drop"}, to : Members,
                        sub : 0..P!NoTarget]
  BY DEF Bounded, P!NoAlert
<1>2. P!PushTypeOK
  <2>1. subscribed \in [Members -> 0..MaxSubs] /\ pushSub \in [Members -> 0..P!NoTarget]
    BY DEF Bounded, P!Init
  <2> QED BY <1>1, <2>1 DEF P!PushTypeOK, P!Init, Bounded
<1>3. AtRest /\ SteadyServed /\ AttemptsCounted
  BY DEF P!Init, AtRest, SteadyServed, AttemptsCounted
<1> QED BY <1>2, <1>3 DEF ServedInv

-----------------------------------------------------------------------------
(* The warning: what changes subscriptions and alerts leaves it alone *)

Calm == UNCHANGED <<warning, notified, rejected>>

LEMMA CalmKeeps ==
  ASSUME ServedInv, Calm, P!PushTypeOK', UNCHANGED <<P!devices, pushSub, steady>> \/ P!Kept
  PROVE  ServedInv'
<1>1. AtRest'
  BY DEF ServedInv, Calm, AtRest
<1>2. AttemptsCounted'
  BY DEF ServedInv, Calm, AttemptsCounted
<1>3. SteadyServed'
  <2>1. CASE UNCHANGED <<P!devices, pushSub, steady>>
    BY <2>1 DEF ServedInv, Calm, SteadyServed, P!Reachable, P!Live, P!devices
  <2>2. CASE P!Kept
    BY <2>2 DEF ServedInv, Calm, SteadyServed, P!Kept
  <2> QED BY <2>1, <2>2
<1> QED BY <1>1, <1>2, <1>3 DEF ServedInv

LEMMA SubscriptionsKeep ==
  ASSUME Bounded, ServedInv, NEW m \in Members,
         P!Subscribe(m) \/ P!End(m) \/ P!GiveUp(m) \/ P!CoolDown(m)
  PROVE  ServedInv'
<1> USE DEF P!NoSub, P!NoTarget, ServedInv, P!PushTypeOK, Bounded
<1>1. CASE P!Subscribe(m)
  <2>1. /\ ended' \in [Members -> BOOLEAN] /\ subscribed' \in [Members -> 0..MaxSubs]
        /\ pturns' \in 0..MaxPushTurns /\ rejected' \in 0..pturns'
    <3>1. pturns' \in 0..MaxPushTurns /\ rejected' \in 0..pturns'
      BY <1>1 DEF P!Subscribe, P!Turn
    <3>2. subscribed[m] \in 0..MaxSubs
      OBVIOUS
    <3>3. CASE P!Live(m, subscribed[m])
      BY <1>1, <3>1, <3>3 DEF P!Subscribe
    <3>4. CASE ~P!Live(m, subscribed[m])
      <4>1. subscribed[m] + 1 \in 0..MaxSubs
        BY <1>1, <3>2, <3>4 DEF P!Subscribe
      <4>2. /\ subscribed' = [subscribed EXCEPT ![m] = subscribed[m] + 1]
            /\ ended' = [ended EXCEPT ![m] = FALSE]
        BY <1>1, <3>4 DEF P!Subscribe
      <4>3. subscribed \in [Members -> 0..MaxSubs] /\ ended \in [Members -> BOOLEAN]
        OBVIOUS
      <4> HIDE DEF ServedInv, P!PushTypeOK
      <4>4. subscribed' \in [Members -> 0..MaxSubs]
        BY <4>1, <4>2, <4>3
      <4> QED BY <3>1, <4>2, <4>3, <4>4
    <3> QED BY <3>3, <3>4
  <2>2. subscribed'[m] \in 1..MaxSubs
    BY <1>1, <2>1 DEF P!Subscribe, P!Live
  <2>3. P!PushTypeOK'
    BY <1>1, <2>1, <2>2 DEF P!Subscribe, P!keys, P!Kept
  <2> QED BY <1>1, <2>3, CalmKeeps DEF P!Subscribe, Calm
<1>2. CASE P!End(m)
  <2>1. P!PushTypeOK'
    BY <1>2 DEF P!End, P!Turn, P!keys, P!Kept
  <2> QED BY <1>2, <2>1, CalmKeeps DEF P!End, Calm
<1>3. CASE P!GiveUp(m)
  <2>1. P!PushTypeOK'
    BY <1>3 DEF P!GiveUp, P!Turn, P!keys, P!devices
  <2> QED BY <1>3, <2>1, CalmKeeps DEF P!GiveUp, Calm, P!keys
<1>4. CASE P!CoolDown(m)
  <2>1. P!PushTypeOK'
    BY <1>4 DEF P!CoolDown, P!AlertRest, P!devices
  <2> QED BY <1>4, <2>1, CalmKeeps DEF P!CoolDown, P!AlertRest, Calm
<1> QED BY <1>1, <1>2, <1>3, <1>4

LEMMA SaveKeeps ==
  ASSUME Bounded, ServedInv, NEW p \in posts, P!SaveSubscription(p)
  PROVE  ServedInv'
<1> USE DEF P!NoSub, P!NoTarget, ServedInv, P!PushTypeOK, Bounded
<1>1. p[1] \in Members /\ p[2] \in 1..MaxSubs
  OBVIOUS
<1>2. P!PushTypeOK'
  BY <1>1 DEF P!SaveSubscription, P!Turn, P!Kept
<1> QED BY <1>2, CalmKeeps DEF P!SaveSubscription, Calm

AlertTypes == [pc : {"idle", "find", "send", "cool", "drop"}, to : Members, sub : 0..P!NoTarget]

LEMMA AlertsKeep ==
  ASSUME Bounded, ServedInv, NEW s \in Alerts,
         P!AlertFind(s) \/ P!AlertSend(s) \/ P!AlertCool(s) \/ P!AlertDrop(s)
           \/ \E m \in Members : P!Escape(s, m)
  PROVE  ServedInv'
<1> USE DEF P!NoSub, P!NoTarget, ServedInv, P!PushTypeOK, Bounded
<1>1. P!NoAlert \in AlertTypes
  BY DEF P!NoAlert, AlertTypes
<1>2. alert[s] \in AlertTypes
  BY DEF AlertTypes
<1>3. CASE \E m \in Members : P!Escape(s, m)
  <2>1. P!PushTypeOK'
    BY <1>1, <1>2, <1>3 DEF P!Escape, P!AlertRest, P!Turn, P!keys, P!devices, AlertTypes
  <2> QED BY <1>3, <2>1, CalmKeeps DEF P!Escape, P!AlertRest, Calm, P!keys
<1>4. CASE P!AlertFind(s)
  <2>1. alert' \in [Alerts -> AlertTypes]
    BY <1>1, <1>2, <1>4 DEF P!AlertFind, AlertTypes
  <2>2. P!PushTypeOK'
    BY <1>4, <2>1 DEF P!AlertFind, P!AlertRest, P!keys, P!devices, AlertTypes
  <2> QED BY <1>4, <2>2, CalmKeeps DEF P!AlertFind, P!AlertRest, Calm, P!keys
<1>5. CASE P!AlertSend(s)
  <2>1. alert' \in [Alerts -> AlertTypes]
    BY <1>1, <1>2, <1>5 DEF P!AlertSend, P!AlertStep, AlertTypes
  <2>2. P!PushTypeOK'
    BY <1>5, <2>1 DEF P!AlertSend, P!AlertRest, P!Turn, P!keys, P!devices, AlertTypes
  <2> QED BY <1>5, <2>2, CalmKeeps DEF P!AlertSend, P!AlertRest, Calm, P!keys
<1>6. CASE P!AlertCool(s)
  <2>1. alert' \in [Alerts -> AlertTypes]
    BY <1>1, <1>2, <1>6 DEF P!AlertCool, P!AlertStep, AlertTypes
  <2>2. P!PushTypeOK'
    BY <1>2, <1>6, <2>1 DEF P!AlertCool, P!AlertRest, P!devices, AlertTypes
  <2> QED BY <1>6, <2>2, CalmKeeps DEF P!AlertCool, P!AlertRest, Calm
<1>7. CASE P!AlertDrop(s)
  <2>1. alert' \in [Alerts -> AlertTypes]
    BY <1>1, <1>2, <1>7 DEF P!AlertDrop, P!AlertStep, AlertTypes
  <2>2. P!PushTypeOK'
    BY <1>7, <2>1 DEF P!AlertDrop, P!AlertRest, P!devices, AlertTypes, P!Kept
  <2> QED BY <1>7, <2>2, CalmKeeps DEF P!AlertDrop, P!AlertRest, Calm
<1> QED BY <1>3, <1>4, <1>5, <1>6, <1>7

-----------------------------------------------------------------------------
(* The warning: the job and sendToRoom *)

LEMMA WarnKeeps == ASSUME Bounded, ServedInv, P!Warn PROVE ServedInv'
<1> USE DEF P!NoSub, P!NoTarget, ServedInv, P!PushTypeOK, Bounded, P!Warn, P!WarningRest
<1>1. P!PushTypeOK'
  BY DEF P!devices, P!keys
<1>2. AtRest' /\ AttemptsCounted'
  BY DEF AtRest, AttemptsCounted
<1>3. SteadyServed'
  BY DEF SteadyServed, P!Reachable, P!Live, P!devices, P!keys
<1> QED BY <1>1, <1>2, <1>3

LEMMA WarnFindKeeps == ASSUME Bounded, ServedInv, NEW m \in Members, P!WarnFind(m) PROVE ServedInv'
<1> USE DEF P!NoSub, P!NoTarget, ServedInv, P!PushTypeOK, Bounded, P!WarnFind, P!WarningRest
<1>1. P!PushTypeOK'
  BY DEF P!devices, P!keys
<1>2. AtRest' /\ AttemptsCounted'
  BY DEF AtRest, AttemptsCounted
<1>3. SteadyServed'
  BY DEF SteadyServed, P!Reachable, P!Live, P!devices, P!keys
<1> QED BY <1>1, <1>2, <1>3

LEMMA WarnSendKeeps == ASSUME Bounded, ServedInv, NEW m \in Members, P!WarnSend(m) PROVE ServedInv'
<1> USE DEF P!NoSub, P!NoTarget, ServedInv, P!PushTypeOK, Bounded, P!WarnSend, P!WarningRest
<1>1. P!PushTypeOK'
  BY DEF P!devices, P!keys, P!Turn
<1>2. AtRest' /\ AttemptsCounted'
  BY DEF AtRest, AttemptsCounted
<1>3. SteadyServed'
  BY DEF SteadyServed, P!Reachable, P!Live, P!devices, P!keys, AtRest
<1> QED BY <1>1, <1>2, <1>3

LEMMA WarnRejectedKeeps == ASSUME Bounded, ServedInv, NEW m \in Members, P!WarnRejected(m)
                           PROVE  ServedInv'
<1> USE DEF P!NoSub, P!NoTarget, ServedInv, P!PushTypeOK, Bounded, P!WarnRejected, P!WarningRest
<1>1. P!PushTypeOK'
  <2>1. rejected' \in 0..pturns' /\ pturns' \in 0..MaxPushTurns
    BY DEF P!Turn
  <2>2. warning'.at \in [Members -> {"find", "send", "over"}]
    OBVIOUS
  <2> HIDE DEF Bounded
  <2> QED BY <2>1, <2>2 DEF P!devices, P!keys
<1>2. AtRest' /\ AttemptsCounted'
  BY DEF AtRest, AttemptsCounted, P!Attempts
<1>3. SteadyServed'
  BY DEF SteadyServed, P!Reachable, P!Live, P!devices, P!keys
<1> QED BY <1>1, <1>2, <1>3

LEMMA WarnOverKeeps == ASSUME Bounded, ServedInv, P!WarnOver PROVE ServedInv'
<1> USE DEF P!NoSub, P!NoTarget, ServedInv, P!PushTypeOK, Bounded, P!WarnOver, P!WarningRest
<1>1. P!PushTypeOK'
  <2>1. warning.job = "rejected" => warning.left - 1 \in 0..P!Attempts
    BY DEF P!Attempts, AttemptsCounted
  <2>2. warning' \in [job : {"queued", "active", "rejected", "done", "failed"},
                      left : 0..P!Attempts, at : [Members -> {"find", "send", "over"}],
                      sub : [Members -> 0..P!NoTarget]]
    BY <2>1
  <2> QED BY <2>2 DEF P!devices, P!keys
<1>2. AtRest' /\ AttemptsCounted'
  BY DEF AtRest, AttemptsCounted, P!Attempts
<1>3. SteadyServed'
  BY DEF SteadyServed, P!Reachable, P!Live, P!devices, P!keys
<1> QED BY <1>1, <1>2, <1>3

LEMMA NoticesStep == Bounded /\ ServedInv /\ [P!PushNext]_(P!vars) => ServedInv'
<1> SUFFICES ASSUME Bounded, ServedInv, [P!PushNext]_(P!vars) PROVE ServedInv'
  OBVIOUS
<1>1. CASE UNCHANGED P!vars
  BY <1>1 DEF P!vars, P!devices, P!keys, ServedInv, P!PushTypeOK, AtRest, SteadyServed,
              AttemptsCounted, P!Reachable, P!Live
<1>2. CASE P!PushNext
  BY <1>2, SubscriptionsKeep, SaveKeeps, AlertsKeep, WarnKeeps, WarnFindKeeps, WarnSendKeeps,
     WarnRejectedKeeps, WarnOverKeeps DEF P!PushNext
<1> QED BY <1>1, <1>2

\* Subscriptions, alerts and the warning keep their types.
THEOREM NoticesTypeCorrect == ASSUME Bounded PROVE P!PushSpec => []P!PushTypeOK
<1>1. ServedInv => P!PushTypeOK
  BY DEF ServedInv
<1> QED BY <1>1, NoticesStart, NoticesStep, PTL DEF P!PushSpec

\* A break warning that goes through has been shown to every member who serves
\* and could be reached all along, whatever became of the messages to the others
\* and whatever their alerts did to the keys; it is given up only after as many
\* rejected calls as it has attempts (sendToRoom, sendBreakWarning).
THEOREM EverybodyWarned == ASSUME Bounded PROVE P!PushSpec => []P!WarnsAll
<1>1. ServedInv => P!WarnsAll
  BY DEF ServedInv, P!PushTypeOK, P!WarnsAll, SteadyServed, AtRest, AttemptsCounted, P!Attempts
<1> QED BY <1>1, NoticesStart, NoticesStep, PTL DEF P!PushSpec

-----------------------------------------------------------------------------
(* The page of the room's phase: the invariant *)

NavEntry == [page : N!Routes, flag : BOOLEAN, doc : Nat]
NavMove  == [how : {"push", "replace"}, page : N!Routes]

PagesOf(es) == {es[i].page : i \in 1..Len(es)}

\* A guard entry has a page before it, and no other guard entry.
Apart(es) == ~es[1].flag /\ \A i \in 1..(Len(es) - 1) : es[i].flag => ~es[i + 1].flag

ContractOnce(es) == \A i \in 1..(Len(es) - 1) : ~(es[i].page = "contract" /\ es[i + 1].page = "contract")

StayPages == {"timer", "semi", "roulette", "giveup"}

Guarding ==
  /\ guard = "stay" <=> shown \in StayPages
  /\ guard = "home" => shown \in {"total", "create"}
  /\ Apart(entries)

\* The guard entries on the way.
Between(p, k) == {i \in (p + 1)..k : entries[i].flag}

\* Wherever Backs have taken a page that is to stay, the steps forward that are asked for
\* reach its guard entry again: each guard entry on the way takes one more of them.
Returning ==
  ~tlost =>
    /\ guard = None => entries[pos].page = shown
    /\ guard = "home" => leaving \/ (entries[pos].page = shown /\ entries[pos].flag)
    /\ guard = "stay" => \E k \in pos..Len(entries) : /\ entries[k].page = shown /\ entries[k].flag
                                                      /\ going >= Cardinality(Between(pos, k))

\* The router goes to other pages only, but for the home page.
GoingAway == ~tlost /\ nav # None /\ nav.page # "home" => nav.page # shown

TabPages == PagesOf(entries) \cup {shown} \cup (IF nav = None THEN {} ELSE {nav.page})

Hears(e) == \E i \in 1..Len(twire) : twire[i] = e

NotYet ==
  /\ TabPages \subseteq {"home", "create"}
  /\ \A r \in {"join", "leave", "giveUp", "poll"} : tasked[r] = None
  /\ \A r \in {"enter", "create", "destroy"} : tasked[r] # "ok"
  /\ step # "complete" /\ card \notin N!Phases /\ mine = "no" /\ ~thost /\ told = N!Untold

NoRoom == tphase = "none" => NotYet

Looked ==
  /\ tseen.room # "none" /\ (tseen.room = "closed" => tphase = "closed")
  /\ shown # "join" => tseen = N!Unseen

SessionBegun ==
  /\ "timer" \in TabPages \/ card = "timer" \/ tseen.room = "timer" \/ told.phase = "timer" \/ Hears("started")
       => tphase \in {"timer", "result"}
  /\ told.phase = "contract" => "timer" \notin TabPages

SessionOver ==
  "semi" \in TabPages \/ told.phase = "result" \/ Hears("ended") \/ tasked["poll"] = "ok" \/ tseen.room = "result"
    => tphase = "result"

OneContract == ContractOnce(entries) /\ nav # N!Replace("contract")

Linked ==
  /\ shown \notin N!Joined => told = N!Untold /\ twire = <<>>
  /\ link = "down" => twire = <<>>
  /\ link = "up" => <<told.phase, twire, tphase>> \in
       {<<"contract", <<>>, "contract">>, <<"contract", <<"started">>, "timer">>,
        <<"contract", <<"started", "ended">>, "result">>, <<"timer", <<>>, "timer">>,
        <<"timer", <<"ended">>, "result">>, <<"result", <<>>, "result">>}

Following == ~tlost /\ N!Followed(shown, told) # None => nav # None

HistoryInv == Guarding /\ Returning /\ GoingAway
PhaseInv   == NoRoom /\ Looked /\ SessionBegun /\ SessionOver /\ OneContract /\ Linked /\ Following
NavInv     == N!NavTypeOK /\ HistoryInv /\ PhaseInv

LEMMA Nothing ==
  /\ MaxClicks \in Nat /\ None \notin BOOLEAN
  /\ None \notin N!Phases \cup {"stay", "home", "sent", "ok", "no", "gone"}
  /\ None \notin NavMove
BY NothingGiven DEF N!NothingAssumption, NavMove

LEMMA EntryParts ==
  ASSUME NEW es \in Seq(NavEntry), NEW k \in 1..Len(es)
  PROVE  /\ es[k] \in NavEntry /\ es[k].page \in N!Routes /\ es[k].flag \in BOOLEAN /\ es[k].doc \in Nat
         /\ es[k] = [page |-> es[k].page, flag |-> es[k].flag, doc |-> es[k].doc]
         /\ es[k].page \in PagesOf(es)
<1>1. es[k] \in NavEntry
  OBVIOUS
<1> QED BY <1>1 DEF NavEntry, PagesOf

\* An entry put on top of others.
LEMMA Appended ==
  ASSUME NEW es \in Seq(NavEntry), NEW k \in 1..Len(es), NEW e \in NavEntry
  PROVE  /\ Append(SubSeq(es, 1, k), e) \in Seq(NavEntry) /\ Len(Append(SubSeq(es, 1, k), e)) = k + 1
         /\ Append(SubSeq(es, 1, k), e)[k + 1] = e
         /\ \A i \in 1..k : Append(SubSeq(es, 1, k), e)[i] = es[i]
<1>1. Len(es) \in Nat /\ k \in Nat /\ k >= 1
  OBVIOUS
<1>2. SubSeq(es, 1, k) \in Seq(NavEntry) /\ Len(SubSeq(es, 1, k)) = k
  BY <1>1
<1>3. \A i \in 1..k : SubSeq(es, 1, k)[i] = es[i]
  BY <1>1
<1> QED BY <1>1, <1>2, <1>3

LEMMA AppendedKeeps ==
  ASSUME NEW es \in Seq(NavEntry), NEW k \in 1..Len(es), NEW e \in NavEntry
  PROVE  /\ PagesOf(Append(SubSeq(es, 1, k), e)) \subseteq PagesOf(es) \cup {e.page}
         /\ Apart(es) /\ (e.flag => ~es[k].flag) => Apart(Append(SubSeq(es, 1, k), e))
         /\ ContractOnce(es) /\ (e.page = "contract" => es[k].page # "contract")
              => ContractOnce(Append(SubSeq(es, 1, k), e))
<1> DEFINE new == Append(SubSeq(es, 1, k), e)
<1> HIDE DEF new
<1>0. k \in Nat /\ k >= 1 /\ k <= Len(es) /\ Len(es) \in Nat
  OBVIOUS
<1>1. Len(new) = k + 1 /\ new[k + 1] = e /\ \A i \in 1..k : new[i] = es[i]
  BY Appended DEF new
<1>2. PagesOf(new) \subseteq PagesOf(es) \cup {e.page}
  <2>1. ASSUME NEW i \in 1..Len(new) PROVE new[i].page \in PagesOf(es) \cup {e.page}
    <3>1. CASE i \in 1..k
      BY <1>0, <1>1, <3>1 DEF PagesOf
    <3>2. CASE i = k + 1
      BY <1>1, <3>2
    <3> QED BY <1>0, <1>1, <3>1, <3>2
  <2> QED BY <2>1 DEF PagesOf
<1>3. ASSUME Apart(es), e.flag => ~es[k].flag PROVE Apart(new)
  <2>1. ~new[1].flag
    BY <1>0, <1>1, <1>3 DEF Apart
  <2>2. ASSUME NEW i \in 1..(Len(new) - 1), new[i].flag PROVE ~new[i + 1].flag
    <3>1. i \in 1..k /\ new[i] = es[i]
      BY <1>0, <1>1
    <3>2. CASE i = k
      BY <1>1, <1>3, <2>2, <3>1, <3>2
    <3>3. CASE i < k
      BY <1>0, <1>1, <1>3, <2>2, <3>1, <3>3 DEF Apart
    <3> QED BY <1>0, <3>1, <3>2, <3>3
  <2> QED BY <2>1, <2>2 DEF Apart
<1>4. ASSUME ContractOnce(es), e.page = "contract" => es[k].page # "contract" PROVE ContractOnce(new)
  <2>1. ASSUME NEW i \in 1..(Len(new) - 1), new[i].page = "contract" PROVE new[i + 1].page # "contract"
    <3>1. i \in 1..k /\ new[i] = es[i]
      BY <1>0, <1>1
    <3>2. CASE i = k
      BY <1>1, <1>4, <2>1, <3>1, <3>2
    <3>3. CASE i < k
      BY <1>0, <1>1, <1>4, <2>1, <3>1, <3>3 DEF ContractOnce
    <3> QED BY <1>0, <3>1, <3>2, <3>3
  <2> QED BY <2>1 DEF ContractOnce
<1> QED BY <1>2, <1>3, <1>4 DEF new

\* An entry put in the place of another.
LEMMA ReplacedKeeps ==
  ASSUME NEW es \in Seq(NavEntry), NEW k \in 1..Len(es), NEW e \in NavEntry, ~e.flag,
         NEW new, new = [es EXCEPT ![k] = e]
  PROVE  /\ new \in Seq(NavEntry) /\ Len(new) = Len(es) /\ new[k] = e
         /\ \A i \in 1..Len(es) : i # k => new[i] = es[i]
         /\ PagesOf(new) \subseteq PagesOf(es) \cup {e.page}
         /\ Apart(es) => Apart(new)
         /\ ContractOnce(es) /\ (e.page = "contract" => es[k].page = "contract") => ContractOnce(new)
<1>0. k \in Nat /\ k >= 1 /\ k <= Len(es) /\ Len(es) \in Nat
  OBVIOUS
<1>1. new \in Seq(NavEntry) /\ Len(new) = Len(es) /\ new[k] = e /\ \A i \in 1..Len(es) : i # k => new[i] = es[i]
  BY <1>0
<1>2. PagesOf(new) \subseteq PagesOf(es) \cup {e.page}
  BY <1>1 DEF PagesOf
<1>3. ASSUME Apart(es) PROVE Apart(new)
  <2>1. ~new[1].flag
    BY <1>0, <1>1, <1>3 DEF Apart
  <2>2. ASSUME NEW i \in 1..(Len(new) - 1), new[i].flag PROVE ~new[i + 1].flag
    <3>1. i # k /\ new[i] = es[i] /\ i + 1 \in 1..Len(es)
      BY <1>0, <1>1, <2>2
    <3>2. ~es[i + 1].flag
      BY <1>0, <1>1, <1>3, <2>2, <3>1 DEF Apart
    <3> QED BY <1>1, <3>1, <3>2
  <2> QED BY <2>1, <2>2 DEF Apart
<1>4. ASSUME ContractOnce(es), e.page = "contract" => es[k].page = "contract" PROVE ContractOnce(new)
  <2>1. \A i \in 1..Len(es) : new[i].page = "contract" => es[i].page = "contract"
    BY <1>1, <1>4
  <2> QED BY <1>0, <1>1, <1>4, <2>1 DEF ContractOnce
<1> QED BY <1>1, <1>2, <1>3, <1>4

-----------------------------------------------------------------------------
(* A page is mounted *)

\* What mounting the page of entry k of es makes of the tab.
Arrives(es, to) ==
  /\ entries' \in Seq(NavEntry) /\ pos' \in 1..Len(entries') /\ entries'[pos'].page = to
  /\ shown' = to /\ guard' = N!GuardOf(to) /\ (guard' # None => entries'[pos'].flag)
  /\ PagesOf(entries') \subseteq PagesOf(es)
  /\ Apart(es) => Apart(entries')
  /\ ContractOnce(es) => ContractOnce(entries')
  /\ tfresh' \in BOOLEAN /\ blocked' \in BOOLEAN
  /\ tseen' = N!Unseen /\ card' = None /\ step' = "form" /\ tlate' = FALSE
  /\ \/ to \in N!Joined /\ UNCHANGED <<link, told, twire>> /\ shown \in N!Joined /\ nav' = N!Followed(to, told)
     \/ link' = (IF to \in N!Joined THEN "down" ELSE "none") /\ told' = N!Untold /\ twire' = <<>> /\ nav' = None

LEMMA GuardOfPage ==
  ASSUME NEW to \in N!Routes
  PROVE  /\ N!GuardOf(to) \in {None, "stay", "home"} /\ (N!GuardOf(to) = "stay" <=> to \in StayPages)
         /\ N!GuardOf(to) = "home" => to \in {"total", "create"}
         /\ to = "contract" => N!GuardOf(to) = None
BY Nothing DEF N!GuardOf, N!Routes, N!Joined, StayPages

LEMMA FollowedPage ==
  ASSUME NEW to \in N!Routes, NEW t
  PROVE  /\ N!Followed(to, t) = None \/ N!Followed(to, t) \in NavMove
         /\ N!Followed(to, t) # None =>
              /\ N!Followed(to, t).page # to /\ N!Followed(to, t).page \in {"timer", "semi", "contract", "giveup"}
              /\ N!Followed(to, t).page = "timer" => t.phase = "timer"
              /\ N!Followed(to, t).page = "semi" => t.phase = "result"
              /\ N!Followed(to, t).page = "contract" => t.phase = "contract" /\ to = "timer"
              /\ to \in {"contract", "timer"}
         /\ t = N!Untold => N!Followed(to, t) = None
<1>1. \A p \in N!Routes : N!Replace(p) \in NavMove /\ N!Replace(p).page = p
  BY DEF N!Replace, NavMove
<1>2. {"timer", "semi", "contract", "giveup"} \subseteq N!Routes
  BY DEF N!Routes, N!Joined
<1>3. None \notin {"contract", "timer", "result"}
  BY Nothing DEF N!Phases
<1>4. t = N!Untold => t.phase = None /\ t.out = FALSE
  BY DEF N!Untold
<1> QED BY <1>1, <1>2, <1>3, <1>4, Nothing DEF N!Followed

LEMMA MountArrives ==
  ASSUME N!NavTypeOK, NEW to \in N!Routes, NEW es \in Seq(NavEntry), NEW k \in 1..Len(es), es[k].page = to,
         NEW loaded \in BOOLEAN, N!Mounted(to, es, k, loaded)
  PROVE  Arrives(es, to)
<1>1. shown' = to /\ guard' = N!GuardOf(to)
  BY DEF N!Mounted
<1>2. es[k] \in NavEntry /\ es[k].flag \in BOOLEAN
  BY EntryParts
<1>3. /\ entries' \in Seq(NavEntry) /\ pos' \in 1..Len(entries') /\ entries'[pos'].page = to
      /\ (guard' # None => entries'[pos'].flag)
      /\ PagesOf(entries') \subseteq PagesOf(es)
      /\ Apart(es) => Apart(entries')
      /\ ContractOnce(es) => ContractOnce(entries')
  <2>1. CASE N!GuardOf(to) # None /\ ~es[k].flag
    <3> DEFINE e == [es[k] EXCEPT !.flag = TRUE]
    <3>1. entries' = Append(SubSeq(es, 1, k), e) /\ pos' = k + 1
      BY <2>1 DEF N!Mounted
    <3>2. e \in NavEntry /\ e.flag /\ e.page = to
      BY <1>2 DEF NavEntry
    <3>3. to # "contract" /\ to \in PagesOf(es)
      BY <2>1, GuardOfPage, EntryParts
    <3> HIDE DEF e
    <3>4. entries' \in Seq(NavEntry) /\ Len(entries') = k + 1 /\ entries'[k + 1] = e
      BY <3>1, <3>2, Appended
    <3>5. /\ PagesOf(entries') \subseteq PagesOf(es) \cup {e.page}
          /\ Apart(es) /\ (e.flag => ~es[k].flag) => Apart(entries')
          /\ ContractOnce(es) /\ (e.page = "contract" => es[k].page # "contract") => ContractOnce(entries')
      <4>1. e \in NavEntry /\ entries' = Append(SubSeq(es, 1, k), e)
        BY <3>1, <3>2
      <4> QED BY <4>1, AppendedKeeps
    <3>6. pos' \in 1..Len(entries')
      BY <3>1, <3>4
    <3> QED BY <2>1, <3>1, <3>2, <3>3, <3>4, <3>5, <3>6
  <2>2. CASE ~(N!GuardOf(to) # None /\ ~es[k].flag)
    <3>1. entries' = es /\ pos' = k
      BY <2>2 DEF N!Mounted
    <3> QED BY <1>1, <1>2, <2>2, <3>1
  <2> QED BY <2>1, <2>2
<1>4. tfresh' \in BOOLEAN /\ blocked' \in BOOLEAN
  BY DEF N!Mounted, N!NavTypeOK
<1>5. tseen' = N!Unseen /\ card' = None /\ step' = "form" /\ tlate' = FALSE
  BY DEF N!Mounted
<1>6. \/ to \in N!Joined /\ UNCHANGED <<link, told, twire>> /\ shown \in N!Joined /\ nav' = N!Followed(to, told)
      \/ link' = (IF to \in N!Joined THEN "down" ELSE "none") /\ told' = N!Untold /\ twire' = <<>> /\ nav' = None
  BY DEF N!Mounted, N!socket
<1> QED BY <1>1, <1>3, <1>4, <1>5, <1>6 DEF Arrives

\* The types of a tab after that.
LEMMA ArriveTypes ==
  ASSUME N!NavTypeOK, NEW to \in N!Routes, NEW es, Arrives(es, to)
  PROVE  /\ entries' \in Seq(NavEntry) /\ pos' \in 1..Len(entries') /\ shown' \in N!Routes
         /\ guard' \in {None, "stay", "home"} /\ (nav' = None \/ nav' \in NavMove)
         /\ link' \in {"none", "down", "up", "cut"} /\ (link' = "none" <=> shown' \notin N!Joined)
         /\ told' \in [phase : N!Phases \cup {None}, out : BOOLEAN]
         /\ twire' \in Seq({"started", "ended", "closed", "kicked"})
         /\ step' \in {"form", "creating", "complete"} /\ card' \in N!Phases \cup {"no", None}
         /\ tseen' \in [room : N!Phases \cup {None}, active : BOOLEAN \cup {None}, done : BOOLEAN]
         /\ {tfresh', blocked', tlate'} \subseteq BOOLEAN
<1>1. N!Untold \in [phase : N!Phases \cup {None}, out : BOOLEAN]
  BY DEF N!Untold
<1>2. N!Unseen \in [room : N!Phases \cup {None}, active : BOOLEAN \cup {None}, done : BOOLEAN]
  BY DEF N!Unseen
<1>3. <<>> \in Seq({"started", "ended", "closed", "kicked"})
  OBVIOUS
<1>4. nav' = None \/ nav' \in NavMove
  BY FollowedPage DEF Arrives
<1>5. guard' \in {None, "stay", "home"}
  <2>1. guard' = N!GuardOf(to)
    BY DEF Arrives
  <2> QED BY <2>1, GuardOfPage
<1>6. link' \in {"none", "down", "up", "cut"} /\ (link' = "none" <=> shown' \notin N!Joined)
  BY DEF Arrives, N!NavTypeOK
<1> QED BY <1>1, <1>2, <1>3, <1>4, <1>5, <1>6 DEF Arrives, N!NavTypeOK

\* The address bar names it, and it is where a step back would be taken back to.
LEMMA ArriveHistory ==
  ASSUME N!NavTypeOK, NEW to \in N!Routes, NEW es, Apart(es), Arrives(es, to), going' \in Nat
  PROVE  HistoryInv'
<1>1. Guarding'
  BY GuardOfPage, Nothing DEF Arrives, Guarding
<1>2. Between(pos, pos)' = {}
  BY DEF Arrives, Between
<1>3. Cardinality(Between(pos, pos)') = 0
  BY <1>2, FS_EmptySet
<1>4. pos' \in pos'..Len(entries')
  BY DEF Arrives
<1>5. Returning'
  <2>1. guard' = "stay" => \E k \in pos'..Len(entries') : /\ entries'[k].page = shown' /\ entries'[k].flag
                                                          /\ going' >= Cardinality(Between(pos, k)')
    <3>1. guard' = "stay" => entries'[pos'].flag
      BY Nothing DEF Arrives
    <3>2. entries'[pos'].page = shown' /\ going' >= Cardinality(Between(pos, pos)')
      BY <1>3 DEF Arrives
    <3> QED BY <1>4, <3>1, <3>2 DEF Between
  <2>2. guard' = "home" => entries'[pos'].page = shown' /\ entries'[pos'].flag
    BY Nothing DEF Arrives
  <2>3. entries'[pos'].page = shown'
    BY DEF Arrives
  <2> QED BY <2>1, <2>2, <2>3 DEF Returning, Between
<1>6. GoingAway'
  BY FollowedPage DEF Arrives, GoingAway
<1> QED BY <1>1, <1>5, <1>6 DEF HistoryInv

\* It names nothing that the tab did not know, but for what the page has been told.
LEMMA ArrivePhase ==
  ASSUME NavInv, NEW to \in N!Routes, NEW es \in Seq(NavEntry), to \in PagesOf(es), PagesOf(es) \subseteq TabPages \cup {"home"},
         ContractOnce(es), Arrives(es, to), UNCHANGED <<tphase, mine, thost>>,
         \A r \in N!Requests : tasked'[r] \in {tasked[r], None}
  PROVE  PhaseInv'
<1>0. NavInv /\ to \in TabPages \cup {"home"} /\ shown' = to /\ tseen' = N!Unseen /\ card' = None /\ step' = "form"
  BY DEF Arrives
<1>a. N!Unseen.room = None /\ N!Untold.phase = None /\ N!Untold.out = FALSE
  BY DEF N!Unseen, N!Untold
<1>b. None \notin N!Phases /\ {"none", "lobby", "contract", "timer", "result", "closed"} \subseteq N!Phases /\ None # "no" /\ None # "ok"
  BY Nothing DEF N!Phases
<1>1. \/ told' = told /\ twire' = twire /\ link' = link /\ shown \in N!Joined /\ to \in N!Joined /\ nav' = N!Followed(to, told)
      \/ /\ told' = N!Untold /\ twire' = <<>> /\ link' \in {"down", "none"} /\ nav' = None
  BY DEF Arrives
<1>2. /\ N!Followed(shown', told') # None => nav' # None
      /\ nav' # None => /\ nav' = N!Followed(to, told) /\ told' = told
  BY <1>0, <1>1, FollowedPage
<1>3. nav' # None => /\ nav'.page \in {"timer", "semi", "contract", "giveup"}
                     /\ nav'.page = "timer" => told.phase = "timer"
                     /\ nav'.page = "semi" => told.phase = "result"
                     /\ nav'.page = "contract" => told.phase = "contract" /\ to = "timer"
                     /\ told # N!Untold
  BY <1>2, FollowedPage
<1>4. ~(nav' # None /\ nav'.page = "contract")
  BY <1>0, <1>3 DEF NavInv, PhaseInv, SessionBegun
<1>5. TabPages' \subseteq TabPages \cup {"home"} \cup (IF nav' = None THEN {} ELSE {nav'.page})
  BY <1>0 DEF TabPages, Arrives
<1>6. \A e : Hears(e)' => Hears(e)
  BY <1>1 DEF Hears
<1>7. told' = told \/ told' = N!Untold
  BY <1>1
<1>8. NoRoom'
  <2> SUFFICES ASSUME tphase' = "none" PROVE NotYet'
    BY DEF NoRoom
  <2>1. NotYet
    BY <1>0 DEF NavInv, PhaseInv, NoRoom
  <2>2. TabPages' \subseteq {"home", "create"}
    BY <1>3, <1>5, <2>1 DEF NotYet
  <2>3. \A r \in {"join", "leave", "giveUp", "poll", "enter", "create", "destroy"} : tasked'[r] \in {tasked[r], None}
    BY DEF N!Requests
  <2>4. /\ \A r \in {"join", "leave", "giveUp", "poll"} : tasked'[r] = None
        /\ \A r \in {"enter", "create", "destroy"} : tasked'[r] # "ok"
    BY <1>b, <2>1, <2>3 DEF NotYet
  <2> QED BY <1>0, <1>b, <1>7, <2>1, <2>2, <2>4 DEF NotYet
<1>9. Looked'
  BY <1>0, <1>a, <1>b DEF Looked
<1>10. SessionBegun'
  BY <1>0, <1>a, <1>b, <1>3, <1>5, <1>6, <1>7 DEF NavInv, PhaseInv, SessionBegun
<1>11. SessionOver'
  <2>1. tasked'["poll"] = "ok" => tasked["poll"] = "ok"
    BY <1>b DEF N!Requests
  <2> QED BY <1>0, <1>a, <1>b, <1>3, <1>5, <1>6, <1>7, <2>1 DEF NavInv, PhaseInv, SessionOver
<1>12. OneContract'
  <2>1. N!Replace("contract") = [how |-> "replace", page |-> "contract"] /\ N!Replace("contract") \in NavMove
    BY DEF N!Replace, NavMove, N!Routes, N!Joined
  <2>2. N!Replace("contract") # None /\ N!Replace("contract").page = "contract"
    BY <2>1, Nothing
  <2>3. nav' # N!Replace("contract")
    BY <1>4, <2>2
  <2>4. ContractOnce(entries')
    BY DEF Arrives
  <2> QED BY <2>3, <2>4 DEF OneContract
<1>13. Linked'
  BY <1>0, <1>1 DEF NavInv, PhaseInv, Linked
<1>14. Following'
  BY <1>2 DEF Following
<1> QED BY <1>8, <1>9, <1>10, <1>11, <1>12, <1>13, <1>14 DEF PhaseInv

\* What a step leaves alone that only moves the tab.
Aside ==
  /\ UNCHANGED <<tphase, mine, thost, tguest, owes>>
  /\ {ttoken', from', tlost'} \subseteq BOOLEAN /\ clicks' \in 0..MaxClicks /\ (tlost => tlost')
  /\ tasked' \in [N!Requests -> {None, "sent", "ok", "no", "gone"}]
  /\ \A r \in N!Requests : tasked'[r] \in {tasked[r], None}

LEMMA ArriveKeeps ==
  ASSUME NavInv, NEW to \in N!Routes, NEW es \in Seq(NavEntry), to \in PagesOf(es), PagesOf(es) \subseteq TabPages \cup {"home"},
         Apart(es), ContractOnce(es), Arrives(es, to), Aside, going' \in Nat, leaving' \in BOOLEAN
  PROVE  NavInv'
<1>1. HistoryInv'
  BY ArriveHistory DEF NavInv
<1>2. PhaseInv'
  BY ArrivePhase DEF Aside
<1>3. N!NavTypeOK'
  BY ArriveTypes DEF NavInv, Aside, N!NavTypeOK, NavEntry, NavMove
<1> QED BY <1>1, <1>2, <1>3 DEF NavInv

\* A document is loaded.
LEMMA LoadedKeeps ==
  ASSUME NavInv, NEW es \in Seq(NavEntry), NEW k \in 1..Len(es), PagesOf(es) \subseteq TabPages \cup {"home"}, Apart(es), ContractOnce(es),
         N!Loaded(es[k].page, es, k), UNCHANGED <<tphase, mine, thost, tguest, owes>>,
         {ttoken', from', tlost'} \subseteq BOOLEAN, clicks' \in 0..MaxClicks, tlost => tlost'
  PROVE  NavInv'
<1>1. es[k].page \in N!Routes /\ es[k].page \in PagesOf(es)
  BY EntryParts
<1>2. N!Mounted(es[k].page, es, k, TRUE) /\ going' = 0 /\ leaving' = FALSE /\ tasked' = [r \in N!Requests |-> None]
  BY DEF N!Loaded
<1>3. Arrives(es, es[k].page)
  BY <1>1, <1>2, MountArrives DEF NavInv
<1>4. Aside
  BY <1>2 DEF Aside
<1> QED BY <1>1, <1>2, <1>3, <1>4, ArriveKeeps

\* The router shows the page of an entry.
LEMMA ShownKeeps ==
  ASSUME NavInv, NEW es \in Seq(NavEntry), NEW k \in 1..Len(es), PagesOf(es) \subseteq TabPages, Apart(es), ContractOnce(es),
         NEW left \in Nat, N!Shown(es[k].page, es, k, left), Aside,
         es[k].page = shown => tlost' \/ (guard = None /\ N!Followed(shown, told) = None)
  PROVE  NavInv'
<1>1. es[k].page \in N!Routes /\ es[k].page \in PagesOf(es)
  BY EntryParts
<1>2. going' = left /\ leaving' = leaving /\ leaving \in BOOLEAN
  BY DEF N!Shown, NavInv, N!NavTypeOK
<1>3. CASE es[k].page # shown
  <2>1. N!Mounted(es[k].page, es, k, FALSE)
    BY <1>3 DEF N!Shown
  <2>2. Arrives(es, es[k].page)
    BY <1>1, <2>1, MountArrives DEF NavInv
  <2> QED BY <1>1, <1>2, <2>2, ArriveKeeps
<1>4. CASE es[k].page = shown
  <2>1. entries' = es /\ pos' = k /\ nav' = None /\ UNCHANGED <<shown, guard, link, told, twire, tfresh, blocked, step, tseen, card, tlate>>
    BY <1>4 DEF N!Shown, N!socket, N!pages
  <2>2. N!NavTypeOK'
    BY <1>2, <2>1 DEF NavInv, Aside, N!NavTypeOK, NavEntry
  <2>3. Guarding'
    BY <2>1 DEF NavInv, HistoryInv, Guarding
  <2>4. Returning'
    BY <1>4, <2>1, Nothing DEF Returning
  <2>5. GoingAway'
    BY <2>1 DEF GoingAway
  <2>6. TabPages' \subseteq TabPages
    BY <2>1 DEF TabPages
  <2>7. /\ \A r \in {"join", "leave", "giveUp", "poll", "enter", "create", "destroy"} : tasked'[r] \in {tasked[r], None}
        /\ UNCHANGED <<tphase, mine, thost>>
    BY DEF N!Requests, Aside
  <2>8. NoRoom'
    BY <2>1, <2>6, <2>7, Nothing DEF NavInv, PhaseInv, NoRoom, NotYet
  <2>9. Looked'
    BY <2>1, <2>7 DEF NavInv, PhaseInv, Looked
  <2>10. SessionBegun'
    BY <2>1, <2>6, <2>7 DEF NavInv, PhaseInv, SessionBegun, Hears
  <2>11. SessionOver'
    BY <2>1, <2>6, <2>7, Nothing DEF NavInv, PhaseInv, SessionOver, Hears
  <2>12. OneContract'
    BY <2>1, Nothing DEF OneContract, N!Replace, NavMove, N!Routes, N!Joined
  <2>13. Linked'
    BY <2>1, <2>7 DEF NavInv, PhaseInv, Linked
  <2>14. Following'
    BY <1>4, <2>1 DEF Following
  <2> QED BY <2>2, <2>3, <2>4, <2>5, <2>8, <2>9, <2>10, <2>11, <2>12, <2>13, <2>14 DEF NavInv, HistoryInv,
     PhaseInv
<1> QED BY <1>3, <1>4

\* A step of a Back, or of a step forward, that a guarded page keeps from the router.
Halts(to) ==
  /\ pos' = to /\ to \in 1..Len(entries)
  /\ UNCHANGED <<entries, shown, guard, nav, tfresh, blocked, link, told, twire, step, tseen, card, tlate>>

LEMMA HaltsKeeps ==
  ASSUME NavInv, NEW to, Halts(to), Aside, going' \in Nat, leaving' \in BOOLEAN, Returning'
  PROVE  NavInv'
<1>1. N!NavTypeOK'
  BY DEF NavInv, Halts, Aside, N!NavTypeOK
<1>2. Guarding' /\ GoingAway'
  BY DEF NavInv, HistoryInv, Guarding, GoingAway, Halts, Aside
<1>3. TabPages' = TabPages
  BY DEF TabPages, Halts
<1>4. /\ \A r \in {"join", "leave", "giveUp", "poll", "enter", "create", "destroy"} : tasked'[r] \in {tasked[r], None}
      /\ UNCHANGED <<tphase, mine, thost>>
  BY DEF N!Requests, Aside
<1>5. NoRoom'
  BY <1>3, <1>4, Nothing DEF NavInv, PhaseInv, NoRoom, NotYet, Halts
<1>6. Looked'
  BY <1>4 DEF NavInv, PhaseInv, Looked, Halts
<1>7. SessionBegun'
  BY <1>3, <1>4 DEF NavInv, PhaseInv, SessionBegun, Hears, Halts
<1>8. SessionOver'
  BY <1>3, <1>4, Nothing DEF NavInv, PhaseInv, SessionOver, Hears, Halts
<1>9. OneContract' /\ Linked' /\ Following'
  BY <1>4 DEF NavInv, PhaseInv, OneContract, Linked, Following, Halts, Aside
<1> QED BY <1>1, <1>2, <1>5, <1>6, <1>7, <1>8, <1>9 DEF NavInv, HistoryInv, PhaseInv

LEMMA BetweenIsFinite ==
  ASSUME NEW p \in Nat, NEW k \in Nat
  PROVE  IsFiniteSet(Between(p, k)) /\ Cardinality(Between(p, k)) \in Nat
<1>1. IsFiniteSet((p + 1)..k)
  BY FS_Interval
<1>2. Between(p, k) \subseteq (p + 1)..k
  BY DEF Between
<1>3. IsFiniteSet(Between(p, k))
  BY <1>1, <1>2, FS_Subset
<1> QED BY <1>3, FS_CardinalityType

\* What a step back or forward of a guarded page makes of the way to its guard entry.
LEMMA StepBackReturns ==
  ASSUME NavInv, guard # None, pos > 1, Halts(pos - 1), tlost' = tlost,
         going' = going + (IF entries[pos - 1].flag \/ guard = "home" THEN 0 ELSE 1),
         leaving' = (leaving \/ (~entries[pos - 1].flag /\ guard = "home"))
  PROVE  Returning'
<1> SUFFICES ASSUME ~tlost PROVE Returning'
  BY DEF Returning
<1>1. /\ Len(entries) \in Nat /\ pos \in Nat /\ pos \in 1..Len(entries) /\ going \in Nat /\ guard \in {None, "stay", "home"}
      /\ entries \in Seq(NavEntry) /\ pos - 1 \in 1..Len(entries) /\ pos - 1 \in Nat /\ pos <= Len(entries)
  BY DEF NavInv, N!NavTypeOK, NavEntry
<1>2. entries[pos].flag \in BOOLEAN /\ entries[pos - 1].flag \in BOOLEAN
  BY <1>1, EntryParts
<1>3. entries[pos].flag => ~entries[pos - 1].flag
  <2>1. pos - 1 \in 1..(Len(entries) - 1) /\ (pos - 1) + 1 = pos
    BY <1>1
  <2> QED BY <1>2, <2>1 DEF NavInv, HistoryInv, Guarding, Apart
<1>4. UNCHANGED <<entries, shown, guard>> /\ pos' = pos - 1 /\ tlost' = FALSE
  BY DEF Halts, NavInv, N!NavTypeOK
<1>5. CASE guard = "home"
  <2>1. leaving \/ (entries[pos].page = shown /\ entries[pos].flag)
    BY <1>5, Nothing DEF NavInv, HistoryInv, Returning
  <2>2. leaving'
    BY <1>3, <1>5, <2>1
  <2> QED BY <1>4, <1>5, <2>2, Nothing DEF Returning
<1>6. CASE guard = "stay"
  <2>1. PICK k \in pos..Len(entries) : entries[k].page = shown /\ entries[k].flag /\ going >= Cardinality(Between(pos, k))
    BY <1>6 DEF NavInv, HistoryInv, Returning
  <2>2. k \in Nat /\ k >= pos /\ k <= Len(entries)
    BY <1>1, <2>1
  <2>3. IsFiniteSet(Between(pos, k)) /\ Cardinality(Between(pos, k)) \in Nat
    BY <1>1, <2>2, BetweenIsFinite
  <2>4. going' >= Cardinality(Between(pos - 1, k))
    <3>1. CASE entries[pos].flag
      <4>1. Between(pos - 1, k) = Between(pos, k) \cup {pos}
        BY <1>1, <2>2, <3>1 DEF Between
      <4>2. pos \notin Between(pos, k)
        BY <1>1, <2>2 DEF Between
      <4>3. Cardinality(Between(pos - 1, k)) = Cardinality(Between(pos, k)) + 1
        BY <2>3, <4>1, <4>2, FS_AddElement
      <4>4. going' = going + 1
        BY <1>3, <1>6, <3>1, Nothing
      <4> QED BY <1>1, <2>1, <2>3, <4>3, <4>4
    <3>2. CASE ~entries[pos].flag
      <4>1. Between(pos - 1, k) = Between(pos, k)
        BY <1>1, <2>2, <3>2 DEF Between
      <4>2. going' >= going
        BY <1>1
      <4> QED BY <1>1, <2>1, <2>3, <4>1, <4>2, going' \in Nat
    <3> QED BY <1>2, <3>1, <3>2
  <2>5. k \in (pos - 1)..Len(entries)
    BY <1>1, <2>2
  <2>6. Between(pos, k)' = Between(pos - 1, k)
    BY <1>4 DEF Between
  <2>7. \E i \in pos'..Len(entries') : entries'[i].page = shown' /\ entries'[i].flag /\ going' >= Cardinality(Between(pos, i)')
    BY <1>4, <2>1, <2>4, <2>5, <2>6
  <2> QED BY <1>4, <1>6, <2>7, Nothing DEF Returning, Between
<1> QED BY <1>1, <1>5, <1>6

LEMMA StepForwardReturns ==
  ASSUME NavInv, guard # None, going > 0, pos < Len(entries), Halts(pos + 1), tlost' = (tlost \/ N!Overshoots),
         going' = (going - 1) + (IF entries[pos + 1].flag \/ guard = "home" THEN 0 ELSE 1),
         leaving' = (leaving \/ (~entries[pos + 1].flag /\ guard = "home"))
  PROVE  Returning'
<1> SUFFICES ASSUME ~tlost, ~N!Overshoots PROVE Returning'
  BY DEF Returning
<1>1. /\ Len(entries) \in Nat /\ pos \in Nat /\ pos \in 1..Len(entries) /\ going \in Nat /\ guard \in {None, "stay", "home"}
      /\ entries \in Seq(NavEntry) /\ pos + 1 \in 1..Len(entries) /\ pos + 1 \in Nat
  BY DEF NavInv, N!NavTypeOK, NavEntry
<1>2. entries[pos].flag \in BOOLEAN /\ entries[pos + 1].flag \in BOOLEAN
  BY <1>1, EntryParts
<1>3. entries[pos].flag => ~entries[pos + 1].flag
  <2>1. pos \in 1..(Len(entries) - 1)
    BY <1>1
  <2> QED BY <2>1 DEF NavInv, HistoryInv, Guarding, Apart
<1>4. UNCHANGED <<entries, shown, guard>> /\ pos' = pos + 1
  BY DEF Halts
<1>5. CASE guard = "home"
  <2>1. leaving \/ (entries[pos].page = shown /\ entries[pos].flag)
    BY <1>5, Nothing DEF NavInv, HistoryInv, Returning
  <2>2. leaving'
    BY <1>3, <1>5, <2>1
  <2> QED BY <1>4, <1>5, <2>2, Nothing DEF Returning
<1>6. CASE guard = "stay"
  <2>1. PICK k \in pos..Len(entries) : entries[k].page = shown /\ entries[k].flag /\ going >= Cardinality(Between(pos, k))
    BY <1>6 DEF NavInv, HistoryInv, Returning
  <2>2. k \in Nat /\ k > pos /\ k <= Len(entries)
    BY <1>1, <1>6, <2>1 DEF N!Overshoots
  <2>3. IsFiniteSet(Between(pos + 1, k)) /\ Cardinality(Between(pos + 1, k)) \in Nat
    BY <1>1, <2>2, BetweenIsFinite
  <2>4. going' >= Cardinality(Between(pos + 1, k))
    <3>1. CASE entries[pos + 1].flag
      <4>1. Between(pos, k) = Between(pos + 1, k) \cup {pos + 1}
        BY <1>1, <2>2, <3>1 DEF Between
      <4>2. pos + 1 \notin Between(pos + 1, k)
        BY <1>1, <2>2 DEF Between
      <4>3. Cardinality(Between(pos, k)) = Cardinality(Between(pos + 1, k)) + 1
        BY <2>3, <4>1, <4>2, FS_AddElement
      <4>4. going' = going - 1
        BY <1>1, <3>1
      <4> QED BY <1>1, <2>1, <2>3, <4>3, <4>4
    <3>2. CASE ~entries[pos + 1].flag
      <4>1. Between(pos, k) = Between(pos + 1, k)
        BY <1>1, <2>2, <3>2 DEF Between
      <4>2. going' = going
        BY <1>1, <1>6, <3>2, Nothing
      <4> QED BY <2>1, <4>1, <4>2
    <3> QED BY <1>2, <3>1, <3>2
  <2>5. k \in (pos + 1)..Len(entries)
    BY <1>1, <2>2
  <2>6. Between(pos, k)' = Between(pos + 1, k)
    BY <1>4 DEF Between
  <2>7. \E i \in pos'..Len(entries') : entries'[i].page = shown' /\ entries'[i].flag /\ going' >= Cardinality(Between(pos, i)')
    BY <1>4, <2>1, <2>4, <2>5, <2>6
  <2> QED BY <1>4, <1>6, <2>7, Nothing DEF Returning, Between
<1> QED BY <1>1, <1>5, <1>6

\* A page without a guard is not followed to where it is, and no entry of it is next to another.
LEMMA NoFollowing ==
  ASSUME NavInv, NEW k \in 1..Len(entries), k = pos - 1 \/ k = pos + 1, entries[k].page = shown, guard = None
  PROVE  tlost \/ N!Followed(shown, told) = None
<1> SUFFICES ASSUME ~tlost, N!Followed(shown, told) # None PROVE FALSE
  OBVIOUS
<1>1. shown \in {"contract", "timer"}
  BY FollowedPage DEF NavInv, N!NavTypeOK
<1>2. shown = "contract"
  BY <1>1, Nothing DEF NavInv, HistoryInv, Guarding, StayPages
<1>3. entries[pos].page = "contract" /\ entries[k].page = "contract"
  BY <1>2 DEF NavInv, HistoryInv, Returning
<1>4. pos \in 1..Len(entries) /\ Len(entries) \in Nat /\ pos \in Nat
  BY DEF NavInv, N!NavTypeOK
<1>5. ContractOnce(entries)
  BY DEF NavInv, PhaseInv, OneContract
<1>6. CASE k = pos + 1
  <2>1. pos \in 1..(Len(entries) - 1)
    BY <1>4, <1>6
  <2> QED BY <1>3, <1>5, <1>6, <2>1 DEF ContractOnce
<1>7. CASE k = pos - 1
  <2>1. k \in 1..(Len(entries) - 1) /\ k + 1 = pos
    BY <1>4, <1>7
  <2> QED BY <1>3, <1>5, <2>1 DEF ContractOnce
<1> QED BY <1>6, <1>7

LEMMA HistoryShape ==
  ASSUME NavInv
  PROVE  /\ entries \in Seq(NavEntry) /\ Len(entries) \in Nat /\ pos \in Nat /\ pos >= 1 /\ pos <= Len(entries)
         /\ pos \in 1..Len(entries) /\ PagesOf(entries) \subseteq TabPages /\ Apart(entries) /\ ContractOnce(entries)
         /\ shown \in N!Routes /\ shown \in TabPages /\ (nav # None => nav.page \in TabPages)
         /\ {ttoken, from, tlost, leaving} \subseteq BOOLEAN /\ going \in Nat /\ clicks \in 0..MaxClicks
BY DEF NavInv, N!NavTypeOK, NavEntry, TabPages, HistoryInv, Guarding, PhaseInv, OneContract

\* A traversal.
LEMMA TraversedKeeps ==
  ASSUME NavInv, NEW to \in 1..Len(entries), NEW left \in Nat, NEW as, N!Traversed(to, left, as),
         UNCHANGED <<tphase, mine, thost, tguest, owes, ttoken, from>>, tlost' \in BOOLEAN, tlost => tlost',
         clicks' \in 0..MaxClicks, as \in [N!Requests -> {None, "sent", "ok", "no", "gone"}],
         \A r \in N!Requests : as[r] \in {tasked[r], None},
         \/ to = pos - 1 /\ left = going /\ tlost' = tlost
         \/ to = pos + 1 /\ going > 0 /\ left = going - 1 /\ tlost' = (tlost \/ N!Overshoots)
  PROVE  NavInv'
<1>1. entries[to].page \in N!Routes /\ entries[to].page \in PagesOf(entries)
  BY HistoryShape, EntryParts
<1>2. CASE entries[to].doc # entries[pos].doc
  <2>1. N!Loaded(entries[to].page, entries, to)
    BY <1>2 DEF N!Traversed
  <2> QED BY <2>1, HistoryShape, LoadedKeeps
<1>3. CASE entries[to].doc = entries[pos].doc
  <2>1. N!Popped(to, left) /\ tasked' = as
    BY <1>3 DEF N!Traversed
  <2>2. Aside
    BY <2>1, HistoryShape DEF Aside
  <2>3. CASE guard = None
    <3>1. N!Shown(entries[to].page, entries, to, left)
      BY <2>1, <2>3 DEF N!Popped
    <3>2. entries[to].page = shown => tlost' \/ (guard = None /\ N!Followed(shown, told) = None)
      BY <2>3, NoFollowing
    <3> QED BY <2>2, <3>1, <3>2, HistoryShape, ShownKeeps
  <2>4. CASE guard # None
    <3>1. Halts(to) /\ going' = left + (IF entries[to].flag \/ guard = "home" THEN 0 ELSE 1)
          /\ leaving' = (leaving \/ (~entries[to].flag /\ guard = "home"))
      BY <2>1, <2>4 DEF N!Popped, Halts, N!socket, N!pages
    <3>2. going' \in Nat /\ leaving' \in BOOLEAN
      BY <3>1
    <3>3. Returning'
      <4>1. CASE to = pos - 1 /\ left = going /\ tlost' = tlost
        <5>1. pos > 1
          BY <4>1, HistoryShape
        <5> QED BY <2>4, <3>1, <4>1, <5>1, StepBackReturns
      <4>2. CASE to = pos + 1 /\ going > 0 /\ left = going - 1 /\ tlost' = (tlost \/ N!Overshoots)
        <5>1. pos < Len(entries)
          BY <4>2, HistoryShape
        <5> QED BY <2>4, <3>1, <4>2, <5>1, StepForwardReturns
      <4> QED BY <4>1, <4>2
    <3> QED BY <2>2, <3>1, <3>2, <3>3, HaltsKeeps
  <2> QED BY <2>3, <2>4
<1> QED BY <1>2, <1>3

-----------------------------------------------------------------------------
(* The steps of the history *)

LEMMA BackKeeps == ASSUME NavInv, N!Back PROVE NavInv'
<1>1. pos - 1 \in 1..Len(entries)
  BY HistoryShape DEF N!Back
<1>2. /\ N!Traversed(pos - 1, going, tasked) /\ UNCHANGED <<tphase, mine, thost, tguest, owes, ttoken, from, tlost>>
      /\ clicks' \in 0..MaxClicks
  BY HistoryShape, Nothing DEF N!Back, N!Touch, N!room
<1>3. tasked \in [N!Requests -> {None, "sent", "ok", "no", "gone"}]
  BY DEF NavInv, N!NavTypeOK
<1> QED BY <1>1, <1>2, <1>3, HistoryShape, TraversedKeeps

LEMMA GoForwardKeeps == ASSUME NavInv, N!GoForward PROVE NavInv'
<1>1. /\ going > 0 /\ UNCHANGED <<tphase, mine, thost, tguest, owes, ttoken, from, clicks>>
      /\ tlost' = (tlost \/ N!Overshoots) /\ tlost' \in BOOLEAN
  BY HistoryShape DEF N!GoForward, N!room, N!Overshoots
<1>2. tasked \in [N!Requests -> {None, "sent", "ok", "no", "gone"}]
  BY DEF NavInv, N!NavTypeOK
<1>3. CASE pos < Len(entries)
  <2>1. pos + 1 \in 1..Len(entries) /\ going - 1 \in Nat
    BY <1>1, <1>3, HistoryShape
  <2>2. N!Traversed(pos + 1, going - 1, tasked)
    BY <1>3 DEF N!GoForward
  <2> QED BY <1>1, <1>2, <2>1, <2>2, HistoryShape, TraversedKeeps
<1>4. CASE ~(pos < Len(entries))
  <2>1. going' = going - 1 /\ UNCHANGED <<entries, pos, shown, guard, nav, leaving, tfresh, blocked, link, told, twire, tasked, step, tseen, card, tlate>>
    BY <1>4 DEF N!GoForward, N!session, N!socket, N!pages
  <2>2. Halts(pos)
    BY <2>1, HistoryShape DEF Halts
  <2>3. Aside
    BY <1>1, <1>2, <2>1, HistoryShape DEF Aside
  <2>4. Returning'
    <3> SUFFICES ASSUME ~tlost' PROVE Returning'
      BY DEF Returning
    <3>1. CASE guard = "stay"
      <4>1. PICK k \in pos..Len(entries) : entries[k].page = shown /\ entries[k].flag /\ going >= Cardinality(Between(pos, k))
        BY <1>1, <3>1 DEF NavInv, HistoryInv, Returning
      <4>2. k = pos /\ Between(pos, k) = {}
        BY <1>4, <4>1, HistoryShape DEF Between
      <4>3. going' >= Cardinality(Between(pos, k)')
        <5>1. Between(pos, k)' = Between(pos, k)
          BY <2>1 DEF Between
        <5>2. Cardinality(Between(pos, k)') = 0
          BY <4>2, <5>1, FS_EmptySet
        <5>3. going' >= 0
          BY <1>1, <2>1, HistoryShape
        <5> QED BY <5>2, <5>3
      <4>4. \E i \in pos'..Len(entries') : entries'[i].page = shown' /\ entries'[i].flag /\ going' >= Cardinality(Between(pos, i)')
        BY <2>1, <4>1, <4>3
      <4> QED BY <2>1, <3>1, <4>4, Nothing DEF Returning, Between
    <3>2. CASE guard # "stay"
      BY <1>1, <2>1, <3>2 DEF NavInv, HistoryInv, Returning
    <3> QED BY <3>1, <3>2
  <2> QED BY <1>1, <2>1, <2>2, <2>3, <2>4, HistoryShape, HaltsKeeps
<1> QED BY <1>3, <1>4

LEMMA TabReloadKeeps == ASSUME NavInv, N!Reload PROVE NavInv'
<1>1. /\ N!Loaded(entries[pos].page, entries, pos) /\ UNCHANGED <<tphase, mine, thost, tguest, owes, ttoken, from, tlost>>
      /\ clicks' \in 0..MaxClicks
  BY HistoryShape, Nothing DEF N!Reload, N!Click, N!Touch, N!room
<1> QED BY <1>1, HistoryShape, LoadedKeeps

\* There is always another document.
LEMMA DocumentLeft ==
  ASSUME NEW es \in Seq(NavEntry)
  PROVE  \E d \in 0..Len(es) : d \notin {es[i].doc : i \in DOMAIN es}
<1> DEFINE used == {es[i].doc : i \in 1..Len(es)}
           F == [i \in 1..Len(es) |-> es[i].doc]
<1>1. Len(es) \in Nat /\ DOMAIN es = 1..Len(es)
  OBVIOUS
<1>2. IsFiniteSet(1..Len(es)) /\ Cardinality(1..Len(es)) = Len(es)
  BY <1>1, FS_Interval
<1>3. F \in Surjection(1..Len(es), used)
  BY DEF Surjection
<1> HIDE DEF F
<1>4. IsFiniteSet(used) /\ Cardinality(used) <= Len(es)
  BY <1>2, <1>3, FS_Surjection
<1>5. IsFiniteSet(0..Len(es)) /\ Cardinality(0..Len(es)) = Len(es) + 1
  BY <1>1, FS_Interval
<1>6. ~(0..Len(es) \subseteq used)
  <2> SUFFICES ASSUME 0..Len(es) \subseteq used PROVE FALSE
    OBVIOUS
  <2>1. Cardinality(0..Len(es)) <= Cardinality(used)
    BY <1>4, FS_Subset
  <2>2. Cardinality(used) \in Nat
    BY <1>4, FS_CardinalityType
  <2> QED BY <1>1, <1>4, <1>5, <2>1, <2>2
<1> QED BY <1>1, <1>6

LEMMA TabLeaveKeeps == ASSUME NavInv, N!Leave PROVE NavInv'
<1> DEFINE d == CHOOSE x \in 0..Len(entries) : x \notin {entries[i].doc : i \in DOMAIN entries}
           e == [page |-> "home", flag |-> FALSE, doc |-> d]
           es == [entries EXCEPT ![pos] = e]
<1>1. d \in Nat
  BY HistoryShape, DocumentLeft
<1>2. N!Loaded("home", es, pos) /\ UNCHANGED <<tphase, mine, thost, tguest, owes, ttoken, from, tlost, clicks>> /\ leaving
  BY DEF N!Leave, N!room
<1>3. e \in NavEntry /\ ~e.flag /\ e.page = "home"
  BY <1>1 DEF NavEntry, N!Routes
<1> HIDE DEF d, e
<1>4. /\ es \in Seq(NavEntry) /\ Len(es) = Len(entries) /\ es[pos] = e /\ PagesOf(es) \subseteq PagesOf(entries) \cup {"home"}
      /\ Apart(es) /\ ContractOnce(es)
  BY <1>3, HistoryShape, ReplacedKeeps
<1> QED BY <1>2, <1>3, <1>4, HistoryShape, LoadedKeeps

LEMMA CommitKeeps == ASSUME NavInv, N!Commit PROVE NavInv'
<1> DEFINE e == [page |-> nav.page, flag |-> FALSE, doc |-> entries[pos].doc]
<1>1. nav # None /\ nav \in NavMove /\ nav.page \in N!Routes /\ nav.how \in {"push", "replace"} /\ nav # N!Replace("contract")
  BY DEF N!Commit, NavInv, N!NavTypeOK, NavMove, PhaseInv, OneContract
<1>2. nav.page = "contract" => nav.how = "push"
  BY <1>1 DEF NavMove, N!Replace
<1>3. e \in NavEntry /\ ~e.flag /\ e.page = nav.page
  BY <1>1, HistoryShape, EntryParts DEF NavEntry
<1>4. Aside
  BY HistoryShape DEF N!Commit, N!room, Aside, NavInv, N!NavTypeOK
<1>5. nav.page = shown => tlost' \/ (guard = None /\ N!Followed(shown, told) = None)
  <2> SUFFICES ASSUME nav.page = shown, ~tlost' PROVE guard = None /\ N!Followed(shown, told) = None
    OBVIOUS
  <2>1. shown = "home"
    BY <1>1, <1>4 DEF NavInv, HistoryInv, GoingAway, Aside
  <2>2. guard = None
    BY <2>1 DEF NavInv, N!NavTypeOK, HistoryInv, Guarding, StayPages
  <2>3. N!Followed(shown, told) = None
    BY <2>1, HistoryShape, FollowedPage
  <2> QED BY <2>2, <2>3
<1>6. entries[pos].page \in N!Routes
  BY HistoryShape, EntryParts
<1>7. CASE nav.how = "push" /\ entries[pos].page # nav.page
  <2> DEFINE es == Append(SubSeq(entries, 1, pos), e)
  <2>1. N!Shown(nav.page, es, pos + 1, going)
    BY <1>7 DEF N!Commit
  <2> HIDE DEF e
  <2>2. /\ es \in Seq(NavEntry) /\ Len(es) = pos + 1 /\ es[pos + 1] = e
        /\ PagesOf(es) \subseteq PagesOf(entries) \cup {e.page} /\ Apart(es) /\ ContractOnce(es)
    <3>1. entries \in Seq(NavEntry) /\ pos \in 1..Len(entries) /\ e \in NavEntry /\ Apart(entries) /\ ContractOnce(entries)
      BY <1>3, HistoryShape
    <3>2. (e.flag => ~entries[pos].flag) /\ (e.page = "contract" => entries[pos].page # "contract")
      BY <1>3, <1>7
    <3>3. es \in Seq(NavEntry) /\ Len(es) = pos + 1 /\ es[pos + 1] = e
      BY <3>1, Appended, Zenon
    <3>4. /\ PagesOf(es) \subseteq PagesOf(entries) \cup {e.page}
          /\ Apart(entries) /\ (e.flag => ~entries[pos].flag) => Apart(es)
          /\ ContractOnce(entries) /\ (e.page = "contract" => entries[pos].page # "contract") => ContractOnce(es)
      BY <3>1, AppendedKeeps, Zenon
    <3> QED BY <3>1, <3>2, <3>3, <3>4
  <2>3. PagesOf(es) \subseteq TabPages
    BY <1>1, <1>3, <2>2, HistoryShape
  <2>4. pos + 1 \in 1..Len(es) /\ es[pos + 1].page = nav.page
    BY <1>3, <2>2, HistoryShape
  <2> HIDE DEF es
  <2> QED BY <1>4, <1>5, <2>1, <2>2, <2>3, <2>4, HistoryShape, ShownKeeps
<1>8. CASE ~(nav.how = "push" /\ entries[pos].page # nav.page)
  <2> DEFINE es == [entries EXCEPT ![pos] = e]
  <2>1. N!Shown(nav.page, es, pos, going)
    BY <1>8 DEF N!Commit
  <2> HIDE DEF e
  <2>2. /\ es \in Seq(NavEntry) /\ Len(es) = Len(entries) /\ es[pos] = e
        /\ PagesOf(es) \subseteq PagesOf(entries) \cup {e.page} /\ Apart(es) /\ ContractOnce(es)
    BY <1>2, <1>3, <1>8, HistoryShape, ReplacedKeeps
  <2>3. PagesOf(es) \subseteq TabPages
    BY <1>1, <1>3, <2>2, HistoryShape
  <2>4. pos \in 1..Len(es) /\ es[pos].page = nav.page
    BY <1>3, <2>2, HistoryShape
  <2> HIDE DEF es
  <2> QED BY <1>4, <1>5, <2>1, <2>2, <2>3, <2>4, HistoryShape, ShownKeeps
<1> QED BY <1>7, <1>8

-----------------------------------------------------------------------------
(* The steps of a page that is not left *)

\* What such a step may do.
Stays ==
  /\ UNCHANGED <<tphase, mine, thost, tguest, owes, entries, pos, shown, guard, going, leaving, tfresh, blocked, link, told, twire>>
  /\ {ttoken', from', tlost', tlate'} \subseteq BOOLEAN /\ (tlost => tlost') /\ clicks' \in 0..MaxClicks
  /\ tasked' \in [N!Requests -> {None, "sent", "ok", "no", "gone"}]
  /\ step' \in {"form", "creating", "complete"} /\ card' \in N!Phases \cup {"no", None}
  /\ tseen' \in [room : N!Phases \cup {None}, active : BOOLEAN \cup {None}, done : BOOLEAN]

\* Where it may have the router go.
Sends ==
  \/ nav' = nav
  \/ /\ nav' \in NavMove /\ nav' # N!Replace("contract")
     /\ tlost' \/ nav'.page = "home" \/ nav'.page # shown
     /\ nav'.page = "timer" => tphase \in {"timer", "result"} /\ told.phase # "contract"
     /\ nav'.page = "semi" => tphase = "result"

\* What it may find out.
Learns ==
  /\ card' = "timer" => card = "timer" \/ tphase \in {"timer", "result"}
  /\ tasked'["poll"] = "ok" => tphase = "result"
  /\ tseen' = tseen \/ (shown = "join" /\ tseen'.room \in {tseen.room, tphase})

\* Before there is a room nothing is found out.
Waits ==
  tphase = "none" =>
    /\ nav' = nav \/ nav'.page \in {"home", "create"}
    /\ step' # "complete" /\ card' \notin N!Phases
    /\ \A r \in {"join", "leave", "giveUp", "poll"} : tasked'[r] = None
    /\ \A r \in {"enter", "create", "destroy"} : tasked'[r] # "ok"

LEMMA StaysKeeps == ASSUME NavInv, Stays, Sends, Learns, Waits PROVE NavInv'
<1>1. nav' = None \/ nav' \in NavMove
  BY DEF Sends, NavInv, N!NavTypeOK, NavMove
<1>2. N!NavTypeOK'
  BY <1>1 DEF NavInv, Stays, N!NavTypeOK, NavMove
<1>3. Guarding' /\ Returning'
  BY DEF NavInv, HistoryInv, Guarding, Returning, Between, Stays
<1>4. GoingAway'
  BY DEF NavInv, HistoryInv, GoingAway, Stays, Sends
<1>5. TabPages' \subseteq TabPages \cup (IF nav' = None THEN {} ELSE {nav'.page}) /\ (nav' = nav => TabPages' = TabPages)
  BY DEF TabPages, Stays
<1>6. \A r \in N!Phases : r # None
  BY Nothing
<1>7. {"none", "timer", "result", "closed"} \subseteq N!Phases
  BY DEF N!Phases
<1>8. NoRoom'
  <2> SUFFICES ASSUME tphase = "none" PROVE NotYet'
    BY DEF NoRoom, Stays
  <2>1. NotYet
    BY DEF NavInv, PhaseInv, NoRoom
  <2>2. TabPages' \subseteq {"home", "create"}
    BY <1>5, <2>1 DEF NotYet, Waits
  <2> QED BY <2>1, <2>2 DEF NotYet, Waits, Stays
<1>9. Looked'
  <2>1. tphase = "none" => shown # "join"
    BY HistoryShape DEF NavInv, PhaseInv, NoRoom, NotYet
  <2> QED BY <2>1 DEF NavInv, PhaseInv, Looked, Learns, Stays
<1>10. SessionBegun'
  <2>1. tseen'.room = "timer" => tphase \in {"timer", "result"}
    BY DEF NavInv, PhaseInv, SessionBegun, Learns
  <2>2. "timer" \in TabPages' => tphase \in {"timer", "result"} /\ told.phase # "contract"
    BY <1>5 DEF NavInv, PhaseInv, SessionBegun, Sends
  <2>3. card' = "timer" => tphase \in {"timer", "result"}
    BY DEF NavInv, PhaseInv, SessionBegun, Learns
  <2> QED BY <2>1, <2>2, <2>3 DEF NavInv, PhaseInv, SessionBegun, Hears, Stays
<1>11. SessionOver'
  <2>1. tseen'.room = "result" => tphase = "result"
    BY DEF NavInv, PhaseInv, SessionOver, Learns
  <2>2. "semi" \in TabPages' => tphase = "result"
    BY <1>5 DEF NavInv, PhaseInv, SessionOver, Sends
  <2>3. tasked'["poll"] = "ok" => tphase = "result"
    BY DEF Learns
  <2> QED BY <2>1, <2>2, <2>3 DEF NavInv, PhaseInv, SessionOver, Hears, Stays
<1>12. OneContract'
  BY DEF NavInv, PhaseInv, OneContract, Stays, Sends
<1>13. Linked'
  BY DEF NavInv, PhaseInv, Linked, Stays
<1>14. Following'
  BY Nothing DEF NavInv, PhaseInv, Following, Stays, Sends
<1> QED BY <1>2, <1>3, <1>4, <1>8, <1>9, <1>10, <1>11, <1>12, <1>13, <1>14 DEF NavInv, HistoryInv, PhaseInv

\* Sends only where the router can go.
LEMMA Moving ==
  ASSUME NEW to \in N!Routes
  PROVE  /\ N!Push(to) \in NavMove /\ N!Push(to).page = to /\ N!Push(to) # N!Replace("contract")
         /\ N!Replace(to) \in NavMove /\ N!Replace(to).page = to
         /\ (to # "contract" => N!Replace(to) # N!Replace("contract"))
         /\ (to # "home" => N!Push(to) # N!Replace("home") /\ N!Replace(to) # N!Replace("home"))
<1>1. N!Push(to) = [how |-> "push", page |-> to] /\ N!Replace(to) = [how |-> "replace", page |-> to]
  BY DEF N!Push, N!Replace
<1>2. \A x : N!Replace(x).how = "replace" /\ N!Replace(x).page = x
  BY DEF N!Replace
<1> QED BY <1>1, <1>2 DEF NavMove

\* Before there is a room the tab is on the home page or that of a new room.
LEMMA OutsideRoom ==
  ASSUME NavInv, tphase = "none"
  PROVE  shown \in {"home", "create"} /\ NotYet
BY HistoryShape DEF NavInv, PhaseInv, NoRoom, NotYet

\* A page outside a joined room has been told nothing.
LEMMA ToldNothing ==
  ASSUME NavInv, shown \notin N!Joined
  PROVE  told = N!Untold /\ told.phase = None /\ twire = <<>> /\ link = "none" /\ told.phase # "contract"
<1>1. told = N!Untold /\ twire = <<>> /\ link = "none"
  BY DEF NavInv, PhaseInv, Linked, N!NavTypeOK
<1>2. None # "contract"
  BY Nothing DEF N!Phases
<1> QED BY <1>1, <1>2 DEF N!Untold

\* Only the router is asked.
LEMMA GotoKeeps ==
  ASSUME NavInv, NEW move \in NavMove, N!Goto(move), ttoken' \in BOOLEAN, from' \in BOOLEAN, move # N!Replace("contract"),
         move.page = "home" \/ move.page # shown, move.page # "semi", tphase = "none" => move.page \in {"home", "create"},
         move.page = "timer" => tphase \in {"timer", "result"} /\ told.phase # "contract"
  PROVE  NavInv'
<1>1. /\ nav' = move /\ clicks' \in 0..MaxClicks
      /\ UNCHANGED <<tphase, mine, thost, tguest, owes, entries, pos, shown, guard, going, leaving, tfresh, blocked, link, told, twire, tasked, step, tseen, card, tlate, tlost>>
  BY HistoryShape, Nothing DEF N!Goto, N!Click, N!Touch, N!Still, N!room, N!session, N!socket, N!pages
<1>2. Stays
  BY <1>1, HistoryShape DEF Stays, NavInv, N!NavTypeOK
<1>3. Sends
  BY <1>1 DEF Sends
<1>4. Learns
  BY <1>1 DEF Learns, NavInv, PhaseInv, SessionOver
<1>5. Waits
  BY <1>1, OutsideRoom DEF Waits, NotYet
<1> QED BY <1>2, <1>3, <1>4, <1>5, StaysKeeps

LEMMA HomeKeeps == ASSUME NavInv, N!Home PROVE NavInv'
<1>1. shown = "home" /\ UNCHANGED <<ttoken, from>> /\ {ttoken, from} \subseteq BOOLEAN
  BY HistoryShape DEF N!Home
<1>2. shown \notin N!Joined
  BY <1>1 DEF N!Joined
<1>3. CASE card \in N!Phases /\ N!Goto(N!Push(N!Path(card)))
  <2>1. N!Path(card) \in {"contract", "timer", "join"} /\ (N!Path(card) = "timer" => card = "timer")
    BY DEF N!Path
  <2>2. N!Path(card) \in N!Routes
    BY <2>1 DEF N!Routes, N!Joined
  <2>3. N!Path(card) = "timer" => tphase \in {"timer", "result"}
    BY <2>1 DEF NavInv, PhaseInv, SessionBegun
  <2>4. tphase # "none"
    BY <1>3, OutsideRoom DEF NotYet
  <2> QED BY <1>1, <1>2, <1>3, <2>1, <2>2, <2>3, <2>4, Moving, ToldNothing, GotoKeeps
<1>4. CASE N!Goto(N!Push("create"))
  <2>1. "create" \in N!Routes
    BY DEF N!Routes
  <2> QED BY <1>1, <1>4, <2>1, Moving, GotoKeeps
<1> QED BY <1>3, <1>4 DEF N!Home

LEMMA CreateKeeps == ASSUME NavInv, N!Create PROVE NavInv'
<1>1. shown = "create" /\ UNCHANGED <<ttoken, from>> /\ {ttoken, from} \subseteq BOOLEAN
  BY HistoryShape DEF N!Create
<1>2. shown \notin N!Joined /\ {"join", "home"} \subseteq N!Routes
  BY <1>1 DEF N!Joined, N!Routes
<1>3. tphase # "none"
  BY OutsideRoom DEF NotYet, N!Create
<1>4. CASE N!Goto(N!Push("join"))
  BY <1>1, <1>2, <1>3, <1>4, Moving, GotoKeeps
<1>5. CASE card \in N!Phases /\ N!Goto(N!Push(N!Path(card)))
  <2>1. N!Path(card) \in {"contract", "timer", "join"} /\ (N!Path(card) = "timer" => card = "timer")
    BY DEF N!Path
  <2>2. N!Path(card) \in N!Routes
    BY <2>1 DEF N!Routes, N!Joined
  <2>3. N!Path(card) = "timer" => tphase \in {"timer", "result"}
    BY <2>1 DEF NavInv, PhaseInv, SessionBegun
  <2> QED BY <1>1, <1>2, <1>3, <1>5, <2>1, <2>2, <2>3, Moving, ToldNothing, GotoKeeps
<1>6. CASE N!Goto(N!Push("home"))
  BY <1>1, <1>2, <1>3, <1>6, Moving, GotoKeeps
<1> QED BY <1>4, <1>5, <1>6 DEF N!Create

LEMMA TabGoOnKeeps == ASSUME NavInv, N!GoOn PROVE NavInv'
<1>1. {"home", "roulette", "total"} \subseteq N!Routes
  BY DEF N!Routes
<1>2. tphase # "none"
  BY OutsideRoom DEF N!GoOn, N!Joined
<1>3. ttoken' \in BOOLEAN /\ from' \in BOOLEAN
  BY HistoryShape DEF N!GoOn, N!GuestGone, NavInv, N!NavTypeOK
<1>4. CASE N!Goto(N!Push("home")) \/ N!Goto(N!Replace("home"))
  BY <1>1, <1>2, <1>3, <1>4, Moving, GotoKeeps
<1>5. CASE shown = "semi" /\ (N!Goto(N!Push("roulette")) \/ N!Goto(N!Push("total")))
  BY <1>1, <1>2, <1>3, <1>5, Moving, GotoKeeps
<1>6. CASE shown = "roulette" /\ N!Goto(N!Replace("total"))
  BY <1>1, <1>2, <1>3, <1>6, Moving, GotoKeeps
<1> QED BY <1>4, <1>5, <1>6 DEF N!GoOn

\* A request is sent, or answered.
LEMMA RequestSent ==
  ASSUME NavInv, NEW r \in N!Requests, NEW how \in {None, "sent", "ok", "no", "gone"}, tasked' = [tasked EXCEPT ![r] = how]
  PROVE  /\ tasked' \in [N!Requests -> {None, "sent", "ok", "no", "gone"}]
         /\ tasked'[r] = how /\ \A q \in N!Requests : q # r => tasked'[q] = tasked[q]
         /\ tasked[r] \in {None, "sent", "ok", "no", "gone"}
BY DEF NavInv, N!NavTypeOK

LEMMA RequestNames ==
  /\ N!Requests = {"enter", "create", "destroy", "join", "leave", "giveUp", "poll"}
  /\ None \notin {"sent", "ok", "no", "gone"}
BY Nothing DEF N!Requests

LEMMA AsksKeeps ==
  ASSUME NavInv, NEW r \in N!Requests, N!Asks(r), tphase = "none" => r \in {"enter", "create", "destroy"},
         step' = step \/ step' = "creating"
  PROVE  NavInv'
<1>1. /\ tasked' = [tasked EXCEPT ![r] = "sent"] /\ clicks' \in 0..MaxClicks
      /\ UNCHANGED <<tphase, mine, thost, tguest, owes, ttoken, entries, pos, shown, guard, nav, going, leaving, from, tfresh, blocked,
                     link, told, twire, tseen, card, tlate, tlost>>
  BY HistoryShape, Nothing DEF N!Asks, N!Ask, N!Click, N!Touch, N!room, N!session, N!moves, N!tab, N!socket
<1>2. /\ tasked' \in [N!Requests -> {None, "sent", "ok", "no", "gone"}]
      /\ tasked'[r] = "sent" /\ \A q \in N!Requests : q # r => tasked'[q] = tasked[q]
  BY <1>1, RequestSent
<1>3. Stays
  BY <1>1, <1>2, HistoryShape DEF Stays, NavInv, N!NavTypeOK
<1>4. Sends
  BY <1>1 DEF Sends
<1>5. Learns
  BY <1>1, <1>2, RequestNames DEF Learns, NavInv, PhaseInv, SessionOver
<1>6. Waits
  BY <1>1, <1>2, RequestNames, OutsideRoom DEF Waits, NotYet
<1> QED BY <1>3, <1>4, <1>5, <1>6, StaysKeeps

LEMMA ClicksKeep ==
  ASSUME NavInv, N!EnterCode \/ N!Submit \/ N!Destroy \/ N!Join \/ N!LeaveRoom \/ N!Forfeit
  PROVE  NavInv'
<1>1. CASE N!EnterCode
  BY <1>1, RequestNames, AsksKeeps DEF N!EnterCode
<1>2. CASE N!Submit
  BY <1>2, RequestNames, AsksKeeps DEF N!Submit
<1>3. CASE N!Destroy
  BY <1>3, RequestNames, AsksKeeps DEF N!Destroy
<1>4. CASE N!Join
  BY <1>4, RequestNames, OutsideRoom, AsksKeeps DEF N!Join
<1>5. CASE N!LeaveRoom
  BY <1>5, RequestNames, OutsideRoom, AsksKeeps DEF N!LeaveRoom
<1>6. CASE N!Forfeit
  BY <1>6, RequestNames, OutsideRoom, AsksKeeps DEF N!Forfeit
<1> QED BY <1>1, <1>2, <1>3, <1>4, <1>5, <1>6

LEMMA CloseDialogKeeps == ASSUME NavInv, N!CloseDialog PROVE NavInv'
<1>1. /\ tasked' = [tasked EXCEPT !["enter"] = "no"] /\ clicks' \in 0..MaxClicks
      /\ UNCHANGED <<tphase, mine, thost, tguest, owes, ttoken, entries, pos, shown, guard, nav, going, leaving, from, tfresh, blocked,
                     link, told, twire, step, tseen, card, tlate, tlost>>
  BY HistoryShape, Nothing DEF N!CloseDialog, N!Click, N!Touch, N!room, N!session, N!moves, N!tab,
     N!socket, N!pages
<1>2. /\ tasked' \in [N!Requests -> {None, "sent", "ok", "no", "gone"}]
      /\ tasked'["enter"] = "no" /\ \A q \in N!Requests : q # "enter" => tasked'[q] = tasked[q]
  BY <1>1, RequestNames, RequestSent
<1>3. Stays
  BY <1>1, <1>2, HistoryShape DEF Stays, NavInv, N!NavTypeOK
<1>4. Sends
  BY <1>1 DEF Sends
<1>5. Learns
  BY <1>1, <1>2, RequestNames DEF Learns, NavInv, PhaseInv, SessionOver
<1>6. Waits
  BY <1>1, <1>2, RequestNames, OutsideRoom DEF Waits, NotYet
<1> QED BY <1>3, <1>4, <1>5, <1>6, StaysKeeps

LEMMA LookForRoomKeeps == ASSUME NavInv, N!LookForRoom PROVE NavInv'
<1>1. /\ UNCHANGED <<tphase, mine, thost, tguest, owes, entries, pos, shown, guard, nav, going, leaving, from, tfresh, blocked,
                     link, told, twire, tasked, step, tseen, tlate, tlost, clicks>>
      /\ card' = (IF N!Active THEN tphase ELSE "no") /\ (IF N!Active THEN ttoken' = ttoken ELSE N!GuestGone)
  BY DEF N!LookForRoom, N!Quiet, N!room, N!session, N!tab, N!socket
<1>2. card' \in N!Phases \cup {"no", None} /\ ttoken' \in BOOLEAN
  BY <1>1, HistoryShape DEF NavInv, N!NavTypeOK, N!GuestGone
<1>3. Stays
  BY <1>1, <1>2, HistoryShape DEF Stays, NavInv, N!NavTypeOK
<1>4. Sends
  BY <1>1 DEF Sends
<1>5. Learns
  BY <1>1 DEF Learns, NavInv, PhaseInv, SessionOver
<1>6. Waits
  BY <1>1, OutsideRoom DEF Waits, NotYet, N!Active, N!Phases
<1> QED BY <1>3, <1>4, <1>5, <1>6, StaysKeeps

\* What the effects of JoinRoom make of an answer.
LEMMA TurnedSeen ==
  ASSUME NavInv, NEW s \in [room : N!Phases \cup {None}, active : BOOLEAN \cup {None}, done : BOOLEAN], N!Turned(s)
  PROVE  /\ tseen' \in [room : N!Phases \cup {None}, active : BOOLEAN \cup {None}, done : BOOLEAN] /\ tseen'.room = s.room
         /\ \/ nav' = nav
            \/ nav' = N!Replace("home")
            \/ nav' = N!Replace("timer") /\ s.room = "timer"
         /\ UNCHANGED <<tphase, mine, thost, tguest, owes, ttoken, entries, pos, shown, guard, going, leaving, from, tfresh, blocked,
                        link, told, twire, tasked, step, card, tlate, tlost, clicks>>
<1>1. tseen' = [s EXCEPT !.done = s.done \/ s.room = "result" \/ (s.room = "timer" /\ (~ttoken \/ s.active # None))]
  BY DEF N!Turned
<1>2. /\ tseen' \in [room : N!Phases \cup {None}, active : BOOLEAN \cup {None}, done : BOOLEAN] /\ tseen'.room = s.room
  BY <1>1
<1>3. \/ nav' = nav
      \/ nav' = N!Replace("home")
      \/ nav' = N!Replace("timer") /\ s.room = "timer"
  BY DEF N!Turned
<1> QED BY <1>2, <1>3 DEF N!Turned, N!Quiet, N!room, N!session, N!tab, N!socket

\* The two answers there are.
LEMMA JoinLookTurns ==
  ASSUME NavInv, N!JoinLook
  PROVE  /\ shown = "join"
         /\ \E s \in [room : N!Phases \cup {None}, active : BOOLEAN \cup {None}, done : BOOLEAN] :
              /\ N!Turned(s)
              /\ \/ s = [tseen EXCEPT !.room = tphase]
                 \/ ttoken /\ s = [tseen EXCEPT !.active = N!Active]
<1>1. /\ tseen \in [room : N!Phases \cup {None}, active : BOOLEAN \cup {None}, done : BOOLEAN]
      /\ tphase \in N!Phases /\ N!Active \in BOOLEAN
  BY DEF NavInv, N!NavTypeOK, N!Active
<1>2. /\ [tseen EXCEPT !.room = tphase] \in [room : N!Phases \cup {None}, active : BOOLEAN \cup {None}, done : BOOLEAN]
      /\ [tseen EXCEPT !.active = N!Active] \in [room : N!Phases \cup {None}, active : BOOLEAN \cup {None}, done : BOOLEAN]
  BY <1>1
<1> QED BY <1>2 DEF N!JoinLook

LEMMA JoinLookKeeps == ASSUME NavInv, N!JoinLook PROVE NavInv'
<1>1. shown = "join" /\ shown \notin N!Joined /\ tphase # "none"
  BY JoinLookTurns, OutsideRoom DEF N!Joined
<1>2. PICK s \in [room : N!Phases \cup {None}, active : BOOLEAN \cup {None}, done : BOOLEAN] :
        N!Turned(s) /\ s.room \in {tseen.room, tphase}
  <2>1. tseen \in [room : N!Phases \cup {None}, active : BOOLEAN \cup {None}, done : BOOLEAN]
    BY DEF NavInv, N!NavTypeOK
  <2> QED BY <2>1, JoinLookTurns
<1>3. /\ tseen' \in [room : N!Phases \cup {None}, active : BOOLEAN \cup {None}, done : BOOLEAN] /\ tseen'.room = s.room
      /\ \/ nav' = nav
         \/ nav' = N!Replace("home")
         \/ nav' = N!Replace("timer") /\ s.room = "timer"
      /\ UNCHANGED <<tphase, mine, thost, tguest, owes, ttoken, entries, pos, shown, guard, going, leaving, from, tfresh, blocked,
                     link, told, twire, tasked, step, card, tlate, tlost, clicks>>
  BY <1>2, TurnedSeen
<1>4. Stays
  BY <1>3, HistoryShape DEF Stays, NavInv, N!NavTypeOK
<1>5. Sends
  <2>1. s.room = "timer" => tphase \in {"timer", "result"}
    BY <1>2 DEF NavInv, PhaseInv, SessionBegun
  <2>2. {"home", "timer"} \subseteq N!Routes
    BY DEF N!Routes, N!Joined
  <2> QED BY <1>1, <1>3, <2>1, <2>2, Moving, ToldNothing DEF Sends
<1>6. Learns
  BY <1>1, <1>2, <1>3 DEF Learns, NavInv, PhaseInv, SessionOver
<1>7. Waits
  BY <1>1 DEF Waits
<1> QED BY <1>4, <1>5, <1>6, <1>7, StaysKeeps

LEMMA PollKeeps == ASSUME NavInv, N!Poll PROVE NavInv'
<1>1. /\ tasked' = [tasked EXCEPT !["poll"] = "sent"] /\ shown = "timer"
      /\ UNCHANGED <<tphase, mine, thost, tguest, owes, ttoken, entries, pos, shown, guard, nav, going, leaving, from, tfresh, blocked,
                     link, told, twire, step, tseen, card, tlate, tlost, clicks>>
  BY DEF N!Poll, N!Ask, N!room, N!session, N!moves, N!tab, N!socket, N!pages
<1>2. /\ tasked' \in [N!Requests -> {None, "sent", "ok", "no", "gone"}]
      /\ tasked'["poll"] = "sent" /\ \A q \in N!Requests : q # "poll" => tasked'[q] = tasked[q]
  BY <1>1, RequestNames, RequestSent
<1>3. Stays
  BY <1>1, <1>2, HistoryShape DEF Stays, NavInv, N!NavTypeOK
<1>4. Sends
  BY <1>1 DEF Sends
<1>5. Learns
  BY <1>1, <1>2 DEF Learns
<1>6. Waits
  BY <1>1, OutsideRoom DEF Waits
<1> QED BY <1>3, <1>4, <1>5, <1>6, StaysKeeps

LEMMA TimeOverKeeps == ASSUME NavInv, N!TimeOver PROVE NavInv'
<1>1. /\ tlate' = TRUE /\ shown = "timer"
      /\ UNCHANGED <<tphase, mine, thost, tguest, owes, ttoken, entries, pos, shown, guard, nav, going, leaving, from, tfresh, blocked,
                     link, told, twire, tasked, step, tseen, card, tlost, clicks>>
  BY DEF N!TimeOver, N!room, N!session, N!moves, N!tab, N!socket
<1>2. Stays
  BY <1>1, HistoryShape DEF Stays, NavInv, N!NavTypeOK
<1>3. Sends
  BY <1>1 DEF Sends
<1>4. Learns
  BY <1>1 DEF Learns, NavInv, PhaseInv, SessionOver
<1>5. Waits
  BY <1>1, OutsideRoom DEF Waits
<1> QED BY <1>2, <1>3, <1>4, <1>5, StaysKeeps

\* An answer sends the tab on, and its page had asked for it, or the history is lost.
LEMMA AnsweredSends ==
  ASSUME NavInv, N!Answered, NEW r \in N!Requests, tasked' = [tasked EXCEPT ![r] = None], nav' # nav, ~tlost'
  PROVE  shown = N!Asker[r]
<1>1. tlost' = (tlost \/ (nav' # nav /\ (nav # None \/ \A q \in N!Requests : tasked'[q] = tasked[q] \/ shown # N!Asker[q])))
  BY DEF N!Answered
<1>2. PICK q \in N!Requests : tasked'[q] # tasked[q] /\ shown = N!Asker[q]
  BY <1>1
<1> QED BY <1>2, RequestSent

LEMMA TabAnsweredKeeps == ASSUME NavInv, N!Answered PROVE NavInv'
<1>1. UNCHANGED <<tphase, mine, thost, tguest, owes, tfresh, blocked, link, told, twire, tseen, card, tlate, clicks>>
  BY DEF N!Answered, N!room, N!socket
<1>2. tlost' \in BOOLEAN /\ (tlost => tlost')
  BY HistoryShape DEF N!Answered
<1>3. /\ UNCHANGED <<entries, pos, shown, guard, going, leaving>> /\ {ttoken', from'} \subseteq BOOLEAN
      /\ step' \in {"form", "creating", "complete"} /\ (tasked["create"] # "ok" => step' = step \/ step' = "form")
  BY HistoryShape DEF N!Answered, N!session, N!moves, N!GuestGone, NavInv, N!NavTypeOK
<1>4. PICK r \in N!Requests \ {"destroy"} :
        /\ tasked' = [tasked EXCEPT ![r] = None] /\ tasked[r] # None
        /\ \/ nav' = nav
           \/ r = "enter" /\ tasked[r] = "ok" /\ nav' = N!Push("join")
           \/ r = "join" /\ nav' = N!Push("contract")
           \/ r = "leave" /\ nav' = N!Replace("home")
           \/ r = "giveUp" /\ nav' = N!Push("giveup")
           \/ r = "poll" /\ tasked[r] = "ok" /\ nav' = N!Replace("semi")
           \/ r = "poll" /\ nav' = N!Replace("total")
  <2>1. N!Requests \ {"destroy"} = {"enter", "create", "join", "leave", "giveUp", "poll"} /\ None \notin {"ok", "no", "gone"}
    BY RequestNames
  <2> QED BY <2>1 DEF N!Answered, N!Told, N!moves
<1>5. /\ tasked' \in [N!Requests -> {None, "sent", "ok", "no", "gone"}]
      /\ tasked'[r] = None /\ \A q \in N!Requests : q # r => tasked'[q] = tasked[q]
  BY <1>4, RequestSent
<1>6. Stays
  BY <1>1, <1>2, <1>3, <1>5, HistoryShape DEF Stays, NavInv, N!NavTypeOK
<1>7. nav' # nav /\ ~tlost' => shown = N!Asker[r]
  BY <1>4, AnsweredSends
<1>8. Sends
  <2>1. {"join", "contract", "home", "giveup", "semi", "total"} \subseteq N!Routes
    BY DEF N!Routes, N!Joined
  <2>2. /\ N!Asker["enter"] = "home" /\ N!Asker["join"] = "join" /\ N!Asker["giveUp"] = "timer" /\ N!Asker["poll"] = "timer"
    BY DEF N!Asker
  <2>3. tasked["poll"] = "ok" => tphase = "result"
    BY DEF NavInv, PhaseInv, SessionOver
  <2> QED BY <1>4, <1>7, <2>1, <2>2, <2>3, Moving DEF Sends
<1>9. Learns
  BY <1>1, <1>5, RequestNames DEF Learns, NavInv, PhaseInv, SessionOver
<1>10. Waits
  <2> SUFFICES ASSUME tphase = "none" PROVE Waits
    BY DEF Waits
  <2>1. NotYet
    BY OutsideRoom
  <2>2. nav' = nav
    BY <1>4, <2>1, RequestNames DEF NotYet
  <2> QED BY <1>1, <1>3, <1>5, <2>1, <2>2, RequestNames DEF Waits, NotYet
<1> QED BY <1>6, <1>8, <1>9, <1>10, StaysKeeps

LEMMA DestroyAnsweredKeeps == ASSUME NavInv, N!DestroyAnswered PROVE NavInv'
<1>1. UNCHANGED <<tphase, mine, thost, tguest, owes, ttoken, from, clicks, tlost>> /\ "destroy" \in N!Requests
  BY RequestNames DEF N!DestroyAnswered, N!room
<1>2. CASE blocked \/ pos = 1
  <2>1. /\ tasked' = [tasked EXCEPT !["destroy"] = None] /\ (nav' = nav \/ nav' = N!Push("home"))
        /\ UNCHANGED <<entries, pos, shown, guard, going, leaving, tfresh, blocked, link, told, twire, step, tseen, card, tlate>>
    BY <1>2 DEF N!DestroyAnswered, N!Told, N!session, N!socket, N!pages
  <2>2. /\ tasked' \in [N!Requests -> {None, "sent", "ok", "no", "gone"}]
        /\ tasked'["destroy"] = None /\ \A q \in N!Requests : q # "destroy" => tasked'[q] = tasked[q]
    BY <1>1, <2>1, RequestSent
  <2>3. Stays
    BY <1>1, <2>1, <2>2, HistoryShape DEF Stays, NavInv, N!NavTypeOK
  <2>4. N!Push("home") \in NavMove /\ N!Push("home").page = "home" /\ N!Push("home") # N!Replace("contract")
    BY Moving DEF N!Routes
  <2>5. Sends
    BY <2>1, <2>4 DEF Sends
  <2>6. Learns
    BY <2>1, <2>2, RequestNames DEF Learns, NavInv, PhaseInv, SessionOver
  <2>7. Waits
    BY <2>1, <2>2, <2>4, RequestNames, OutsideRoom DEF Waits, NotYet
  <2> QED BY <2>3, <2>5, <2>6, <2>7, StaysKeeps
<1>3. CASE ~(blocked \/ pos = 1)
  <2> DEFINE as == [tasked EXCEPT !["destroy"] = None]
  <2>1. N!Traversed(pos - 1, going, as)
    BY <1>3 DEF N!DestroyAnswered
  <2>2. as \in [N!Requests -> {None, "sent", "ok", "no", "gone"}] /\ \A r \in N!Requests : as[r] \in {tasked[r], None}
    BY DEF NavInv, N!NavTypeOK
  <2>3. pos - 1 \in 1..Len(entries)
    BY <1>3, HistoryShape
  <2> HIDE DEF as
  <2> QED BY <1>1, <2>1, <2>2, <2>3, HistoryShape, TraversedKeeps
<1> QED BY <1>2, <1>3

-----------------------------------------------------------------------------
(* The steps of the server and of the socket *)

\* The tab does not notice yet.
Unnoticed == UNCHANGED <<tguest, owes, ttoken, entries, pos, shown, guard, nav, going, leaving, from, tfresh, blocked,
                         step, tseen, card, tlate, tlost, clicks>>

LEMMA UnnoticedHistory ==
  ASSUME NavInv, Unnoticed
  PROVE  HistoryInv' /\ TabPages' = TabPages
<1>1. Guarding' /\ Returning' /\ GoingAway'
  BY DEF NavInv, HistoryInv, Guarding, Returning, Between, GoingAway, Unnoticed
<1>2. TabPages' = TabPages
  BY DEF TabPages, Unnoticed
<1> QED BY <1>1, <1>2 DEF HistoryInv

LEMMA AppendTwo ==
  ASSUME NEW x, NEW y
  PROVE  Append(<<x>>, y) = <<x, y>>
<1>1. <<x>> \in Seq({x, y}) /\ y \in {x, y} /\ <<x, y>> \in Seq({x, y})
  OBVIOUS
<1>2. /\ Append(<<x>>, y) \in Seq({x, y}) /\ Len(Append(<<x>>, y)) = Len(<<x>>) + 1
      /\ \A i \in 1..Len(<<x>>) : Append(<<x>>, y)[i] = <<x>>[i]
      /\ Append(<<x>>, y)[Len(<<x>>) + 1] = y
  BY <1>1, AppendProperties
<1>a. Len(<<x>>) = 1 /\ <<x>>[1] = x
  OBVIOUS
<1>3. Len(<<x, y>>) = 2 /\ <<x, y>>[1] = x /\ <<x, y>>[2] = y
  OBVIOUS
<1>4. \A i \in 1..2 : i = 1 \/ i = 2
  OBVIOUS
<1>5. Len(Append(<<x>>, y)) = 2 /\ Append(<<x>>, y)[1] = x /\ Append(<<x>>, y)[2] = y
  BY <1>2, <1>a
<1> QED BY <1>1, <1>2, <1>3, <1>4, <1>5, SeqEqual

\* What the server may tell a page.
Spoken(e, l) ==
  \/ UNCHANGED <<link, told, twire>> /\ link # "up"
  \/ link = "up" /\ link' = l /\ told' = told /\ twire' = Append(twire, e)

LEMMA SpokenTypes ==
  ASSUME NavInv, Unnoticed, NEW e \in {"started", "ended", "closed", "kicked"}, NEW l \in {"up", "cut"}, Spoken(e, l)
  PROVE  /\ told' = told /\ twire' \in Seq({"started", "ended", "closed", "kicked"}) /\ link' \in {"none", "down", "up", "cut"}
         /\ (link' = "none" <=> shown' \notin N!Joined)
         /\ \A x : Hears(x)' => Hears(x) \/ x = e
<1>1. twire \in Seq({"started", "ended", "closed", "kicked"}) /\ link \in {"none", "down", "up", "cut"}
      /\ (link = "none" <=> shown \notin N!Joined) /\ Len(twire) \in Nat /\ shown' = shown
  BY DEF NavInv, N!NavTypeOK, Unnoticed
<1>2. CASE UNCHANGED <<link, told, twire>>
  BY <1>1, <1>2 DEF Hears
<1>3. CASE link = "up" /\ link' = l /\ told' = told /\ twire' = Append(twire, e)
  <2>1. twire' \in Seq({"started", "ended", "closed", "kicked"}) /\ Len(twire') = Len(twire) + 1
        /\ twire'[Len(twire) + 1] = e /\ \A i \in 1..Len(twire) : twire'[i] = twire[i]
    BY <1>1, <1>3
  <2>2. ASSUME NEW x, Hears(x)' PROVE Hears(x) \/ x = e
    <3>1. PICK i \in 1..Len(twire') : twire'[i] = x
      BY <2>2 DEF Hears
    <3>2. i \in 1..Len(twire) \/ i = Len(twire) + 1
      BY <1>1, <2>1
    <3> QED BY <2>1, <3>1, <3>2 DEF Hears
  <2> QED BY <1>1, <1>3, <2>1, <2>2
<1> QED BY <1>2, <1>3 DEF Spoken

\* A page that has the connection has heard of the room's phase, or soon will.
LEMMA LinkedUp ==
  ASSUME NavInv, link = "up"
  PROVE  \/ tphase = "contract" /\ told.phase = "contract" /\ twire = <<>>
         \/ tphase = "timer" /\ told.phase = "contract" /\ twire = <<"started">>
         \/ tphase = "timer" /\ told.phase = "timer" /\ twire = <<>>
         \/ tphase = "result" /\ told.phase = "contract" /\ twire = <<"started", "ended">>
         \/ tphase = "result" /\ told.phase = "timer" /\ twire = <<"ended">>
         \/ tphase = "result" /\ told.phase = "result" /\ twire = <<>>
BY DEF NavInv, PhaseInv, Linked

LEMMA SpokenLinks ==
  ASSUME NavInv, Unnoticed, NEW e, NEW l, Spoken(e, l),
         \/ e = "started" /\ l = "up" /\ tphase = "contract" /\ tphase' = "timer"
         \/ e = "ended" /\ l = "up" /\ tphase = "timer" /\ tphase' = "result"
         \/ l = "cut"
  PROVE  Linked'
<1>1. shown' = shown /\ (link = "up" => shown \in N!Joined)
  BY DEF Unnoticed, NavInv, N!NavTypeOK
<1>2. CASE link # "up"
  BY <1>1, <1>2 DEF NavInv, PhaseInv, Linked, Spoken
<1>3. CASE link = "up"
  <2>1. link' = l /\ told' = told /\ twire' = Append(twire, e)
    BY <1>3 DEF Spoken
  <2>2. /\ Append(<<>>, "started") = <<"started">> /\ Append(<<"started">>, "ended") = <<"started", "ended">>
        /\ Append(<<>>, "ended") = <<"ended">>
    <3>1. Append(<<>>, "started") = <<"started">>
      OBVIOUS
    <3>2. Append(<<"started">>, "ended") = <<"started", "ended">>
      BY AppendTwo
    <3>3. Append(<<>>, "ended") = <<"ended">>
      OBVIOUS
    <3> QED BY <3>1, <3>2, <3>3
  <2>3. CASE l = "cut"
    BY <1>1, <1>3, <2>1, <2>3 DEF Linked
  <2>4. CASE e = "started" /\ l = "up" /\ tphase = "contract" /\ tphase' = "timer"
    <3>1. told.phase = "contract" /\ twire = <<>>
      BY <1>3, <2>4, LinkedUp
    <3> QED BY <1>1, <1>3, <2>1, <2>2, <2>4, <3>1 DEF Linked
  <2>5. CASE e = "ended" /\ l = "up" /\ tphase = "timer" /\ tphase' = "result"
    <3>1. \/ told.phase = "contract" /\ twire = <<"started">>
          \/ told.phase = "timer" /\ twire = <<>>
      BY <1>3, <2>5, LinkedUp
    <3> QED BY <1>1, <1>3, <2>1, <2>2, <2>5, <3>1 DEF Linked
  <2> QED BY <2>3, <2>4, <2>5
<1> QED BY <1>2, <1>3

\* The room moves on: what the tab knows of it stays true.
LEMMA RoomMovesOn ==
  ASSUME NavInv, Unnoticed, tphase' \in N!Phases, tphase' # "none",
         tphase' = tphase \/ (tphase \in {"none", "lobby", "contract"} /\ tphase' # "result") \/ (tphase = "timer" /\ tphase' = "result"),
         told' = told, \A x : Hears(x)' => Hears(x) \/ (x = "started" /\ tphase' = "timer") \/ (x = "ended" /\ tphase' = "result")
                                            \/ x \in {"closed", "kicked"},
         tasked'["poll"] = "ok" => tasked["poll"] = "ok" \/ tphase' = "result"
  PROVE  NoRoom' /\ Looked' /\ SessionBegun' /\ SessionOver' /\ OneContract' /\ Following'
<1>1. TabPages' = TabPages
  BY UnnoticedHistory
<1>2. NoRoom' /\ Looked'
  BY DEF NavInv, PhaseInv, NoRoom, Looked, Unnoticed
<1>3. SessionBegun'
  BY <1>1 DEF NavInv, PhaseInv, SessionBegun, Unnoticed
<1>4. SessionOver'
  BY <1>1 DEF NavInv, PhaseInv, SessionOver, Unnoticed
<1>5. OneContract' /\ Following'
  BY DEF NavInv, PhaseInv, OneContract, Following, Unnoticed
<1> QED BY <1>2, <1>3, <1>4, <1>5

LEMMA TellsSpoken ==
  ASSUME NavInv, NEW e, NEW l, N!Tells(e, l)
  PROVE  Spoken(e, l)
BY DEF N!Tells, Spoken

LEMMA RoomMovesKeeps == ASSUME NavInv, N!RoomMoves PROVE NavInv'
<1>1. Unnoticed /\ tasked' = tasked /\ UNCHANGED <<thost, tguest, owes>>
  BY DEF N!RoomMoves, N!Elsewhere, N!session, N!moves, N!tab, N!pages, Unnoticed
<1>2. mine' \in {"no", "in", "out", "banned"}
  BY DEF N!RoomMoves, NavInv, N!NavTypeOK
<1>3. ASSUME tphase' \in N!Phases, Linked', told' = told, twire' \in Seq({"started", "ended", "closed", "kicked"}),
             link' \in {"none", "down", "up", "cut"}, link' = "none" <=> shown' \notin N!Joined,
             NoRoom' /\ Looked' /\ SessionBegun' /\ SessionOver' /\ OneContract' /\ Following'
      PROVE  NavInv'
  <2>1. N!NavTypeOK'
    BY <1>1, <1>2, <1>3 DEF NavInv, N!NavTypeOK, Unnoticed
  <2> QED BY <1>1, <1>3, <2>1, UnnoticedHistory DEF NavInv, PhaseInv
<1>4. {"lobby", "contract", "timer", "result", "closed"} \subseteq N!Phases
  BY DEF N!Phases
<1>5. CASE tphase = "lobby" /\ tphase' = "contract" /\ UNCHANGED N!socket
  <2>1. told' = told /\ twire' = twire /\ link' = link
    BY <1>5 DEF N!socket
  <2>2. link # "up"
    BY <1>5, LinkedUp
  <2>3. Linked'
    BY <1>1, <2>1, <2>2 DEF NavInv, PhaseInv, Linked, Unnoticed
  <2>4. twire' \in Seq({"started", "ended", "closed", "kicked"}) /\ link' \in {"none", "down", "up", "cut"}
        /\ (link' = "none" <=> shown' \notin N!Joined) /\ \A x : Hears(x)' = Hears(x)
    BY <1>1, <2>1 DEF NavInv, N!NavTypeOK, Unnoticed, Hears
  <2>5. NoRoom' /\ Looked' /\ SessionBegun' /\ SessionOver' /\ OneContract' /\ Following'
    BY <1>1, <1>4, <1>5, <2>1, <2>4, RoomMovesOn
  <2> QED BY <1>3, <1>4, <1>5, <2>1, <2>3, <2>4, <2>5
<1>6. CASE tphase = "contract" /\ tphase' = "timer" /\ N!Tells("started", "up")
  <2>1. Spoken("started", "up")
    BY <1>6, TellsSpoken
  <2>2. /\ told' = told /\ twire' \in Seq({"started", "ended", "closed", "kicked"}) /\ link' \in {"none", "down", "up", "cut"}
        /\ (link' = "none" <=> shown' \notin N!Joined) /\ \A x : Hears(x)' => Hears(x) \/ x = "started"
    BY <1>1, <2>1, SpokenTypes
  <2>3. Linked'
    BY <1>1, <1>6, <2>1, SpokenLinks
  <2>4. NoRoom' /\ Looked' /\ SessionBegun' /\ SessionOver' /\ OneContract' /\ Following'
    BY <1>1, <1>4, <1>6, <2>2, RoomMovesOn
  <2> QED BY <1>3, <1>4, <1>6, <2>2, <2>3, <2>4
<1>7. CASE tphase = "timer" /\ tphase' = "result" /\ N!Tells("ended", "up")
  <2>1. Spoken("ended", "up")
    BY <1>7, TellsSpoken
  <2>2. /\ told' = told /\ twire' \in Seq({"started", "ended", "closed", "kicked"}) /\ link' \in {"none", "down", "up", "cut"}
        /\ (link' = "none" <=> shown' \notin N!Joined) /\ \A x : Hears(x)' => Hears(x) \/ x = "ended"
    BY <1>1, <2>1, SpokenTypes
  <2>3. Linked'
    BY <1>1, <1>7, <2>1, SpokenLinks
  <2>4. NoRoom' /\ Looked' /\ SessionBegun' /\ SessionOver' /\ OneContract' /\ Following'
    BY <1>1, <1>4, <1>7, <2>2, RoomMovesOn
  <2> QED BY <1>3, <1>4, <1>7, <2>2, <2>3, <2>4
<1>8. ASSUME NEW e \in {"closed", "kicked"}, N!Tells(e, "cut"), tphase \in {"lobby", "contract"}, tphase' = tphase \/ tphase' = "closed"
      PROVE  NavInv'
  <2>1. Spoken(e, "cut")
    BY <1>8, TellsSpoken
  <2>2. /\ told' = told /\ twire' \in Seq({"started", "ended", "closed", "kicked"}) /\ link' \in {"none", "down", "up", "cut"}
        /\ (link' = "none" <=> shown' \notin N!Joined) /\ \A x : Hears(x)' => Hears(x) \/ x = e
    BY <1>1, <2>1, SpokenTypes
  <2>3. Linked'
    BY <1>1, <1>8, <2>1, SpokenLinks
  <2>4. tphase' \in N!Phases /\ tphase' # "none" /\ tphase' # "result"
    BY <1>4, <1>8
  <2>5. NoRoom' /\ Looked' /\ SessionBegun' /\ SessionOver' /\ OneContract' /\ Following'
    BY <1>1, <1>8, <2>2, <2>4, RoomMovesOn
  <2> QED BY <1>3, <2>2, <2>3, <2>4, <2>5
<1> QED BY <1>5, <1>6, <1>7, <1>8 DEF N!RoomMoves

\* A request is served, and the room stays as it is.
LEMMA TabServedKeeps ==
  ASSUME NavInv, Unnoticed, UNCHANGED <<tphase, told, twire>>, link' = link \/ (link = "up" /\ link' = "cut"),
         mine' \in {"no", "in", "out", "banned"}, thost' = thost,
         NEW r \in N!Requests, NEW how \in {"ok", "no", "gone"}, tasked' = [tasked EXCEPT ![r] = how], tasked[r] = "sent",
         r = "poll" /\ how = "ok" => tphase = "result",
         tphase = "none" => mine' = mine /\ how # "ok"
  PROVE  NavInv'
<1>1. /\ tasked' \in [N!Requests -> {None, "sent", "ok", "no", "gone"}]
      /\ tasked'[r] = how /\ \A q \in N!Requests : q # r => tasked'[q] = tasked[q]
  BY RequestSent
<1>2. link' \in {"none", "down", "up", "cut"} /\ (link' = "none" <=> shown' \notin N!Joined)
  BY DEF NavInv, N!NavTypeOK, Unnoticed
<1>3. N!NavTypeOK'
  BY <1>1, <1>2 DEF NavInv, N!NavTypeOK, Unnoticed
<1>4. HistoryInv' /\ TabPages' = TabPages
  BY UnnoticedHistory
<1>5. NoRoom'
  <2> SUFFICES ASSUME tphase = "none" PROVE NotYet'
    BY DEF NoRoom
  <2>1. NotYet
    BY OutsideRoom
  <2> QED BY <1>1, <1>4, <2>1, RequestNames DEF NotYet, Unnoticed
<1>6. Looked' /\ SessionBegun' /\ OneContract' /\ Following'
  BY <1>4 DEF NavInv, PhaseInv, Looked, SessionBegun, Hears, OneContract, Following, Unnoticed
<1>7. tasked'["poll"] = "ok" => tphase = "result"
  BY <1>1, RequestNames DEF NavInv, PhaseInv, SessionOver
<1>8. SessionOver'
  BY <1>4, <1>7 DEF NavInv, PhaseInv, SessionOver, Hears, Unnoticed
<1>9. Linked'
  BY DEF NavInv, PhaseInv, Linked, Unnoticed
<1> QED BY <1>3, <1>4, <1>5, <1>6, <1>8, <1>9 DEF NavInv, PhaseInv

\* A request is served, and the room begins or ends with it.
LEMMA ServedMoves ==
  ASSUME NavInv, Unnoticed, mine' = mine, thost' \in BOOLEAN,
         \/ tphase = "none" /\ tphase' = "lobby" /\ UNCHANGED <<link, told, twire>>
         \/ tphase \in {"lobby", "contract"} /\ tphase' = "closed" /\ Spoken("closed", "cut"),
         NEW r \in N!Requests \ {"poll"}, tasked' = [tasked EXCEPT ![r] = "ok"]
  PROVE  NavInv'
<1>1. /\ tasked' \in [N!Requests -> {None, "sent", "ok", "no", "gone"}]
      /\ tasked'[r] = "ok" /\ \A q \in N!Requests : q # r => tasked'[q] = tasked[q]
  BY RequestSent
<1>2. tasked'["poll"] = tasked["poll"]
  BY <1>1, RequestNames
<1>3. {"lobby", "closed"} \subseteq N!Phases
  BY DEF N!Phases
<1>4. /\ told' = told /\ twire' \in Seq({"started", "ended", "closed", "kicked"}) /\ link' \in {"none", "down", "up", "cut"}
      /\ (link' = "none" <=> shown' \notin N!Joined) /\ \A x : Hears(x)' => Hears(x) \/ x = "closed"
  <2>1. CASE Spoken("closed", "cut")
    BY <2>1, SpokenTypes
  <2>2. CASE UNCHANGED <<link, told, twire>>
    BY <2>2 DEF NavInv, N!NavTypeOK, Unnoticed, Hears
  <2> QED BY <2>1, <2>2
<1>5. Linked'
  <2>1. CASE Spoken("closed", "cut")
    BY <2>1, SpokenLinks
  <2>2. CASE tphase = "none" /\ UNCHANGED <<link, told, twire>>
    BY <2>2, LinkedUp DEF NavInv, PhaseInv, Linked, Unnoticed
  <2> QED BY <2>1, <2>2
<1>6. NoRoom' /\ Looked' /\ SessionBegun' /\ SessionOver' /\ OneContract' /\ Following'
  BY <1>2, <1>3, <1>4, RoomMovesOn
<1>7. N!NavTypeOK'
  BY <1>1, <1>3, <1>4 DEF NavInv, N!NavTypeOK, Unnoticed
<1> QED BY <1>5, <1>6, <1>7, UnnoticedHistory DEF NavInv, PhaseInv

LEMMA ServeKeeps == ASSUME NavInv, N!Serve PROVE NavInv'
<1>1. Unnoticed
  BY DEF N!Serve, N!session, N!moves, N!tab, N!pages, Unnoticed
<1>2. mine \in {"no", "in", "out", "banned"} /\ thost \in BOOLEAN
  BY DEF NavInv, N!NavTypeOK
<1>3. ASSUME NEW r \in {"enter", "poll", "join"}, NEW how \in {"ok", "no", "gone"}, tasked[r] = "sent", N!Answers(r, how),
             UNCHANGED <<tphase, thost, link, told, twire>>, mine' = mine \/ (mine' = "in" /\ r = "join"),
             how = "ok" /\ r = "poll" => tphase = "result", how = "ok" => tphase # "none" \/ r = "join"
      PROVE  NavInv'
  <2>1. tphase = "none" => r # "join"
    BY <1>3, OutsideRoom, Nothing DEF NotYet
  <2> QED BY <1>1, <1>2, <1>3, <2>1, RequestNames, TabServedKeeps DEF N!Answers
<1>4. CASE tasked["enter"] = "sent" /\ N!Answers("enter", IF tphase \in {"none", "closed"} THEN "no" ELSE "ok")
             /\ UNCHANGED <<tphase, mine, thost, N!socket>>
  BY <1>3, <1>4 DEF N!socket
<1>5. CASE /\ tasked["create"] = "sent" /\ UNCHANGED <<mine, N!socket>>
           /\ IF tphase = "none" THEN tphase' = "lobby" /\ thost' = TRUE /\ N!Answers("create", "ok")
              ELSE UNCHANGED <<tphase, thost>> /\ N!Answers("create", "no")
  <2>1. CASE tphase = "none"
    BY <1>1, <1>5, <2>1, RequestNames, ServedMoves DEF N!socket, N!Answers
  <2>2. CASE tphase # "none"
    BY <1>1, <1>2, <1>5, <2>2, RequestNames, TabServedKeeps DEF N!socket, N!Answers
  <2> QED BY <2>1, <2>2
<1>6. CASE /\ tasked["join"] = "sent" /\ UNCHANGED <<tphase, thost, N!socket>>
           /\ (N!Answers("join", "no") /\ UNCHANGED mine) \/ (mine' = "in" /\ N!Answers("join", "ok"))
  BY <1>3, <1>6 DEF N!socket
<1>7. CASE /\ tasked["giveUp"] = "sent" /\ UNCHANGED <<tphase, thost, told, twire>>
           /\ IF ttoken /\ tphase = "timer" /\ mine = "in"
              THEN mine' = "out" /\ N!Answers("giveUp", "ok") /\ link' = (IF link = "up" THEN "cut" ELSE link)
              ELSE N!Answers("giveUp", "no") /\ UNCHANGED <<mine, link>>
  <2>1. CASE ttoken /\ tphase = "timer" /\ mine = "in"
    BY <1>1, <1>7, <2>1, RequestNames, TabServedKeeps DEF N!Answers
  <2>2. CASE ~(ttoken /\ tphase = "timer" /\ mine = "in")
    BY <1>1, <1>2, <1>7, <2>2, RequestNames, TabServedKeeps DEF N!Answers
  <2> QED BY <2>1, <2>2
<1>8. CASE /\ tasked["poll"] = "sent" /\ UNCHANGED <<tphase, mine, thost, N!socket>>
           /\ N!Answers("poll", CASE tphase = "result" -> "ok" [] tphase = "closed" -> "gone" [] OTHER -> "no")
  <2>1. CASE tphase = "result"
    BY <1>3, <1>8, <2>1 DEF N!socket
  <2>2. CASE tphase = "closed"
    BY <1>3, <1>8, <2>2 DEF N!socket
  <2>3. CASE tphase \notin {"result", "closed"}
    BY <1>3, <1>8, <2>3 DEF N!socket
  <2> QED BY <2>1, <2>2, <2>3
<1>9. ASSUME NEW r \in {"leave", "destroy"}, tasked[r] = "sent",
             IF ~ttoken \/ tphase \notin {"lobby", "contract"} \/ (~thost /\ mine # "in")
             THEN N!Answers(r, "no") /\ UNCHANGED <<tphase, mine, thost, N!socket>>
             ELSE /\ N!Answers(r, "ok") /\ UNCHANGED thost
                  /\ IF thost THEN tphase' = "closed" /\ N!Tells("closed", "cut") /\ UNCHANGED mine
                     ELSE mine' = "no" /\ UNCHANGED <<tphase, N!socket>>
      PROVE  NavInv'
  <2>1. CASE ~ttoken \/ tphase \notin {"lobby", "contract"} \/ (~thost /\ mine # "in")
    BY <1>1, <1>2, <1>9, <2>1, RequestNames, TabServedKeeps DEF N!socket, N!Answers
  <2>2. CASE ~(~ttoken \/ tphase \notin {"lobby", "contract"} \/ (~thost /\ mine # "in"))
    <3>1. CASE thost
      <4>1. Spoken("closed", "cut")
        BY <1>9, <2>2, <3>1, TellsSpoken
      <4> QED BY <1>1, <1>9, <2>2, <3>1, <4>1, RequestNames, ServedMoves DEF N!Answers
    <3>2. CASE ~thost
      BY <1>1, <1>2, <1>9, <2>2, <3>2, RequestNames, TabServedKeeps DEF N!socket, N!Answers
    <3> QED BY <3>1, <3>2
  <2> QED BY <2>1, <2>2
<1> QED BY <1>4, <1>5, <1>6, <1>7, <1>8, <1>9 DEF N!Serve

LEMMA DropKeeps == ASSUME NavInv, N!Drop PROVE NavInv'
<1>1. /\ link = "up" /\ link' = "down" /\ twire' = <<>> /\ clicks' \in 0..MaxClicks
      /\ UNCHANGED <<tphase, mine, thost, tguest, owes, ttoken, entries, pos, shown, guard, nav, going, leaving, from, tfresh, blocked,
                     told, tasked, step, tseen, card, tlate, tlost>>
  BY HistoryShape, Nothing DEF N!Drop, N!Touch, N!room, N!session, N!moves, N!tab, N!pages
<1>2. N!NavTypeOK'
  BY <1>1 DEF NavInv, N!NavTypeOK
<1>3. Guarding' /\ Returning' /\ GoingAway'
  BY <1>1 DEF NavInv, HistoryInv, Guarding, Returning, Between, GoingAway
<1>4. TabPages' = TabPages
  BY <1>1 DEF TabPages
<1>5. \A x : ~Hears(x)'
  BY <1>1 DEF Hears
<1>6. NoRoom' /\ Looked' /\ OneContract' /\ Following' /\ Linked'
  BY <1>1, <1>4 DEF NavInv, PhaseInv, NoRoom, NotYet, Looked, OneContract, Following, Linked
<1>7. SessionBegun' /\ SessionOver'
  BY <1>1, <1>4, <1>5 DEF NavInv, PhaseInv, SessionBegun, SessionOver
<1> QED BY <1>2, <1>3, <1>6, <1>7 DEF NavInv, HistoryInv, PhaseInv

\* What the socket tells a page sends it on, and nothing else.
Rests == UNCHANGED <<mine, thost, tguest, owes, entries, pos, shown, guard, going, leaving, from, tfresh, blocked,
                     tasked, step, tseen, card, tlate, tlost, clicks>>

LEMMA RoutedKeeps ==
  ASSUME NavInv, Rests, ttoken' \in BOOLEAN, shown \in N!Joined,
         tphase' = tphase \/ (tphase = "lobby" /\ tphase' = "contract"),
         link' \in {"down", "up", "cut"}, twire' \in Seq({"started", "ended", "closed", "kicked"}), \A x : Hears(x)' => Hears(x),
         told' \in [phase : N!Phases \cup {None}, out : BOOLEAN], told' = told \/ told'.phase \in {None, tphase', "timer", "result"},
         told'.phase = "timer" => tphase \in {"timer", "result"}, told'.phase = "result" => tphase = "result",
         \/ nav' = nav /\ (told' = told \/ N!Followed(shown, told') = None)
         \/ nav' = N!Replace("home") \/ nav' = N!Replace("join")
         \/ nav' = N!Followed(shown, told') /\ nav' # None,
         Linked'
  PROVE  NavInv'
<1>1. {"home", "join"} \subseteq N!Routes /\ "join" \notin N!Joined /\ N!Joined \subseteq N!Routes
  BY DEF N!Routes, N!Joined
<1>2. /\ {"contract", "timer", "result", "none"} \subseteq N!Phases /\ None \notin N!Phases
  BY Nothing DEF N!Phases
<1>3. tphase # "none" /\ tphase \in N!Phases
  BY OutsideRoom DEF N!Joined, NavInv, N!NavTypeOK
<1>4. told'.phase = "contract" => told.phase = "contract" \/ tphase \in {"lobby", "contract"}
  BY <1>2
<1>5. told'.phase = "contract" => "timer" \notin TabPages
  BY <1>4 DEF NavInv, PhaseInv, SessionBegun
<1>6. /\ nav' = None \/ nav' \in NavMove
      /\ nav' # nav => /\ nav'.page = "timer" => told'.phase = "timer"
                       /\ nav'.page = "semi" => told'.phase = "result"
                       /\ nav' # N!Replace("contract") /\ nav' # None
                       /\ nav'.page = "home" \/ nav'.page # shown
  <2>1. CASE nav' = nav
    BY <2>1 DEF NavInv, N!NavTypeOK, NavMove
  <2>2. CASE nav' = N!Replace("home") \/ nav' = N!Replace("join")
    BY <1>1, <2>2, Moving, Nothing
  <2>3. CASE nav' = N!Followed(shown, told') /\ nav' # None
    <3>1. shown \in N!Routes /\ shown \in TabPages
      BY HistoryShape
    <3>2. N!Replace("contract").page = "contract"
      BY DEF N!Replace
    <3> QED BY <1>5, <2>3, <3>1, <3>2, FollowedPage
  <2> QED BY <2>1, <2>2, <2>3
<1>7. N!NavTypeOK'
  BY <1>2, <1>6 DEF NavInv, N!NavTypeOK, NavMove, Rests
<1>8. Guarding' /\ Returning' /\ GoingAway'
  BY <1>6 DEF NavInv, HistoryInv, Guarding, Returning, Between, GoingAway, Rests
<1>9. TabPages' \subseteq TabPages \cup (IF nav' = None THEN {} ELSE {nav'.page}) /\ (nav' = nav => TabPages' = TabPages)
  BY DEF TabPages, Rests
<1>10. NoRoom' /\ Looked'
  BY <1>3 DEF NavInv, PhaseInv, NoRoom, Looked, Rests
<1>11. SessionBegun'
  BY <1>2, <1>5, <1>6, <1>9 DEF NavInv, PhaseInv, SessionBegun, Rests
<1>12. SessionOver'
  BY <1>6, <1>9 DEF NavInv, PhaseInv, SessionOver, Rests
<1>13. OneContract'
  BY <1>6 DEF NavInv, PhaseInv, OneContract, Rests
<1>14. Following'
  <2>1. shown' = shown /\ tlost' = tlost
    BY DEF Rests
  <2>2. CASE nav' = nav /\ told' = told
    BY <2>1, <2>2 DEF NavInv, PhaseInv, Following
  <2>3. CASE N!Followed(shown, told') = None
    BY <2>1, <2>3 DEF Following
  <2>4. CASE nav' # None
    BY <2>4 DEF Following
  <2>5. N!Replace("home") # None /\ N!Replace("join") # None
    BY <1>1, Moving, Nothing
  <2> QED BY <2>2, <2>3, <2>4, <2>5
<1> QED BY <1>7, <1>8, <1>10, <1>11, <1>12, <1>13, <1>14 DEF NavInv, HistoryInv, PhaseInv

\* What a page that has heard something does.
LEMMA HeardRoutes ==
  ASSUME NEW t, N!Heard(t)
  PROVE  /\ told' = t
         /\ \/ nav' = nav /\ N!Followed(shown, told') = None
            \/ nav' = N!Followed(shown, told') /\ nav' # None
BY DEF N!Heard

LEMMA ConnectKeeps == ASSUME NavInv, N!Connect PROVE NavInv'
<1>1. Rests /\ twire' = twire /\ link = "down"
  BY DEF N!Connect, N!session, N!tab, N!pages, Rests
<1>2. shown \in N!Joined /\ twire = <<>> /\ twire \in Seq({"started", "ended", "closed", "kicked"}) /\ (\A x : Hears(x)' => Hears(x))
      /\ told \in [phase : N!Phases \cup {None}, out : BOOLEAN]
  BY <1>1 DEF NavInv, N!NavTypeOK, PhaseInv, Linked, Hears
<1>3. ttoken' \in BOOLEAN
  BY HistoryShape DEF N!Connect, N!GuestGone
<1>4. {"contract", "timer"} \subseteq N!Phases
  BY DEF N!Phases
<1>5. ASSUME link' = "cut", told' = told, tphase' = tphase, nav' = nav \/ nav' = N!Replace("home") \/ nav' = N!Replace("join")
      PROVE  NavInv'
  <2>1. Linked'
    BY <1>1, <1>2, <1>5 DEF Linked, Rests
  <2>2. told.phase = "timer" => tphase \in {"timer", "result"}
    BY DEF NavInv, PhaseInv, SessionBegun
  <2>3. told.phase = "result" => tphase = "result"
    BY DEF NavInv, PhaseInv, SessionOver
  <2> QED BY <1>1, <1>2, <1>3, <1>5, <2>1, <2>2, <2>3, RoutedKeeps
<1>6. ASSUME tphase \in {"lobby", "contract", "timer"}, link' = "up", tphase' = (IF tphase = "lobby" THEN "contract" ELSE tphase),
             N!Heard([phase |-> tphase', out |-> mine = "out"])
      PROVE  NavInv'
  <2> DEFINE t == [phase |-> tphase', out |-> mine = "out"]
  <2>1. /\ told' = t
        /\ \/ nav' = nav /\ N!Followed(shown, told') = None
           \/ nav' = N!Followed(shown, told') /\ nav' # None
    BY <1>6, HeardRoutes
  <2>2. told'.phase = tphase' /\ tphase' \in {"contract", "timer"} /\ (tphase' = "timer" => tphase = "timer")
        /\ told' \in [phase : N!Phases \cup {None}, out : BOOLEAN]
    BY <1>4, <1>6, <2>1
  <2>3. Linked'
    BY <1>1, <1>2, <1>6, <2>2 DEF Linked, Rests
  <2>4. tphase' = tphase \/ (tphase = "lobby" /\ tphase' = "contract")
    BY <1>6
  <2> HIDE DEF t
  <2> QED BY <1>1, <1>2, <1>3, <1>6, <2>1, <2>2, <2>3, <2>4, RoutedKeeps
<1> QED BY <1>5, <1>6 DEF N!Connect, N!Thrown

\* An event arrives.
LEMMA DeliverKeeps == ASSUME NavInv, N!Deliver PROVE NavInv'
<1>1. Rests /\ twire # <<>> /\ twire' = Tail(twire) /\ link' = link /\ tphase' = tphase
  BY DEF N!Deliver, N!room, N!session, N!tab, N!pages, Rests
<1>2. /\ twire \in Seq({"started", "ended", "closed", "kicked"}) /\ told \in [phase : N!Phases \cup {None}, out : BOOLEAN]
      /\ Len(twire) \in Nat /\ Len(twire) > 0
  BY <1>1 DEF NavInv, N!NavTypeOK
<1>3. /\ shown \in N!Joined /\ link' \in {"up", "cut"}
  BY <1>1 DEF NavInv, N!NavTypeOK, PhaseInv, Linked
<1>4. /\ twire' \in Seq({"started", "ended", "closed", "kicked"}) /\ Head(twire) \in {"started", "ended", "closed", "kicked"}
      /\ Hears(Head(twire)) /\ \A x : Hears(x)' => Hears(x)
  <2>1. Len(twire') = Len(twire) - 1 /\ \A i \in 1..Len(twire') : twire'[i] = twire[i + 1] /\ i + 1 \in 1..Len(twire)
    BY <1>1, <1>2
  <2>2. Head(twire) = twire[1] /\ 1 \in 1..Len(twire)
    BY <1>2
  <2> QED BY <1>1, <1>2, <2>1, <2>2 DEF Hears
<1>5. ttoken' \in BOOLEAN
  BY HistoryShape DEF N!Deliver, N!GuestGone
<1>6. {"timer", "result"} \subseteq N!Phases
  BY DEF N!Phases
<1>7. link = "up" => \/ tphase = "timer" /\ told.phase = "contract" /\ twire = <<"started">>
                     \/ tphase = "result" /\ told.phase = "contract" /\ twire = <<"started", "ended">>
                     \/ tphase = "result" /\ told.phase = "timer" /\ twire = <<"ended">>
  BY <1>1, LinkedUp
<1>8. /\ Head(<<"started">>) = "started" /\ Tail(<<"started">>) = <<>> /\ Head(<<"ended">>) = "ended" /\ Tail(<<"ended">>) = <<>>
      /\ Head(<<"started", "ended">>) = "started" /\ Tail(<<"started", "ended">>) = <<"ended">>
  OBVIOUS
<1>9. ASSUME NEW p \in {"timer", "result"}, Head(twire) = IF p = "timer" THEN "started" ELSE "ended",
             N!Heard([told EXCEPT !.phase = p])
      PROVE  NavInv'
  <2>1. /\ told' = [told EXCEPT !.phase = p]
        /\ \/ nav' = nav /\ N!Followed(shown, told') = None
           \/ nav' = N!Followed(shown, told') /\ nav' # None
    BY <1>9, HeardRoutes
  <2>2. told'.phase = p /\ told' \in [phase : N!Phases \cup {None}, out : BOOLEAN]
    BY <1>2, <1>6, <2>1
  <2>3. (p = "timer" => tphase \in {"timer", "result"}) /\ (p = "result" => tphase = "result")
    BY <1>4, <1>9 DEF NavInv, PhaseInv, SessionBegun, SessionOver
  <2>4. Linked'
    <3>1. CASE link = "up"
      BY <1>1, <1>3, <1>7, <1>8, <1>9, <2>2, <3>1 DEF Linked, Rests
    <3>2. CASE link # "up"
      BY <1>1, <1>3, <3>2 DEF Linked, Rests
    <3> QED BY <3>1, <3>2
  <2>5. p = "timer" => told'.phase # "result"
    BY <2>2
  <2> QED BY <1>1, <1>3, <1>4, <1>5, <1>9, <2>1, <2>2, <2>3, <2>4, <2>5, RoutedKeeps
<1>10. ASSUME Head(twire) \in {"kicked", "closed"}, told' = told \/ told' = N!Untold, nav' = N!Replace("home")
       PROVE  NavInv'
  <2>1. link # "up"
    BY <1>7, <1>8, <1>10
  <2>2. Linked'
    BY <1>1, <1>3, <2>1 DEF Linked, Rests
  <2>3. told'.phase = None \/ told' = told
    BY <1>10 DEF N!Untold
  <2>4. told' \in [phase : N!Phases \cup {None}, out : BOOLEAN]
    <3>1. N!Untold \in [phase : N!Phases \cup {None}, out : BOOLEAN]
      BY DEF N!Untold
    <3> QED BY <1>2, <1>10, <3>1
  <2>5. (told'.phase = "timer" => tphase \in {"timer", "result"}) /\ (told'.phase = "result" => tphase = "result")
    BY <1>6, <2>3, Nothing DEF NavInv, PhaseInv, SessionBegun, SessionOver
  <2> QED BY <1>1, <1>3, <1>4, <1>5, <1>10, <2>2, <2>3, <2>4, <2>5, RoutedKeeps
<1> QED BY <1>4, <1>9, <1>10 DEF N!Deliver, N!Thrown

-----------------------------------------------------------------------------
(* The theorems *)

LEMMA NavStart == N!Init => NavInv
<1> SUFFICES ASSUME N!Init PROVE NavInv
  OBVIOUS
<1> DEFINE first == IF tphase = "none" /\ tfresh THEN "create" ELSE IF tguest THEN "join" ELSE "home"
           e0 == [page |-> "home", flag |-> FALSE, doc |-> 0]
           e1 == [page |-> first, flag |-> FALSE, doc |-> 1]
           e2 == [page |-> first, flag |-> TRUE, doc |-> 1]
<1>1. /\ shown = first /\ guard = (IF tfresh THEN "home" ELSE None) /\ pos = Len(entries)
      /\ entries = <<e0, e1>> \o (IF tfresh THEN <<e2>> ELSE <<>>)
  BY DEF N!Init
<1>3. /\ first \in {"create", "join", "home"} /\ (tfresh => first = "create" /\ tphase = "none")
      /\ (tphase = "none" => first \in {"create", "home"})
  BY DEF N!Init
<1>4. {"create", "join", "home"} \subseteq N!Routes /\ N!Joined \cap {"create", "join", "home"} = {}
  BY DEF N!Routes, N!Joined
<1>5. e0 \in NavEntry /\ e1 \in NavEntry /\ e2 \in NavEntry /\ e0.page = "home" /\ e1.page = first /\ e2.page = first
      /\ ~e0.flag /\ ~e1.flag /\ e2.flag
  BY <1>3, <1>4 DEF NavEntry
<1> HIDE DEF first, e0, e1, e2
<1>6. /\ entries \in Seq(NavEntry) /\ Len(entries) \in {2, 3} /\ (Len(entries) = 3 <=> tfresh)
      /\ entries[1] = e0 /\ entries[2] = e1 /\ (tfresh => entries[3] = e2)
  <2>1. <<e0, e1>> \in Seq(NavEntry) /\ Len(<<e0, e1>>) = 2 /\ <<e0, e1>>[1] = e0 /\ <<e0, e1>>[2] = e1
    BY <1>5
  <2>2. CASE tfresh
    <3>1. <<e2>> \in Seq(NavEntry) /\ Len(<<e2>>) = 1 /\ <<e2>>[1] = e2
      BY <1>5
    <3>2. entries = <<e0, e1>> \o <<e2>>
      BY <1>1, <2>2
    <3>3. /\ <<e0, e1>> \o <<e2>> \in Seq(NavEntry) /\ Len(<<e0, e1>> \o <<e2>>) = Len(<<e0, e1>>) + Len(<<e2>>)
          /\ \A i \in 1..(Len(<<e0, e1>>) + Len(<<e2>>)) :
               (<<e0, e1>> \o <<e2>>)[i] = IF i <= Len(<<e0, e1>>) THEN <<e0, e1>>[i] ELSE <<e2>>[i - Len(<<e0, e1>>)]
      BY <2>1, <3>1, ConcatProperties
    <3>4. Len(entries) = 3 /\ entries[1] = e0 /\ entries[2] = e1 /\ entries[3] = e2
      BY <2>1, <3>1, <3>2, <3>3
    <3> QED BY <2>2, <3>2, <3>3, <3>4
  <2>3. CASE ~tfresh
    <3>1. entries = <<e0, e1>> \o <<>>
      BY <1>1, <2>3
    <3>2. entries = <<e0, e1>>
      BY <2>1, <3>1, ConcatEmptySeq
    <3> QED BY <2>1, <2>3, <3>2
  <2> QED BY <2>2, <2>3
<1>7. /\ pos \in 1..Len(entries) /\ entries[pos].page = first /\ (tfresh => entries[pos].flag)
      /\ Apart(entries) /\ ContractOnce(entries) /\ PagesOf(entries) \subseteq {"home", first}
  <2>1. pos \in 1..Len(entries) /\ entries[pos].page = first /\ (tfresh => entries[pos].flag)
    BY <1>1, <1>5, <1>6
  <2>2. \A i \in 1..Len(entries) : i = 1 \/ i = 2 \/ (i = 3 /\ tfresh)
    <3>1. CASE Len(entries) = 3
      BY <1>6, <3>1
    <3>2. CASE Len(entries) = 2
      BY <3>2
    <3> QED BY <1>6, <3>1, <3>2
  <2>3. Apart(entries)
    BY <1>5, <1>6 DEF Apart
  <2>4. PagesOf(entries) \subseteq {"home", first}
    BY <1>5, <1>6, <2>2 DEF PagesOf
  <2>5. \A i \in 1..Len(entries) : entries[i].page # "contract"
    BY <1>3, <1>5, <1>6, <2>2
  <2>6. ContractOnce(entries)
    BY <1>6, <2>5 DEF ContractOnce
  <2> QED BY <2>1, <2>3, <2>4, <2>6
<1>8. /\ nav = None /\ going = 0 /\ leaving = FALSE /\ from = FALSE /\ link = "none" /\ told = N!Untold /\ twire = <<>>
      /\ tasked = [r \in N!Requests |-> None] /\ step = "form" /\ tseen = N!Unseen /\ card = None /\ tlate = FALSE /\ tlost = FALSE
      /\ clicks = 0 /\ mine = "no" /\ thost = FALSE /\ ttoken = TRUE /\ tguest \in BOOLEAN /\ owes \in BOOLEAN /\ tfresh \in BOOLEAN
      /\ tphase \in {"none", "lobby", "contract"} /\ blocked = tfresh
  BY DEF N!Init
<1>9. N!Untold \in [phase : N!Phases \cup {None}, out : BOOLEAN] /\ N!Untold.phase = None /\ N!Untold.out = FALSE
  BY DEF N!Untold
<1>10. /\ N!Unseen \in [room : N!Phases \cup {None}, active : BOOLEAN \cup {None}, done : BOOLEAN] /\ N!Unseen.room = None
  BY DEF N!Unseen
<1>11. {"none", "lobby", "contract", "timer", "result", "closed"} \subseteq N!Phases /\ None \notin N!Phases /\ None # "ok"
  BY Nothing DEF N!Phases
<1>12. N!NavTypeOK
  <2>1. clicks \in 0..MaxClicks
    BY <1>8, Nothing
  <2>2. tphase \in N!Phases /\ mine \in {"no", "in", "out", "banned"}
        /\ {thost, tguest, owes, ttoken, leaving, from, tfresh, blocked, tlate, tlost} \subseteq BOOLEAN
    BY <1>8, <1>11
  <2>3. shown \in N!Routes /\ guard \in {None, "stay", "home"} /\ going \in Nat /\ nav = None
        /\ link \in {"none", "down", "up", "cut"} /\ (link = "none" <=> shown \notin N!Joined)
    BY <1>1, <1>3, <1>4, <1>8
  <2>4. tasked \in [N!Requests -> {None, "sent", "ok", "no", "gone"}] /\ twire \in Seq({"started", "ended", "closed", "kicked"})
        /\ step \in {"form", "creating", "complete"} /\ card \in N!Phases \cup {"no", None}
    BY <1>8
  <2>5. entries \in Seq([page : N!Routes, flag : BOOLEAN, doc : Nat]) /\ pos \in 1..Len(entries)
    BY <1>6, <1>7 DEF NavEntry
  <2> QED BY <1>8, <1>9, <1>10, <2>1, <2>2, <2>3, <2>4, <2>5 DEF N!NavTypeOK
<1>13. Guarding
  BY <1>1, <1>3, <1>7, Nothing DEF Guarding, StayPages
<1>14. Returning
  BY <1>1, <1>7, Nothing DEF Returning
<1>15. GoingAway
  BY <1>8 DEF GoingAway
<1>16. TabPages \subseteq {"home", first}
  BY <1>1, <1>7, <1>8 DEF TabPages
<1>17. NoRoom
  BY <1>3, <1>8, <1>11, <1>16, RequestNames, Nothing DEF NoRoom, NotYet
<1>18. Looked
  BY <1>8, <1>10, <1>11 DEF Looked
<1>19. \A x : ~Hears(x)
  BY <1>8 DEF Hears
<1>20. SessionBegun
  BY <1>3, <1>8, <1>9, <1>10, <1>11, <1>16, <1>19 DEF SessionBegun
<1>21. SessionOver
  BY <1>3, <1>8, <1>9, <1>10, <1>11, <1>16, <1>19, RequestNames DEF SessionOver
<1>22. OneContract
  BY <1>7, <1>8, Moving, Nothing DEF OneContract, N!Routes, N!Joined
<1>23. Linked
  BY <1>8 DEF Linked
<1>24. N!Followed(shown, told) = None
  BY <1>1, <1>3, <1>4, <1>8, FollowedPage
<1>25. Following
  BY <1>24 DEF Following
<1> QED BY <1>12, <1>13, <1>14, <1>15, <1>17, <1>18, <1>20, <1>21, <1>22, <1>23, <1>25 DEF NavInv,
   HistoryInv, PhaseInv

LEMMA NavRests == ASSUME NavInv, UNCHANGED N!vars PROVE NavInv'
<1>1. UNCHANGED <<tphase, mine, thost, tguest, owes, ttoken, entries, pos, shown, guard, nav, going, leaving, from, tfresh, blocked,
                  link, told, twire, tasked, step, tseen, card, tlate, tlost, clicks>>
  BY DEF N!vars, N!room, N!session, N!moves, N!tab, N!socket, N!pages
<1>2. Stays
  BY <1>1, HistoryShape DEF Stays, NavInv, N!NavTypeOK
<1>3. Sends
  BY <1>1 DEF Sends
<1>4. Learns
  BY <1>1 DEF Learns, NavInv, PhaseInv, SessionOver
<1>5. Waits
  BY <1>1, OutsideRoom DEF Waits, NotYet
<1> QED BY <1>2, <1>3, <1>4, <1>5, StaysKeeps

LEMMA NavStep == NavInv /\ [N!NavNext]_(N!vars) => NavInv'
<1> SUFFICES ASSUME NavInv, [N!NavNext]_(N!vars) PROVE NavInv'
  OBVIOUS
<1>1. CASE N!User
  BY <1>1, BackKeeps, TabReloadKeeps, HomeKeeps, ClicksKeep, CloseDialogKeeps, CreateKeeps,
     TabGoOnKeeps DEF N!User
<1>2. CASE N!Browser
  BY <1>2, CommitKeeps, GoForwardKeeps, TabLeaveKeeps, LookForRoomKeeps, JoinLookKeeps, PollKeeps,
     TimeOverKeeps,
     TabAnsweredKeeps, DestroyAnsweredKeeps, DeliverKeeps DEF N!Browser
<1>3. CASE N!RoomMoves \/ N!Serve \/ N!Connect \/ N!Drop
  BY <1>3, RoomMovesKeeps, ServeKeeps, ConnectKeeps, DropKeeps
<1>4. CASE UNCHANGED N!vars
  BY <1>4, NavRests
<1> QED BY <1>1, <1>2, <1>3, <1>4 DEF N!NavNext

THEOREM TabKeeps == N!NavSpec => []NavInv
BY NavStart, NavStep, PTL DEF N!NavSpec

\* The tab keeps its types.
THEOREM NavTypes == N!NavSpec => []N!NavTypeOK
<1>1. NavInv => N!NavTypeOK
  BY DEF NavInv
<1> QED BY <1>1, TabKeeps, PTL

LEMMA PagesAreShown == NavInv => N!PageShown
<1> SUFFICES ASSUME NavInv PROVE N!PageShown
  OBVIOUS
<1>2. ASSUME N!Settled, ~tlost PROVE entries[pos].page = shown
  <2>1. guard \in {None, "stay", "home"} /\ going = 0 /\ ~leaving
    BY <1>2 DEF N!Settled, NavInv, N!NavTypeOK
  <2>2. CASE guard = "stay"
    <3>1. PICK k \in pos..Len(entries) : entries[k].page = shown /\ entries[k].flag /\ going >= Cardinality(Between(pos, k))
      BY <1>2, <2>2 DEF NavInv, HistoryInv, Returning
    <3>2. k \in Nat
      BY <3>1, HistoryShape
    <3>a. IsFiniteSet(Between(pos, k)) /\ Cardinality(Between(pos, k)) \in Nat
      BY <3>2, HistoryShape, BetweenIsFinite
    <3>3. IsFiniteSet(Between(pos, k)) /\ Cardinality(Between(pos, k)) = 0
      BY <2>1, <3>1, <3>a
    <3>4. Between(pos, k) = {}
      BY <3>3, FS_EmptySet
    <3>5. k = pos
      BY <3>1, <3>2, <3>4, HistoryShape DEF Between
    <3> QED BY <3>1, <3>5
  <2>3. CASE guard # "stay"
    BY <1>2, <2>1, <2>3 DEF NavInv, HistoryInv, Returning
  <2> QED BY <2>2, <2>3
<1>3. ASSUME N!Settled, ~tlost, link = "up", twire = <<>>
      PROVE  \/ tphase = "contract" /\ shown = "contract"
             \/ tphase = "timer" /\ shown = "timer"
             \/ tphase = "result" /\ shown = "semi"
  <2>1. shown \in {"contract", "timer", "semi"} /\ shown \in TabPages
    BY <1>3, HistoryShape DEF NavInv, N!NavTypeOK, N!Joined
  <2>2. N!Followed(shown, told) = None
    BY <1>3 DEF N!Settled, NavInv, PhaseInv, Following
  <2>3. tphase = told.phase /\ told.phase \in {"contract", "timer", "result"}
    <3>1. <<"started">> # <<>> /\ <<"ended">> # <<>> /\ <<"started", "ended">> # <<>>
      OBVIOUS
    <3> QED BY <1>3, <3>1, LinkedUp
  <2>4. shown = "semi" => tphase = "result"
    BY <2>1 DEF NavInv, PhaseInv, SessionOver
  <2>5. shown = "timer" => told.phase # "contract"
    BY <2>1 DEF NavInv, PhaseInv, SessionBegun
  <2>6. N!Replace("timer") # None /\ N!Replace("semi") # None
    BY Moving, Nothing DEF N!Routes, N!Joined
  <2>7. ~(shown = "contract" /\ told.phase = "timer") /\ ~(shown \in {"contract", "timer"} /\ told.phase = "result")
    BY <2>2, <2>6 DEF N!Followed
  <2> QED BY <2>1, <2>3, <2>4, <2>5, <2>7
<1>4. N!UrlShows
  BY <1>2 DEF N!UrlShows
<1>5. N!FollowsPhase
  BY <1>3 DEF N!FollowsPhase
<1> QED BY <1>4, <1>5 DEF N!PageShown

\* What the user sees is where the room is, and the address bar says so (handlePopState,
\* ContractForm, Timer).
THEOREM ShowsWhereTheRoomIs == N!NavSpec => []N!PageShown
BY TabKeeps, PagesAreShown, PTL

\* A page that is mounted sends nobody home.
LEMMA ShownSends ==
  ASSUME NavInv, NEW to \in N!Routes, NEW es, NEW k, NEW left, N!Shown(to, es, k, left) \/ N!Loaded(to, es, k)
  PROVE  nav' # N!Replace("home")
<1>1. N!Replace("home") # None /\ N!Replace("home").page = "home"
  BY Moving, Nothing DEF N!Routes
<1>2. nav' = None \/ nav' = N!Followed(to, told)
  BY DEF N!Shown, N!Loaded, N!Mounted
<1> QED BY <1>1, <1>2, FollowedPage

LEMMA TraversedSends ==
  ASSUME NavInv, NEW to \in 1..Len(entries), NEW left, NEW as, N!Traversed(to, left, as)
  PROVE  nav' = nav \/ nav' # N!Replace("home")
<1>1. entries[to].page \in N!Routes
  BY HistoryShape, EntryParts
<1> QED BY <1>1, ShownSends DEF N!Traversed, N!Popped

LEMMA JoinLookWelcomes ==
  ASSUME NavInv, N!JoinLook, nav' # nav, nav' = N!Replace("home"), ttoken, mine = "in", tphase \in {"contract", "timer"}
  PROVE  tseen.active = FALSE
<1>1. shown = "join" /\ N!Active = TRUE
  BY JoinLookTurns DEF N!Active
<1>2. PICK s \in [room : N!Phases \cup {None}, active : BOOLEAN \cup {None}, done : BOOLEAN] :
        N!Turned(s) /\ (s = [tseen EXCEPT !.room = tphase] \/ s = [tseen EXCEPT !.active = TRUE])
  BY <1>1, JoinLookTurns
<1>3. /\ tseen \in [room : N!Phases \cup {None}, active : BOOLEAN \cup {None}, done : BOOLEAN]
      /\ tseen.room \notin {"none", "closed", "result"}
  BY DEF NavInv, N!NavTypeOK, PhaseInv, Looked, SessionOver
<1>4. s.room \notin {"none", "closed", "result"} /\ (s.active = tseen.active \/ s.active = TRUE)
  BY <1>2, <1>3
<1>5. s.room = "timer" /\ s.active # TRUE /\ tseen'.done /\ ~s.done
  <2>1. N!Replace("timer") # N!Replace("home")
    BY Moving DEF N!Routes, N!Joined
  <2> QED BY <1>2, <1>4, <2>1 DEF N!Turned
<1>6. tseen' = [s EXCEPT !.done = s.done \/ s.room = "result" \/ (s.room = "timer" /\ (~ttoken \/ s.active # None))]
  BY <1>2 DEF N!Turned
<1>7. s.active # None
  BY <1>5, <1>6
<1> QED BY <1>3, <1>4, <1>5, <1>7

LEMMA ConnectWelcomes ==
  ASSUME NavInv, N!Connect, nav' # nav, ttoken, mine = "in", tphase \in {"contract", "timer"}
  PROVE  nav' # N!Replace("home")
<1>1. {"home", "join"} \subseteq N!Routes
  BY DEF N!Routes
<1>2. N!Replace("join") # N!Replace("home") /\ N!Replace("home") # None /\ N!Replace("home").page = "home"
  BY <1>1, Moving, Nothing
<1>3. \A t : N!Followed(shown, t) # N!Replace("home")
  BY <1>2, HistoryShape, FollowedPage
<1> QED BY <1>2, <1>3 DEF N!Connect, N!Thrown, N!Heard

LEMMA StepWelcomes ==
  ASSUME NavInv, N!NavNext, nav' # nav, nav' = N!Replace("home"), ttoken, mine = "in", tphase \in {"contract", "timer"}
  PROVE  clicks' # clicks \/ tasked' # tasked \/ twire' # twire \/ tseen.active = FALSE
<1>1. clicks \in Nat /\ clicks + 1 # clicks
  BY HistoryShape, Nothing
<1>2. CASE N!User
  BY <1>1, <1>2 DEF N!User, N!Back, N!Reload, N!Home, N!EnterCode, N!CloseDialog, N!Submit, N!Destroy,
     N!Create, N!Join, N!LeaveRoom,
     N!Forfeit, N!GoOn, N!Goto, N!Asks, N!Click, N!Touch
<1>3. CASE N!Commit
  <2>1. nav.page \in N!Routes
    BY <1>3 DEF N!Commit, NavInv, N!NavTypeOK
  <2> QED BY <1>3, <2>1, ShownSends DEF N!Commit
<1>4. CASE N!GoForward
  <2>1. CASE pos < Len(entries)
    <3>1. pos + 1 \in 1..Len(entries)
      BY <2>1, HistoryShape
    <3> QED BY <1>4, <2>1, <3>1, TraversedSends DEF N!GoForward
  <2>2. CASE ~(pos < Len(entries))
    BY <1>4, <2>2 DEF N!GoForward
  <2> QED BY <2>1, <2>2
<1>5. CASE N!Leave
  <2>1. "home" \in N!Routes
    BY DEF N!Routes
  <2> QED BY <1>5, <2>1, ShownSends DEF N!Leave
<1>6. CASE N!JoinLook
  BY <1>6, JoinLookWelcomes
<1>7. CASE N!LookForRoom \/ N!Poll \/ N!TimeOver
  BY <1>7 DEF N!LookForRoom, N!Poll, N!TimeOver, N!moves
<1>8. CASE N!Answered
  <2>1. PICK r \in N!Requests : tasked[r] # None /\ tasked' = [tasked EXCEPT ![r] = None]
    BY <1>8, RequestNames DEF N!Answered, N!Told
  <2>2. tasked'[r] = None
    BY <2>1, RequestSent
  <2> QED BY <2>1, <2>2
<1>9. CASE N!DestroyAnswered
  <2>1. CASE blocked \/ pos = 1
    <3>1. tasked["destroy"] # None /\ tasked' = [tasked EXCEPT !["destroy"] = None] /\ "destroy" \in N!Requests
      BY <1>9, <2>1, RequestNames DEF N!DestroyAnswered, N!Told
    <3>2. tasked'["destroy"] = None
      BY <3>1, RequestSent
    <3> QED BY <3>1, <3>2
  <2>2. CASE ~(blocked \/ pos = 1)
    <3>1. pos - 1 \in 1..Len(entries)
      BY <2>2, HistoryShape
    <3> QED BY <1>9, <2>2, <3>1, TraversedSends DEF N!DestroyAnswered
  <2> QED BY <2>1, <2>2
<1>10. CASE N!Deliver
  <2>1. twire \in Seq({"started", "ended", "closed", "kicked"}) /\ twire # <<>> /\ twire' = Tail(twire)
    BY <1>10 DEF N!Deliver, NavInv, N!NavTypeOK
  <2>2. Len(twire') # Len(twire)
    BY <2>1
  <2> QED BY <2>2
<1>11. CASE N!RoomMoves \/ N!Serve \/ N!Drop
  BY <1>11 DEF N!RoomMoves, N!Serve, N!Drop, N!Elsewhere, N!moves
<1>12. CASE N!Connect
  BY <1>12, ConnectWelcomes
<1> QED BY <1>2, <1>3, <1>4, <1>5, <1>6, <1>7, <1>8, <1>9, <1>10, <1>11, <1>12 DEF N!NavNext, N!Browser

\* Nobody who serves is sent home by what a page looked up (JoinRoom, SocketContext).
THEOREM WelcomesMembers == N!NavSpec => N!Welcome
<1>1. NavInv /\ [N!NavNext]_(N!vars)
        => [nav' # nav /\ nav' = N!Replace("home") /\ ttoken /\ mine = "in" /\ tphase \in {"contract", "timer"}
              => clicks' # clicks \/ tasked' # tasked \/ twire' # twire \/ tseen.active = FALSE]_(N!vars)
  BY StepWelcomes
<1> QED BY <1>1, TabKeeps, PTL DEF N!NavSpec, N!Welcome
=============================================================================
