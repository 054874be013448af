------------------------------ MODULE ResultPages ------------------------------
(***************************************************************************)
(* What one member sees after the session: the first result (SemiResult),  *)
(* the roulette that draws their penalties one by one (useRouletteLogic,   *)
(* useRouletteData), the final result (TotalResult); or, after giving up,  *)
(* the roulette alone.  The server keeps the penalties and whether they    *)
(* are public; the page keeps how far it has drawn, with at most one spin, *)
(* one exit and one skip request on their way.  An answer that comes after *)
(* the page was left changes nothing.                                      *)
(***************************************************************************)
EXTENDS Integers, Sequences, FiniteSets, SequencesExt

CONSTANTS
  Pool,        \* the contract's penalties, as the wheel shows them
  Penalties,   \* the member's, each as often as its count, by content
  Threshold,   \* SKIP_THRESHOLD
  MaxLosses,   \* bound: requests or answers that are lost
  MaxRefetches,\* bound: results fetched again, pages loaded again
  None         \* null

VARIABLES
  giveUp,   \* isGiveUpRoulette: drawn from a list that the page shuffles
  guest,    \* the member has a guest's token
  order,    \* seededShuffle: the order in which the server deals them
  hidden,   \* ResultPenalty: not revealed yet
  token,   \* access_token
  place,    \* the page: semi, roulette, total, home
  seen,     \* the member's penaltyCount in the cached result, or None
  list,     \* giveUpSpinResults, or None
  index,    \* currentIndex
  spinning, \* isSpinning
  landing,  \* currentSpinResult
  pinned,   \* pendingTargetRef: where the wheel last stopped, or 0
  drawn,    \* the page's history
  finished, \* spinMutation.data?.isFinished
  dialog,   \* isDialogOpen
  timeUp,   \* isTimerExpired
  skipping, \* skipInitiatedRef
  offered,  \* skipEverQualified
  asked,    \* the spin, exit and skip requests: [n, at], or None
  lost, refetches \* counters of the bounds

server == <<giveUp, guest, order, hidden>>
wheel  == <<index, spinning, landing, pinned, drawn, finished>>
knobs  == <<dialog, timeUp, skipping, offered>>
count  == <<lost, refetches>>
view   == <<server, token, place, seen, list, wheel, knobs, asked, count>>

Requests == {"spin", "exit", "skip"}
Total    == Len(Penalties)
Shuffles == {[i \in 1..Total |-> Penalties[f[i]]] :
               f \in {g \in [1..Total -> 1..Total] : \A i, j \in 1..Total : g[i] = g[j] => i = j}}
Contents == {Pool[i] : i \in 1..Len(Pool)}

\* "queued": mutate was called and the request is not written yet; "ok",
\* "done" (already complete), "error": the answers.
Waiting == [n : 0..(Total + 1), at : {"queued", "sent", "ok", "done", "error"}]

\* What a member may see is in the wheel; null is none of the values.
PenaltiesAssumption ==
  /\ Pool \in Seq(Contents) /\ Penalties \in Seq(Contents)
  /\ None \notin 0..Total /\ None \notin Shuffles /\ None \notin Waiting
  /\ MaxLosses \in Nat /\ MaxRefetches \in Nat

TypeOK ==
  /\ {giveUp, guest, hidden, token, spinning, finished, dialog, timeUp, skipping, offered} \subseteq BOOLEAN
  /\ order \in Shuffles /\ list \in Shuffles \cup {None}
  /\ place \in {"semi", "roulette", "total", "home"}
  /\ seen \in 0..Total \cup {None} /\ index \in 0..Total
  /\ landing \in Contents \cup {None} /\ pinned \in 0..Len(Pool)
  /\ drawn \in BoundedSeq(Contents, Total)
  /\ asked \in [Requests -> Waiting \cup {None}]
  /\ lost \in 0..MaxLosses /\ refetches \in 0..MaxRefetches

Init ==
  /\ giveUp \in BOOLEAN /\ guest \in BOOLEAN /\ order \in Shuffles
  /\ hidden = (Total > 0) /\ token = TRUE
  /\ place = IF giveUp THEN "roulette" ELSE "semi"
  /\ seen = None /\ list = None
  /\ index = 0 /\ spinning = FALSE /\ landing = None /\ pinned = 0 /\ drawn = <<>>
  /\ finished = FALSE
  /\ dialog = FALSE /\ timeUp = FALSE /\ skipping = FALSE /\ offered = FALSE
  /\ asked = [r \in Requests |-> None] /\ lost = 0 /\ refetches = 0

-----------------------------------------------------------------------------
(* What the roulette derives from its state *)

AtRoulette == place = "roulette"
Loaded     == IF giveUp THEN list # None ELSE seen # None
\* totalChances, remainingChances, nextSpinIndex
Chances    == IF ~Loaded THEN 0 ELSE IF giveUp THEN Total ELSE Total - seen
Picked     == IF index < Chances THEN index ELSE Chances
Left       == Chances - Picked
NextSpin   == seen + Picked + 1
Completed  == ((giveUp \/ Loaded) /\ Chances = 0) \/ (Chances > 0 /\ Left = 0) \/ finished
AutoDraw   == timeUp /\ Loaded /\ Left > 0
DrawDone   == Completed /\ ~spinning

Pending(r) == asked[r] # None
Idle(r)    == asked[r] = None
Answered(r, how) == AtRoulette /\ asked[r] # None /\ asked[r].at = how
Ask(r, n)  == asked' = [asked EXCEPT ![r] = [n |-> n, at |-> "sent"]]
Forget(r)  == [asked EXCEPT ![r] = None]

\* canSkipNow
MaySkip ==
  /\ AtRoulette /\ ~giveUp /\ Loaded /\ offered /\ Left > 1 /\ Idle("skip")
  /\ AutoDraw \/ (~Completed /\ ~spinning /\ Idle("spin"))

CannotStart == ~Loaded \/ Pending("spin") \/ spinning

\* Where the wheel holds a content: the first item that carries it.
Slot(c) == CHOOSE i \in 1..Len(Pool) : Pool[i] = c /\ \A j \in 1..(i - 1) : Pool[j] # c

-----------------------------------------------------------------------------
(* The results *)

\* clearGuestAccessToken
GuestGone == token' = (token /\ ~guest)

\* The result is fetched, the first time or when the window is focused; the
\* page of who gave up shuffles the penalties when their result is new.
Fetch ==
  /\ place # "home" /\ token
  /\ IF Loaded THEN refetches < MaxRefetches /\ refetches' = refetches + 1 ELSE UNCHANGED refetches
  /\ IF giveUp THEN list' \in Shuffles /\ UNCHANGED seen
     ELSE seen' = (IF hidden THEN 0 ELSE Total) /\ UNCHANGED list
  /\ offered' = (offered \/ (AtRoulette /\ ~giveUp /\ Total - seen' >= Threshold))
  /\ UNCHANGED <<server, token, place, wheel, dialog, timeUp, skipping, asked, lost>>

\* SemiResult, handleNext; the roulette reads the same cached result.
GoOn ==
  /\ place = "semi" /\ Loaded
  /\ place' = IF Total - seen > 0 THEN "roulette" ELSE "total"
  /\ offered' = (Total - seen >= Threshold)
  /\ UNCHANGED <<server, token, seen, list, wheel, dialog, timeUp, skipping, asked, count>>

\* TotalResult, handleClose
Close ==
  /\ place = "total" /\ place' = "home" /\ GuestGone
  /\ UNCHANGED <<server, seen, list, wheel, knobs, asked, count>>

\* The page of the roulette is loaded again and starts anew.  What the old
\* one had asked for is as another page's request: see RevealElsewhere.
Reload ==
  /\ AtRoulette /\ refetches < MaxRefetches /\ refetches' = refetches + 1
  /\ seen' = None /\ list' = None
  /\ index' = 0 /\ spinning' = FALSE /\ landing' = None /\ pinned' = 0 /\ drawn' = <<>>
  /\ finished' = FALSE
  /\ dialog' = FALSE /\ timeUp' = FALSE /\ skipping' = FALSE /\ offered' = FALSE
  /\ asked' = [r \in Requests |-> None]
  /\ UNCHANGED <<server, token, place, lost>>

\* RouletteTimer reports that the ten minutes have passed.
TimeUp ==
  /\ AtRoulette /\ Loaded /\ ~timeUp /\ timeUp' = TRUE
  /\ UNCHANGED <<server, token, place, seen, list, wheel, dialog, skipping, offered, asked, count>>

-----------------------------------------------------------------------------
(* Leaving the roulette *)

\* moveToFinishTarget: who gave up asks for the exit without waiting for
\* the answer, and a guest's token is dropped at once.
Move(a) ==
  IF giveUp
  THEN /\ place' = "home" /\ GuestGone
       /\ asked' = [a EXCEPT !["exit"] = [n |-> 0, at |-> "queued"]]
  ELSE place' = "total" /\ asked' = a /\ UNCHANGED token

MoveOn(a) == Move(a) /\ UNCHANGED <<server, seen, list, wheel, timeUp, skipping, offered, count>>

\* The effects that leave without a click: nothing to draw, or nothing left.
MoveIfEmpty ==
  /\ AtRoulette /\ ~giveUp /\ Loaded /\ ~spinning /\ drawn = <<>>
  /\ (timeUp /\ Left = 0) \/ Chances = 0
  /\ MoveOn(asked) /\ UNCHANGED dialog

\* The close button; the dialog asks when something is left to draw.
CloseButton ==
  /\ AtRoulette
  /\ IF Completed THEN MoveOn(asked) /\ UNCHANGED dialog
     ELSE /\ ~dialog /\ dialog' = TRUE
          /\ UNCHANGED <<server, token, place, seen, list, wheel, timeUp, skipping, offered, asked, count>>
Cancel ==
  /\ AtRoulette /\ dialog /\ dialog' = FALSE
  /\ UNCHANGED <<server, token, place, seen, list, wheel, timeUp, skipping, offered, asked, count>>

\* handleExit
Exit ==
  /\ AtRoulette /\ dialog /\ Idle("exit")
  /\ IF giveUp THEN MoveOn(asked) /\ dialog' = FALSE
     ELSE /\ Ask("exit", 0)
          /\ UNCHANGED <<server, token, place, seen, list, wheel, knobs, count>>
ExitAnswered ==
  \/ /\ Answered("exit", "ok") \/ Answered("exit", "done")
     /\ MoveOn(Forget("exit")) /\ dialog' = FALSE
  \/ /\ Answered("exit", "error") /\ place' = "home" /\ GuestGone
     /\ asked' = Forget("exit") /\ dialog' = FALSE
     /\ UNCHANGED <<server, seen, list, wheel, timeUp, skipping, offered, count>>

-----------------------------------------------------------------------------
(* Drawing *)

\* The wheel starts towards what was drawn.
SpinTo(c) ==
  /\ spinning' = TRUE /\ landing' = c /\ pinned' = Slot(c)
  /\ UNCHANGED <<index, drawn>>

\* handleStartSpinning: by the button, or by the loop when the time is up.
StartButton == ~spinning /\ (DrawDone \/ ~(CannotStart \/ AutoDraw))
AutoLoop    == AutoDraw /\ ~Completed /\ ~spinning /\ ~dialog /\ \A r \in Requests : Idle(r)
Start ==
  /\ AtRoulette /\ (StartButton \/ AutoLoop)
  /\ IF Completed THEN MoveOn(asked) /\ UNCHANGED dialog
     ELSE /\ ~skipping /\ ~CannotStart
          /\ IF giveUp THEN SpinTo(list[Picked + 1]) /\ UNCHANGED <<finished, asked>>
             ELSE /\ Ask("spin", NextSpin)
                  /\ finished' = FALSE /\ UNCHANGED <<index, spinning, landing, pinned, drawn>>
          /\ UNCHANGED <<server, token, place, seen, list, knobs, count>>

\* Mutant: the label above the wheel keeps where the first spin ended.
SpinAnsweredKept ==
  /\ Answered("spin", "ok") /\ asked' = Forget("spin")
  /\ spinning' = TRUE /\ landing' = order[asked["spin"].n]
  /\ pinned' = IF pinned = 0 THEN Slot(landing') ELSE pinned
  /\ finished' = (asked["spin"].n = Total)
  /\ UNCHANGED <<server, token, place, seen, list, index, drawn, knobs, count>>

SpinAnswered ==
  \/ /\ Answered("spin", "ok") /\ asked' = Forget("spin")
     /\ finished' = (asked["spin"].n = Total)
     /\ IF skipping THEN UNCHANGED <<index, spinning, landing, pinned, drawn>>
        ELSE SpinTo(order[asked["spin"].n])
     /\ UNCHANGED <<server, token, place, seen, list, knobs, count>>
  \/ /\ Answered("spin", "done")
     /\ IF skipping
        THEN asked' = Forget("spin") /\ UNCHANGED <<server, token, place, seen, list, wheel, timeUp, skipping, offered, count>>
        ELSE MoveOn(Forget("spin"))
     /\ UNCHANGED dialog
  \/ /\ Answered("spin", "error") /\ asked' = Forget("spin")
     /\ UNCHANGED <<server, token, place, seen, list, wheel, knobs, count>>

\* handleStopSpinning
Stop ==
  /\ AtRoulette /\ spinning
  /\ spinning' = FALSE /\ landing' = None
  /\ IF skipping THEN UNCHANGED <<drawn, index>>
     ELSE drawn' = Append(drawn, landing) /\ index' = index + 1
  /\ UNCHANGED <<server, token, place, seen, list, pinned, finished, knobs, asked, count>>

\* handleSkip; the answer counts as many as there were at the click.
Skip ==
  /\ MaySkip /\ skipping' = TRUE /\ Ask("skip", Chances)
  /\ UNCHANGED <<server, token, place, seen, list, wheel, dialog, timeUp, offered, count>>

\* Mutant: a skip that failed still holds the wheel.
SkipAnsweredHeld ==
  /\ AtRoulette /\ Pending("skip") /\ asked["skip"].at \notin {"queued", "sent"}
  /\ asked' = Forget("skip")
  /\ UNCHANGED <<server, token, place, seen, list, wheel, knobs, count>>

SkipAnswered ==
  \/ /\ Answered("skip", "ok") /\ asked' = Forget("skip")
     /\ drawn' = Penalties /\ landing' = None /\ spinning' = FALSE
     /\ index' = asked["skip"].n
     /\ UNCHANGED <<server, token, place, seen, list, pinned, finished, knobs, count>>
  \/ Answered("skip", "done") /\ MoveOn(Forget("skip")) /\ UNCHANGED dialog
  \/ /\ Answered("skip", "error") /\ asked' = Forget("skip") /\ skipping' = FALSE
     /\ UNCHANGED <<server, token, place, seen, list, wheel, dialog, timeUp, offered, count>>

-----------------------------------------------------------------------------
(* The server and the network *)

Reply(r, how) == asked' = [asked EXCEPT ![r] = IF AtRoulette THEN [@ EXCEPT !.at = how] ELSE None]

\* The request that moveToFinishTarget queued is written once the click has
\* been handled, with the token there is then.
Write ==
  /\ Pending("exit") /\ asked["exit"].at = "queued"
  /\ asked' = [asked EXCEPT !["exit"] = IF token THEN [@ EXCEPT !.at = "sent"] ELSE None]
  /\ UNCHANGED <<server, token, place, seen, list, wheel, knobs, count>>

\* spinRoulette: the last spin reveals all of them.
ServeSpin ==
  /\ Pending("spin") /\ asked["spin"].at = "sent"
  /\ Reply("spin", IF ~hidden THEN "done" ELSE "ok")
  /\ hidden' = (hidden /\ asked["spin"].n # Total)
  /\ UNCHANGED <<giveUp, guest, order, token, place, seen, list, wheel, knobs, count>>

\* exitRoulette
ServeExit(r) ==
  /\ Pending(r) /\ asked[r].at = "sent"
  /\ Reply(r, IF hidden THEN "ok" ELSE "done") /\ hidden' = FALSE
  /\ UNCHANGED <<giveUp, guest, order, token, place, seen, list, wheel, knobs, count>>

\* A request is lost on its way, or its answer is.
Lose(r) ==
  /\ lost < MaxLosses /\ lost' = lost + 1
  /\ Pending(r) /\ asked[r].at \in {"sent", "ok", "done"} /\ Reply(r, "error")
  /\ UNCHANGED <<server, token, place, seen, list, wheel, knobs, refetches>>

\* The deadline's job, or another page of the same member.
RevealElsewhere ==
  /\ hidden /\ hidden' = FALSE
  /\ UNCHANGED <<giveUp, guest, order, token, place, seen, list, wheel, knobs, asked, count>>

-----------------------------------------------------------------------------
Next ==
  \/ Fetch \/ GoOn \/ Close \/ Reload \/ TimeUp
  \/ MoveIfEmpty \/ CloseButton \/ Cancel \/ Exit \/ ExitAnswered
  \/ Start \/ SpinAnswered \/ Stop \/ Skip \/ SkipAnswered
  \/ Write \/ ServeSpin \/ ServeExit("exit") \/ ServeExit("skip") \/ RevealElsewhere
  \/ \E r \in Requests : Lose(r)

Spec == Init /\ [][Next]_view

-----------------------------------------------------------------------------
(* Properties *)

Counts(s) == [c \in Contents |-> Cardinality({i \in 1..Len(s) : s[i] = c})]

\* A roulette that says it has drawn everything lists what the server has
\* dealt, each penalty as often as it counts: retries, a skip that fails or
\* overtakes a spin, the draw by the clock and a reload neither repeat nor
\* drop one.  (The list of who gave up is shuffled anew when it is fetched
\* again, and the rest of it repeats what was drawn.)  And the wheel at rest
\* points at what was listed last, unless it stopped under a skip that failed.
DrawnAsDealt ==
  /\ AtRoulette /\ DrawDone /\ Chances = Total /\ ~(giveUp /\ refetches > 0)
       => Counts(drawn) = Counts(Penalties)
  /\ AtRoulette /\ ~spinning /\ ~skipping /\ drawn # <<>> /\ lost = 0
       => Pool[pinned] = drawn[Len(drawn)]

\* Whoever has left the roulette has made their penalties public, by the
\* last spin, the skip or the exit.
LeavingReveals ==
  place \in {"total", "home"} /\ (\A r \in Requests : Idle(r)) /\ lost = 0 /\ ~(giveUp /\ guest)
    => ~hidden

\* What is drawn is what was dealt, and it is public in the end.
DrawnAndPublished == DrawnAsDealt /\ LeavingReveals

\* The roulette is never stuck: with nothing on its way and the wheel at
\* rest, it can draw, or is done.
CanGoOn ==
  AtRoulette /\ Loaded /\ ~spinning /\ (\A r \in Requests : Idle(r)) => ~skipping \/ Completed
=============================================================================
