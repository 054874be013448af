------------------------------ MODULE ResultsProofs ------------------------------
(***************************************************************************)
(* Of what a browser shows of a session's end and after, for every list of  *)
(* penalties, every timetable and every set of members: the roulette draws  *)
(* what was dealt and always has a way on, the timer, the charge and the    *)
(* weights agree in every minute, and the two lists show what the results  *)
(* are.  The three parts share the sequences of ContractEditingProofs.     *)
(***************************************************************************)
EXTENDS MCResults, ContractEditingProofs, FunctionTheorems

-----------------------------------------------------------------------------
(* The roulette *)

\* A skip that the server has answered.
Skipped  == skipping /\ W!Idle("skip")

\* What the server keeps, and what the page has heard of it.
HeardInv ==
  /\ hidden => W!Total > 0
  /\ guest \/ token
  /\ seen \in {0, W!Total, None} /\ (seen # None /\ hidden => seen = 0)
  /\ giveUp => /\ place \in {"roulette", "home"} /\ seen = None
               /\ ~skipping /\ ~finished /\ W!Idle("spin") /\ W!Idle("skip")
  /\ \A r \in {"exit", "skip"} : W!Pending(r) /\ asked[r].at \in {"ok", "done"} => ~hidden
  /\ \A r \in W!Requests : W!Pending(r) /\ asked[r].at = "error" => lost > 0
  /\ W!Pending("spin") => asked["spin"].n \in 1..W!Total
  /\ W!Pending("spin") /\ (asked["spin"].at = "done" \/ (asked["spin"].at = "ok" /\ asked["spin"].n = W!Total)) => ~hidden

\* Before the result is there, nothing is drawn.
FreshInv ==
  place = "semi" \/ (W!AtRoulette /\ ~W!Loaded) =>
     /\ index = 0 /\ drawn = <<>> /\ ~spinning /\ ~finished /\ ~skipping
     /\ W!Idle("spin") /\ W!Idle("skip")

\* A skip covers everything, and was asked for with two or more left.
SkipInv ==
  W!AtRoulette =>
    /\ W!Pending("skip") => skipping /\ asked["skip"].n = W!Total /\ index + 1 < W!Total
    /\ Skipped => index = W!Total /\ drawn = Dealt /\ ~hidden /\ ~spinning

\* The spin under way draws the next penalty.
SpinInv ==
  W!AtRoulette =>
    /\ W!Pending("spin") =>
         /\ ~spinning
         /\ Skipped \/ asked["spin"].n = index + 1
         /\ skipping => asked["spin"].n < W!Total
    /\ finished => index = W!Total \/ (spinning /\ index + 1 = W!Total)
    /\ ~giveUp /\ (index = W!Total \/ (spinning /\ index + 1 = W!Total)) => ~hidden

\* What is drawn is a prefix of what is dealt.
PrefixInv ==
  W!AtRoulette /\ ~Skipped =>
    /\ Len(drawn) = index
    /\ spinning => index < W!Total
    /\ ~giveUp => /\ \A i \in 1..index : drawn[i] = order[i]
                  /\ spinning => landing = order[index + 1]
    /\ giveUp /\ refetches = 0 /\ W!Loaded =>
                  /\ \A i \in 1..index : drawn[i] = list[i]
                  /\ spinning => landing = list[index + 1]

\* The wheel stops at what it spins to.
PinnedInv ==
  W!AtRoulette =>
    /\ spinning => landing \in W!Contents /\ pinned = W!Slot(landing)
    /\ ~spinning /\ ~skipping /\ drawn # <<>> /\ lost = 0 => pinned = W!Slot(drawn[Len(drawn)])

\* Who has left has made their penalties public, or is about to.
LeftInv ==
  place \in {"total", "home"} /\ lost = 0 /\ hidden =>
     giveUp /\ (guest \/ (W!Pending("exit") /\ asked["exit"].at \in {"queued", "sent"}))

\* What is dealt is a list of penalties, and the list of the wheel is another order of it.
LEMMA DealtThings == /\ W!Total \in Nat /\ Dealt \in [1..W!Total -> W!Contents]
                     /\ Len(Pool) \in Nat /\ MaxLosses \in Nat /\ MaxRefetches \in Nat
                     /\ None \notin 0..W!Total /\ None \notin W!Waiting /\ None \notin W!Shuffles
<1>1. W!Total \in Nat /\ Dealt \in [1..W!Total -> W!Contents] /\ Len(Pool) \in Nat
  BY RouletteGiven DEF W!PenaltiesAssumption, W!Total
<1> QED BY <1>1, RouletteGiven DEF W!PenaltiesAssumption

LEMMA Shuffled ==
  ASSUME NEW s \in W!Shuffles
  PROVE  /\ s \in [1..W!Total -> W!Contents] /\ s \in Seq(W!Contents) /\ Len(s) = W!Total
         /\ DOMAIN s = 1..W!Total /\ \A i \in 1..W!Total : s[i] \in W!Contents
<1>1. PICK f \in [1..W!Total -> 1..W!Total] : s = [i \in 1..W!Total |-> Dealt[f[i]]]
  BY DEF W!Shuffles
<1>2. s \in [1..W!Total -> W!Contents]
  BY <1>1, DealtThings
<1>3. s \in Seq(W!Contents) /\ Len(s) = W!Total
  BY <1>2, DealtThings
<1>4. DOMAIN s = 1..W!Total
  BY <1>2
<1>5. \A i \in 1..W!Total : s[i] \in W!Contents
  BY <1>2
<1> QED BY <1>2, <1>3, <1>4, <1>5, Zenon

\* TypeOK, one by one.
FlagTypes ==
  /\ giveUp \in BOOLEAN /\ guest \in BOOLEAN /\ hidden \in BOOLEAN /\ token \in BOOLEAN
  /\ spinning \in BOOLEAN /\ finished \in BOOLEAN /\ dialog \in BOOLEAN /\ timeUp \in BOOLEAN
  /\ skipping \in BOOLEAN /\ offered \in BOOLEAN

DataTypes ==
  /\ order \in W!Shuffles /\ list \in W!Shuffles \cup {None}
  /\ place \in {"semi", "roulette", "total", "home"}
  /\ seen \in 0..W!Total \cup {None} /\ index \in 0..W!Total
  /\ landing \in W!Contents \cup {None} /\ pinned \in 0..Len(Pool)
  /\ drawn \in Seq(W!Contents) /\ Len(drawn) <= W!Total
  /\ asked \in [W!Requests -> W!Waiting \cup {None}]
  /\ lost \in 0..MaxLosses /\ refetches \in 0..MaxRefetches

ResultTypes == FlagTypes /\ DataTypes

\* The inductive invariant.
RollInv == ResultTypes /\ HeardInv /\ FreshInv /\ SkipInv /\ SpinInv /\ PrefixInv /\ PinnedInv /\ LeftInv

LEMMA SlotHolds ==
  ASSUME NEW c \in W!Contents
  PROVE  W!Slot(c) \in 1..Len(Pool) /\ Pool[W!Slot(c)] = c
<1> DEFINE T == {i \in 1..Len(Pool) : Pool[i] = c}
<1>1. T \subseteq Nat /\ T # {}
  BY RouletteGiven DEF W!PenaltiesAssumption, W!Contents
<1>2. PICK x \in T : \A y \in T : x <= y
  BY <1>1, Least
<1>3. Pool[x] = c /\ \A k \in 1..(x - 1) : Pool[k] # c
  <2>1. Len(Pool) \in Nat
    BY RouletteGiven DEF W!PenaltiesAssumption
  <2> QED BY <1>2, <2>1
<1> QED BY <1>2, <1>3 DEF W!Slot

\* Requests and answers, written and forgotten.
LEMMA AskedSet ==
  ASSUME asked \in [W!Requests -> W!Waiting \cup {None}], NEW r \in W!Requests,
         NEW u \in W!Waiting \cup {None}
  PROVE  [asked EXCEPT ![r] = u] \in [W!Requests -> W!Waiting \cup {None}]
OBVIOUS

LEMMA Replied ==
  ASSUME NEW u \in W!Waiting, NEW how \in {"queued", "sent", "ok", "done", "error"}
  PROVE  /\ [u EXCEPT !.at = how] \in W!Waiting
         /\ [u EXCEPT !.at = how].at = how /\ [u EXCEPT !.at = how].n = u.n
BY DEF W!Waiting

LEMMA ReplyTypes ==
  ASSUME asked \in [W!Requests -> W!Waiting \cup {None}], NEW r \in W!Requests, W!Pending(r),
         NEW how \in {"queued", "sent", "ok", "done", "error"}, W!Reply(r, how)
  PROVE  /\ asked' \in [W!Requests -> W!Waiting \cup {None}]
         /\ \A q \in W!Requests \ {r} : asked'[q] = asked[q]
         /\ IF W!AtRoulette THEN /\ asked'[r] \in W!Waiting /\ asked'[r].at = how /\ asked'[r].n = asked[r].n
                          ELSE asked'[r] = None
<1>1. asked[r] \in W!Waiting
  BY DEF W!Pending
<1>2. CASE W!AtRoulette
  <2>1. asked' = [asked EXCEPT ![r] = [asked[r] EXCEPT !.at = how]]
    BY <1>2 DEF W!Reply
  <2>2. [asked[r] EXCEPT !.at = how] \in W!Waiting
    BY <1>1, Replied
  <2> QED BY <1>1, <1>2, <2>1, <2>2, Replied, AskedSet
<1>3. CASE ~W!AtRoulette
  BY <1>1, <1>3, AskedSet DEF W!Reply
<1> QED BY <1>2, <1>3

LEMMA AskTypes ==
  ASSUME asked \in [W!Requests -> W!Waiting \cup {None}], NEW r \in W!Requests, NEW n \in 0..(W!Total + 1), W!Ask(r, n)
  PROVE  /\ asked' \in [W!Requests -> W!Waiting \cup {None}]
         /\ \A q \in W!Requests \ {r} : asked'[q] = asked[q]
         /\ asked'[r] # None /\ asked'[r].at = "sent" /\ asked'[r].n = n
<1>1. [n |-> n, at |-> "sent"] \in W!Waiting
  BY DEF W!Waiting
<1> QED BY <1>1, AskedSet, DealtThings DEF W!Ask

LEMMA ForgetTypes ==
  ASSUME asked \in [W!Requests -> W!Waiting \cup {None}], NEW r \in W!Requests
  PROVE  /\ W!Forget(r) \in [W!Requests -> W!Waiting \cup {None}] /\ W!Forget(r)[r] = None
         /\ \A q \in W!Requests \ {r} : W!Forget(r)[q] = asked[q]
BY AskedSet DEF W!Forget

LEMMA MoveTypes ==
  ASSUME NEW s \in [W!Requests -> W!Waiting \cup {None}], W!Move(s)
  PROVE  /\ asked' \in [W!Requests -> W!Waiting \cup {None}]
         /\ asked'["spin"] = s["spin"] /\ asked'["skip"] = s["skip"]
         /\ giveUp => asked'["exit"] # None /\ asked'["exit"].at = "queued"
         /\ ~giveUp => asked' = s
         /\ place' = IF giveUp THEN "home" ELSE "total"
         /\ token' = IF giveUp THEN token /\ ~guest ELSE token
<1>1. [n |-> 0, at |-> "queued"] \in W!Waiting
  <2>1. 0 \in 0..(W!Total + 1)
    BY DealtThings
  <2> QED BY <2>1 DEF W!Waiting
<1>2. CASE giveUp
  <2>1. asked' = [s EXCEPT !["exit"] = [n |-> 0, at |-> "queued"]] /\ place' = "home" /\ token' = (token /\ ~guest)
    BY <1>2 DEF W!Move, W!GuestGone
  <2>2. asked' \in [W!Requests -> W!Waiting \cup {None}] /\ asked'["exit"] = [n |-> 0, at |-> "queued"]
        /\ asked'["spin"] = s["spin"] /\ asked'["skip"] = s["skip"]
    BY <1>1, <2>1 DEF W!Requests
  <2> QED BY <1>1, <1>2, <2>1, <2>2, DealtThings
<1>3. CASE ~giveUp
  BY <1>3 DEF W!Move
<1> QED BY <1>2, <1>3

\* Where there is nothing left to draw, the penalties are public.
LEMMA CompletedRevealed ==
  ASSUME RollInv, W!AtRoulette, ~giveUp, W!Completed
  PROVE  ~hidden
<1> USE DealtThings DEF RollInv, ResultTypes, DataTypes, HeardInv, FreshInv, SpinInv, W!Completed, W!Left, W!Picked, W!Chances, W!Loaded
<1>1. W!Loaded /\ seen \in {0, W!Total}
  OBVIOUS
<1>2. CASE W!Chances = 0
  BY <1>1, <1>2
<1>3. CASE W!Chances > 0 /\ W!Left = 0
  BY <1>1, <1>3
<1>4. CASE finished
  BY <1>1, <1>4
<1> QED BY <1>2, <1>3, <1>4

LEMMA MoveLeaves ==
  ASSUME NEW s \in [W!Requests -> W!Waiting \cup {None}], W!Move(s), giveUp \/ ~hidden,
         giveUp' = giveUp, hidden' = hidden, guest' = guest
  PROVE  LeftInv'
BY MoveTypes DEF LeftInv, W!Pending

-----------------------------------------------------------------------------
(* Its start *)

LEMMA RollStart == W!Init => RollInv
<1> SUFFICES ASSUME W!Init PROVE RollInv
  OBVIOUS
<1>1. Len(Pool) \in Nat /\ MaxLosses \in Nat /\ MaxRefetches \in Nat
  BY RouletteGiven DEF W!PenaltiesAssumption
<1>2. ResultTypes
  <2>1. drawn \in Seq(W!Contents) /\ Len(drawn) <= W!Total /\ asked \in [W!Requests -> W!Waiting \cup {None}]
    BY DealtThings DEF W!Init
  <2>2. FlagTypes
    <3>1. hidden \in BOOLEAN
      BY DEF W!Init
    <3> QED BY <3>1 DEF W!Init, FlagTypes
  <2>3. DataTypes
    BY <1>1, <2>1, DealtThings DEF W!Init, DataTypes
  <2> QED BY <2>2, <2>3 DEF ResultTypes
<1>3. HeardInv /\ FreshInv /\ SkipInv /\ SpinInv
  BY DealtThings DEF W!Init, HeardInv, FreshInv, SkipInv, SpinInv, W!Pending, W!Idle, W!Requests, W!AtRoulette, Skipped
<1>4. PrefixInv /\ PinnedInv /\ LeftInv
  BY DealtThings DEF W!Init, PrefixInv, PinnedInv, LeftInv, W!AtRoulette, Skipped, W!Loaded
<1> QED BY <1>2, <1>3, <1>4 DEF RollInv

-----------------------------------------------------------------------------
(* The steps of the roulette *)

LEMMA FetchKeeps ==
  ASSUME W!Fetch, RollInv
  PROVE  RollInv'
<1> USE DealtThings DEF W!server, W!wheel, W!knobs, W!count, W!AtRoulette, W!Loaded, W!Chances, W!Picked, W!Left, W!NextSpin, W!Completed, W!AutoDraw, W!DrawDone, W!Pending, W!Idle, W!Answered, W!Ask, W!Forget, W!Requests, Skipped, W!Fetch, RollInv, ResultTypes, FlagTypes, DataTypes, HeardInv, FreshInv, SkipInv, SpinInv, PrefixInv, PinnedInv, LeftInv
<1>0. FlagTypes'
  OBVIOUS
<1>1. DataTypes'
  <2>1. list' \in W!Shuffles \cup {None}
    OBVIOUS
  <2>2. seen' \in 0..W!Total \cup {None}
    OBVIOUS
  <2>3. refetches' \in 0..MaxRefetches
    OBVIOUS
  <2>4. offered' \in BOOLEAN
    OBVIOUS
  <2> QED BY <2>1, <2>2, <2>3, <2>4
<1>2. HeardInv'
  OBVIOUS
<1>3. FreshInv'
  OBVIOUS
<1>4. SkipInv'
  OBVIOUS
<1>5. SpinInv'
  OBVIOUS
<1>6. PrefixInv'
  OBVIOUS
<1>7. PinnedInv'
  OBVIOUS
<1>8. LeftInv'
  OBVIOUS
<1> HIDE DEF FlagTypes, DataTypes, HeardInv, FreshInv, SkipInv, SpinInv, PrefixInv, PinnedInv, LeftInv
<1> QED BY <1>0, <1>1, <1>2, <1>3, <1>4, <1>5, <1>6, <1>7, <1>8

LEMMA GoOnKeeps ==
  ASSUME W!GoOn, RollInv
  PROVE  RollInv'
<1> USE DealtThings DEF W!server, W!wheel, W!knobs, W!count, W!AtRoulette, W!Loaded, W!Chances, W!Picked, W!Left, W!NextSpin, W!Completed, W!AutoDraw, W!DrawDone, W!Pending, W!Idle, W!Answered, W!Ask, W!Forget, W!Requests, Skipped, W!GoOn, RollInv, ResultTypes, FlagTypes, DataTypes, HeardInv, FreshInv, SkipInv, SpinInv, PrefixInv, PinnedInv, LeftInv
<1>0. FlagTypes'
  OBVIOUS
<1>1. DataTypes'
  BY Shuffled DEF W!Waiting
<1>2. HeardInv'
  OBVIOUS
<1>3. FreshInv'
  OBVIOUS
<1>4. SkipInv'
  OBVIOUS
<1>5. SpinInv'
  OBVIOUS
<1>6. PrefixInv'
  OBVIOUS
<1>7. PinnedInv'
  OBVIOUS
<1>8. LeftInv'
  OBVIOUS
<1> HIDE DEF FlagTypes, DataTypes, HeardInv, FreshInv, SkipInv, SpinInv, PrefixInv, PinnedInv, LeftInv
<1> QED BY <1>0, <1>1, <1>2, <1>3, <1>4, <1>5, <1>6, <1>7, <1>8

LEMMA CloseKeeps ==
  ASSUME W!Close, RollInv
  PROVE  RollInv'
<1> USE DealtThings DEF W!server, W!wheel, W!knobs, W!count, W!AtRoulette, W!Loaded, W!Chances, W!Picked, W!Left, W!NextSpin, W!Completed, W!AutoDraw, W!DrawDone, W!Pending, W!Idle, W!Answered, W!Ask, W!Forget, W!Requests, Skipped, W!GuestGone, W!Close, RollInv, ResultTypes, FlagTypes, DataTypes, HeardInv, FreshInv, SkipInv, SpinInv, PrefixInv, PinnedInv, LeftInv
<1>0. FlagTypes'
  OBVIOUS
<1>1. DataTypes'
  BY Shuffled DEF W!Waiting
<1>2. HeardInv'
  OBVIOUS
<1>3. FreshInv'
  OBVIOUS
<1>4. SkipInv'
  OBVIOUS
<1>5. SpinInv'
  OBVIOUS
<1>6. PrefixInv'
  OBVIOUS
<1>7. PinnedInv'
  OBVIOUS
<1>8. LeftInv'
  OBVIOUS
<1> HIDE DEF FlagTypes, DataTypes, HeardInv, FreshInv, SkipInv, SpinInv, PrefixInv, PinnedInv, LeftInv
<1> QED BY <1>0, <1>1, <1>2, <1>3, <1>4, <1>5, <1>6, <1>7, <1>8

LEMMA ReloadKeeps ==
  ASSUME W!Reload, RollInv
  PROVE  RollInv'
<1> USE DealtThings DEF W!server, W!wheel, W!knobs, W!count, W!AtRoulette, W!Loaded, W!Chances, W!Picked, W!Left, W!NextSpin, W!Completed, W!AutoDraw, W!DrawDone, W!Pending, W!Idle, W!Answered, W!Ask, W!Forget, W!Requests, Skipped, W!Reload, RollInv, ResultTypes, FlagTypes, DataTypes, HeardInv, FreshInv, SkipInv, SpinInv, PrefixInv, PinnedInv, LeftInv
<1>0. FlagTypes'
  OBVIOUS
<1>1. DataTypes'
  <2>1. asked' \in [W!Requests -> W!Waiting \cup {None}]
    OBVIOUS
  <2>2. drawn' \in Seq(W!Contents) /\ Len(drawn') <= W!Total
    OBVIOUS
  <2>3. refetches' \in 0..MaxRefetches /\ index' \in 0..W!Total /\ pinned' \in 0..Len(Pool)
    OBVIOUS
  <2> QED BY <2>1, <2>2, <2>3 DEF W!Reload
<1>2. HeardInv'
  OBVIOUS
<1>3. FreshInv'
  OBVIOUS
<1>4. SkipInv'
  OBVIOUS
<1>5. SpinInv'
  OBVIOUS
<1>6. PrefixInv'
  OBVIOUS
<1>7. PinnedInv'
  OBVIOUS
<1>8. LeftInv'
  OBVIOUS
<1> HIDE DEF FlagTypes, DataTypes, HeardInv, FreshInv, SkipInv, SpinInv, PrefixInv, PinnedInv, LeftInv
<1> QED BY <1>0, <1>1, <1>2, <1>3, <1>4, <1>5, <1>6, <1>7, <1>8

LEMMA TimeUpKeeps ==
  ASSUME W!TimeUp, RollInv
  PROVE  RollInv'
<1> USE DealtThings DEF W!server, W!wheel, W!knobs, W!count, W!AtRoulette, W!Loaded, W!Chances, W!Picked, W!Left, W!NextSpin, W!Completed, W!AutoDraw, W!DrawDone, W!Pending, W!Idle, W!Answered, W!Ask, W!Forget, W!Requests, Skipped, W!TimeUp, RollInv, ResultTypes, FlagTypes, DataTypes, HeardInv, FreshInv, SkipInv, SpinInv, PrefixInv, PinnedInv, LeftInv
<1>0. FlagTypes'
  OBVIOUS
<1>1. DataTypes'
  BY Shuffled DEF W!Waiting
<1>2. HeardInv'
  OBVIOUS
<1>3. FreshInv'
  OBVIOUS
<1>4. SkipInv'
  OBVIOUS
<1>5. SpinInv'
  OBVIOUS
<1>6. PrefixInv'
  OBVIOUS
<1>7. PinnedInv'
  OBVIOUS
<1>8. LeftInv'
  OBVIOUS
<1> HIDE DEF FlagTypes, DataTypes, HeardInv, FreshInv, SkipInv, SpinInv, PrefixInv, PinnedInv, LeftInv
<1> QED BY <1>0, <1>1, <1>2, <1>3, <1>4, <1>5, <1>6, <1>7, <1>8

LEMMA MoveIfEmptyKeeps ==
  ASSUME W!MoveIfEmpty, RollInv
  PROVE  RollInv'
<1> USE DealtThings DEF W!server, W!wheel, W!knobs, W!count, W!AtRoulette, W!Loaded, W!Chances, W!Picked, W!Left, W!NextSpin, W!Completed, W!AutoDraw, W!DrawDone, W!Pending, W!Idle, W!Answered, W!Ask, W!Forget, W!Requests, Skipped, W!MoveOn, W!Move, W!GuestGone, W!MoveIfEmpty, RollInv, ResultTypes, FlagTypes, DataTypes, HeardInv, FreshInv, SkipInv, SpinInv, PrefixInv, PinnedInv, LeftInv
<1>0. FlagTypes'
  OBVIOUS
<1>1. DataTypes'
  BY Shuffled DEF W!Waiting
<1>2. HeardInv'
  OBVIOUS
<1>3. FreshInv'
  OBVIOUS
<1>4. SkipInv'
  OBVIOUS
<1>5. SpinInv'
  OBVIOUS
<1>6. PrefixInv'
  OBVIOUS
<1>7. PinnedInv'
  OBVIOUS
<1>8. LeftInv'
  OBVIOUS
<1> HIDE DEF FlagTypes, DataTypes, HeardInv, FreshInv, SkipInv, SpinInv, PrefixInv, PinnedInv, LeftInv
<1> QED BY <1>0, <1>1, <1>2, <1>3, <1>4, <1>5, <1>6, <1>7, <1>8

LEMMA CloseButtonKeeps ==
  ASSUME W!CloseButton, RollInv
  PROVE  RollInv'
<1> USE DealtThings DEF W!server, W!wheel, W!knobs, W!count, W!AtRoulette, W!Loaded, W!Chances, W!Picked, W!Left, W!NextSpin, W!Completed, W!AutoDraw, W!DrawDone, W!Pending, W!Idle, W!Answered, W!Ask, W!Forget, W!Requests, Skipped, W!MoveOn, W!Move, W!GuestGone, W!CloseButton, RollInv, ResultTypes, FlagTypes, DataTypes, HeardInv, FreshInv, SkipInv, SpinInv, PrefixInv, PinnedInv, LeftInv
<1>0. FlagTypes'
  <2>1. token' \in BOOLEAN
    OBVIOUS
  <2>2. spinning' \in BOOLEAN /\ finished' \in BOOLEAN /\ skipping' \in BOOLEAN
    OBVIOUS
  <2>3. dialog' \in BOOLEAN
    OBVIOUS
  <2>4. giveUp' = giveUp /\ guest' = guest /\ hidden' = hidden /\ timeUp' = timeUp /\ offered' = offered
    OBVIOUS
  <2> QED BY <2>1, <2>2, <2>3, <2>4
<1>1. DataTypes'
  <2>1. CASE W!Completed
    <3> HIDE DEF W!Move
    <3> QED BY <2>1, MoveTypes
  <2>2. CASE ~W!Completed
    BY <2>2
  <2> QED BY <2>1, <2>2
<1>2. HeardInv'
  <2>1. CASE W!Completed
    <3> HIDE DEF W!Move
    <3> QED BY <2>1, MoveTypes
  <2>2. CASE ~W!Completed
    BY <2>2
  <2> QED BY <2>1, <2>2
<1>3. FreshInv'
  OBVIOUS
<1>4. SkipInv'
  OBVIOUS
<1>5. SpinInv'
  OBVIOUS
<1>6. PrefixInv'
  OBVIOUS
<1>7. PinnedInv'
  OBVIOUS
<1>8. LeftInv'
  <2>1. CASE W!Completed
    <3> HIDE DEF W!Move, LeftInv
    <3> QED BY <2>1, MoveLeaves, CompletedRevealed
  <2>2. CASE ~W!Completed
    <3>1. place' = "roulette"
      BY <2>2
    <3> QED BY <3>1 DEF LeftInv
  <2> QED BY <2>1, <2>2
<1> HIDE DEF FlagTypes, DataTypes, HeardInv, FreshInv, SkipInv, SpinInv, PrefixInv, PinnedInv, LeftInv
<1> QED BY <1>0, <1>1, <1>2, <1>3, <1>4, <1>5, <1>6, <1>7, <1>8

LEMMA CancelKeeps ==
  ASSUME W!Cancel, RollInv
  PROVE  RollInv'
<1> USE DealtThings DEF W!server, W!wheel, W!knobs, W!count, W!AtRoulette, W!Loaded, W!Chances, W!Picked, W!Left, W!NextSpin, W!Completed, W!AutoDraw, W!DrawDone, W!Pending, W!Idle, W!Answered, W!Ask, W!Forget, W!Requests, Skipped, W!Cancel, RollInv, ResultTypes, FlagTypes, DataTypes, HeardInv, FreshInv, SkipInv, SpinInv, PrefixInv, PinnedInv, LeftInv
<1>0. FlagTypes'
  OBVIOUS
<1>1. DataTypes'
  BY Shuffled DEF W!Waiting
<1>2. HeardInv'
  OBVIOUS
<1>3. FreshInv'
  BY DEF W!Cancel
<1>4. SkipInv'
  OBVIOUS
<1>5. SpinInv'
  OBVIOUS
<1>6. PrefixInv'
  OBVIOUS
<1>7. PinnedInv'
  OBVIOUS
<1>8. LeftInv'
  OBVIOUS
<1> HIDE DEF FlagTypes, DataTypes, HeardInv, FreshInv, SkipInv, SpinInv, PrefixInv, PinnedInv, LeftInv
<1> QED BY <1>0, <1>1, <1>2, <1>3, <1>4, <1>5, <1>6, <1>7, <1>8

LEMMA ExitKeeps ==
  ASSUME W!Exit, RollInv
  PROVE  RollInv'
<1> USE DealtThings DEF W!server, W!wheel, W!knobs, W!count, W!AtRoulette, W!Loaded, W!Chances, W!Picked, W!Left, W!NextSpin, W!Completed, W!AutoDraw, W!DrawDone, W!Pending, W!Idle, W!Answered, W!Ask, W!Forget, W!Requests, Skipped, W!MoveOn, W!Move, W!GuestGone, W!Exit, RollInv, ResultTypes, FlagTypes, DataTypes, HeardInv, FreshInv, SkipInv, SpinInv, PrefixInv, PinnedInv, LeftInv
<1>0. FlagTypes'
  OBVIOUS
<1>1. DataTypes'
  <2>1. CASE giveUp
    <3> HIDE DEF W!Move
    <3> QED BY <2>1, MoveTypes
  <2>2. CASE ~giveUp
    <3> HIDE DEF W!Ask
    <3> QED BY <2>2, AskTypes
  <2> QED BY <2>1, <2>2
<1>2. HeardInv'
  <2>1. CASE giveUp
    <3> HIDE DEF W!Move
    <3> QED BY <2>1, MoveTypes
  <2>2. CASE ~giveUp
    <3> HIDE DEF W!Ask
    <3> QED BY <2>2, AskTypes
  <2> QED BY <2>1, <2>2
<1>3. FreshInv'
  OBVIOUS
<1>4. SkipInv'
  OBVIOUS
<1>5. SpinInv'
  OBVIOUS
<1>6. PrefixInv'
  <2>1. CASE giveUp
    <3> HIDE DEF W!Move
    <3> QED BY <2>1, MoveTypes
  <2>2. CASE ~giveUp
    <3> HIDE DEF W!Ask
    <3> QED BY <2>2, AskTypes
  <2> QED BY <2>1, <2>2
<1>7. PinnedInv'
  OBVIOUS
<1>8. LeftInv'
  <2>1. CASE giveUp
    <3> HIDE DEF W!Move
    <3> QED BY <2>1, MoveTypes, MoveLeaves
  <2>2. CASE ~giveUp
    <3> HIDE DEF W!Ask
    <3> QED BY <2>2, AskTypes
  <2> QED BY <2>1, <2>2
<1> HIDE DEF FlagTypes, DataTypes, HeardInv, FreshInv, SkipInv, SpinInv, PrefixInv, PinnedInv, LeftInv
<1> QED BY <1>0, <1>1, <1>2, <1>3, <1>4, <1>5, <1>6, <1>7, <1>8

LEMMA ExitAnsweredKeeps ==
  ASSUME W!ExitAnswered, RollInv
  PROVE  RollInv'
<1> USE DealtThings DEF W!server, W!wheel, W!knobs, W!count, W!AtRoulette, W!Loaded, W!Chances, W!Picked, W!Left, W!NextSpin, W!Completed, W!AutoDraw, W!DrawDone, W!Pending, W!Idle, W!Answered, W!Ask, W!Forget, W!Requests, Skipped, W!MoveOn, W!Move, W!GuestGone, W!ExitAnswered, RollInv, ResultTypes, FlagTypes, DataTypes, HeardInv, FreshInv, SkipInv, SpinInv, PrefixInv, PinnedInv, LeftInv
<1>0. FlagTypes'
  OBVIOUS
<1>1. DataTypes'
  <2>0. W!Forget("exit") \in [W!Requests -> W!Waiting \cup {None}]
    BY ForgetTypes
  <2>1. CASE W!MoveOn(W!Forget("exit")) /\ dialog' = FALSE
    <3>1. W!Move(W!Forget("exit"))
      BY <2>1
    <3>2. /\ asked' \in [W!Requests -> W!Waiting \cup {None}] /\ place' \in {"home", "total"}
          /\ token' \in BOOLEAN
      BY <2>0, <3>1, MoveTypes, ZenonT(60) DEF ResultTypes, FlagTypes
    <3> HIDE DEF W!Move, W!Forget
    <3> QED BY <2>1, <3>2
  <2>2. CASE place' = "home" /\ W!GuestGone /\ asked' = W!Forget("exit") /\ dialog' = FALSE
             /\ UNCHANGED <<W!server, seen, list, W!wheel, timeUp, skipping, offered, W!count>>
    <3> HIDE DEF W!Forget
    <3>1. token' \in BOOLEAN
      BY <2>2
    <3> QED BY <2>0, <2>2, <3>1
  <2> QED BY <2>1, <2>2
<1>2. HeardInv'
  OBVIOUS
<1>3. FreshInv'
  OBVIOUS
<1>4. SkipInv'
  OBVIOUS
<1>5. SpinInv'
  OBVIOUS
<1>6. PrefixInv'
  OBVIOUS
<1>7. PinnedInv'
  OBVIOUS
<1>8. LeftInv'
  <2>0. W!Forget("exit") \in [W!Requests -> W!Waiting \cup {None}]
    BY ForgetTypes
  <2>1. CASE W!MoveOn(W!Forget("exit")) /\ (W!Answered("exit", "ok") \/ W!Answered("exit", "done"))
    <3>1. ~hidden
      BY <2>1
    <3> HIDE DEF W!Move, W!Forget, LeftInv
    <3> QED BY <2>0, <2>1, <3>1, MoveLeaves
  <2>2. CASE W!Answered("exit", "error") /\ UNCHANGED W!count
    <3>1. lost > 0
      BY <2>2
    <3> QED BY <2>2, <3>1
  <2> QED BY <2>1, <2>2
<1> HIDE DEF FlagTypes, DataTypes, HeardInv, FreshInv, SkipInv, SpinInv, PrefixInv, PinnedInv, LeftInv
<1> QED BY <1>0, <1>1, <1>2, <1>3, <1>4, <1>5, <1>6, <1>7, <1>8

LEMMA StartKeeps ==
  ASSUME W!Start, RollInv
  PROVE  RollInv'
<1> USE DealtThings DEF W!server, W!wheel, W!knobs, W!count, W!AtRoulette, W!Loaded, W!Chances, W!Picked, W!Left, W!NextSpin, W!Completed, W!AutoDraw, W!DrawDone, W!Pending, W!Idle, W!Answered, W!Ask, W!Forget, W!Requests, Skipped, W!MoveOn, W!Move, W!GuestGone, W!SpinTo, W!StartButton, W!AutoLoop, W!CannotStart, W!Start, RollInv, ResultTypes, FlagTypes, DataTypes, HeardInv, FreshInv, SkipInv, SpinInv, PrefixInv, PinnedInv, LeftInv
<1>0. FlagTypes'
  <2>1. token' \in BOOLEAN
    OBVIOUS
  <2>2. spinning' \in BOOLEAN /\ finished' \in BOOLEAN /\ skipping' \in BOOLEAN
    OBVIOUS
  <2>3. dialog' \in BOOLEAN
    OBVIOUS
  <2>4. giveUp' = giveUp /\ guest' = guest /\ hidden' = hidden /\ timeUp' = timeUp /\ offered' = offered
    OBVIOUS
  <2> QED BY <2>1, <2>2, <2>3, <2>4
<1>1. DataTypes'
  <2>1. CASE W!Completed
    <3> HIDE DEF W!Move
    <3> QED BY <2>1, MoveTypes
  <2>2. CASE ~W!Completed /\ giveUp
    <3>1. list \in W!Shuffles /\ W!Picked + 1 \in 1..W!Total /\ list[W!Picked + 1] \in W!Contents
      BY <2>2, Shuffled
    <3> QED BY <2>2, <3>1, SlotHolds
  <2>3. CASE ~W!Completed /\ ~giveUp
    <3>1. W!NextSpin \in 0..(W!Total + 1)
      BY <2>3
    <3> HIDE DEF W!Ask, W!NextSpin
    <3> QED BY <2>3, <3>1, AskTypes
  <2> QED BY <2>1, <2>2, <2>3
<1>2. HeardInv'
  <2>1. CASE W!Completed
    <3> HIDE DEF W!Move
    <3> QED BY <2>1, MoveTypes
  <2>2. CASE ~W!Completed /\ giveUp
    <3>1. list \in W!Shuffles /\ W!Picked + 1 \in 1..W!Total /\ list[W!Picked + 1] \in W!Contents
      BY <2>2, Shuffled
    <3> QED BY <2>2, <3>1
  <2>3. CASE ~W!Completed /\ ~giveUp
    <3>1. W!NextSpin \in 0..(W!Total + 1) /\ W!NextSpin \in 1..W!Total
      BY <2>3
    <3> HIDE DEF W!Ask, W!NextSpin
    <3> QED BY <2>3, <3>1, AskTypes
  <2> QED BY <2>1, <2>2, <2>3
<1>3. FreshInv'
  OBVIOUS
<1>4. SkipInv'
  OBVIOUS
<1>5. SpinInv'
  OBVIOUS
<1>6. PrefixInv'
  OBVIOUS
<1>7. PinnedInv'
  <2>1. CASE W!Completed
    <3> HIDE DEF W!Move
    <3> QED BY <2>1, MoveTypes
  <2>2. CASE ~W!Completed /\ giveUp
    <3>1. list \in W!Shuffles /\ W!Picked + 1 \in 1..W!Total /\ list[W!Picked + 1] \in W!Contents
      BY <2>2, Shuffled
    <3> QED BY <2>2, <3>1
  <2>3. CASE ~W!Completed /\ ~giveUp
    <3>1. W!NextSpin \in 0..(W!Total + 1)
      BY <2>3
    <3> HIDE DEF W!Ask, W!NextSpin
    <3> QED BY <2>3, <3>1, AskTypes
  <2> QED BY <2>1, <2>2, <2>3
<1>8. LeftInv'
  <2>1. CASE W!Completed
    <3> HIDE DEF W!Move, LeftInv
    <3> QED BY <2>1, MoveTypes, MoveLeaves, CompletedRevealed
  <2>2. CASE ~W!Completed /\ giveUp
    <3>1. list \in W!Shuffles /\ W!Picked + 1 \in 1..W!Total /\ list[W!Picked + 1] \in W!Contents
      BY <2>2, Shuffled
    <3> QED BY <2>2, <3>1
  <2>3. CASE ~W!Completed /\ ~giveUp
    <3>1. W!NextSpin \in 0..(W!Total + 1)
      BY <2>3
    <3> HIDE DEF W!Ask, W!NextSpin
    <3> QED BY <2>3, <3>1, AskTypes
  <2> QED BY <2>1, <2>2, <2>3
<1> HIDE DEF FlagTypes, DataTypes, HeardInv, FreshInv, SkipInv, SpinInv, PrefixInv, PinnedInv, LeftInv
<1> QED BY <1>0, <1>1, <1>2, <1>3, <1>4, <1>5, <1>6, <1>7, <1>8

\* A spin that is answered, and not overtaken by a skip, is the next one.
LEMMA SpinNext ==
  ASSUME RollInv, W!Answered("spin", "ok"), ~skipping
  PROVE  /\ asked["spin"].n = index + 1 /\ index + 1 \in 1..W!Total /\ ~giveUp /\ ~spinning /\ W!Loaded
<1>1. asked["spin"] \in W!Waiting /\ W!Pending("spin") /\ W!AtRoulette
  BY DEF W!Answered, RollInv, ResultTypes, DataTypes, W!Pending, W!Requests
<1>2. ~giveUp /\ W!Loaded
  BY <1>1 DEF RollInv, HeardInv, FreshInv, W!Pending, W!Idle
<1>3. asked["spin"].n = index + 1 /\ ~spinning
  BY <1>1 DEF RollInv, SpinInv, Skipped
<1>4. asked["spin"].n \in 0..(W!Total + 1) /\ index \in 0..W!Total /\ W!Total \in Nat
  BY <1>1, DealtThings DEF W!Waiting, RollInv, ResultTypes, DataTypes
<1>5. asked["spin"].n \in 1..W!Total
  BY <1>1 DEF RollInv, HeardInv
<1> QED BY <1>2, <1>3, <1>4, <1>5

LEMMA SpinAnsweredKeeps ==
  ASSUME W!SpinAnswered, RollInv
  PROVE  RollInv'
<1> USE DealtThings DEF W!server, W!wheel, W!knobs, W!count, W!AtRoulette, W!Loaded, W!Chances, W!Picked, W!Left, W!NextSpin, W!Completed, W!AutoDraw, W!DrawDone, W!Pending, W!Idle, W!Answered, W!Ask, W!Forget, W!Requests, Skipped, W!MoveOn, W!Move, W!GuestGone, W!SpinTo, W!SpinAnswered, RollInv, ResultTypes, FlagTypes, DataTypes, HeardInv, FreshInv, SkipInv, SpinInv, PrefixInv, PinnedInv, LeftInv
<1>0. FlagTypes'
  <2>1. token' \in BOOLEAN
    OBVIOUS
  <2>2. spinning' \in BOOLEAN /\ finished' \in BOOLEAN /\ skipping' \in BOOLEAN
    OBVIOUS
  <2>3. dialog' \in BOOLEAN
    OBVIOUS
  <2>4. giveUp' = giveUp /\ guest' = guest /\ hidden' = hidden /\ timeUp' = timeUp /\ offered' = offered
    OBVIOUS
  <2> QED BY <2>1, <2>2, <2>3, <2>4
<1>1. DataTypes'
  <2>0. W!Forget("spin") \in [W!Requests -> W!Waiting \cup {None}]
    BY ForgetTypes
  <2>1. CASE /\ W!Answered("spin", "ok") /\ asked' = W!Forget("spin") /\ ~skipping
             /\ finished' = (asked["spin"].n = W!Total) /\ W!SpinTo(order[asked["spin"].n])
             /\ UNCHANGED <<W!server, token, place, seen, list, W!knobs, W!count>>
    <3>1. asked["spin"].n = index + 1 /\ index + 1 \in 1..W!Total /\ ~giveUp /\ ~spinning /\ W!Loaded
      BY <2>1, SpinNext
    <3>2. order[index + 1] \in W!Contents
      BY <3>1, Shuffled
    <3> QED BY <2>0, <2>1, <3>1, <3>2, SlotHolds
  <2>2. CASE /\ W!Answered("spin", "ok") /\ asked' = W!Forget("spin") /\ skipping
             /\ finished' = (asked["spin"].n = W!Total)
             /\ UNCHANGED <<index, spinning, landing, pinned, drawn>>
             /\ UNCHANGED <<W!server, token, place, seen, list, W!knobs, W!count>>
    BY <2>0, <2>2
  <2>3. CASE /\ W!Answered("spin", "done") \/ W!Answered("spin", "error")
             /\ UNCHANGED <<W!server, seen, list, W!wheel, timeUp, skipping, offered, W!count, dialog>>
             /\ \/ asked' = W!Forget("spin") /\ UNCHANGED <<token, place>>
                \/ W!Move(W!Forget("spin"))
    <3>1. /\ asked' \in [W!Requests -> W!Waiting \cup {None}] /\ place' \in {"roulette", "home", "total"}
          /\ token' \in BOOLEAN
      BY <2>0, <2>3, MoveTypes, ZenonT(60) DEF ResultTypes, FlagTypes, W!AtRoulette, W!Answered
    <3> HIDE DEF W!Move, W!Forget
    <3> QED BY <2>3, <3>1
  <2> HIDE DEF W!Move, W!Forget, W!SpinTo
  <2> QED BY <2>1, <2>2, <2>3 DEF W!SpinAnswered
<1>2. HeardInv'
  OBVIOUS
<1>3. FreshInv'
  OBVIOUS
<1>4. SkipInv'
  OBVIOUS
<1>5. SpinInv'
  OBVIOUS
<1>6. PrefixInv'
  <2>0. W!Forget("spin") \in [W!Requests -> W!Waiting \cup {None}]
    BY ForgetTypes
  <2>1. CASE /\ W!Answered("spin", "ok") /\ asked' = W!Forget("spin") /\ ~skipping
             /\ finished' = (asked["spin"].n = W!Total) /\ W!SpinTo(order[asked["spin"].n])
             /\ UNCHANGED <<W!server, token, place, seen, list, W!knobs, W!count>>
    <3>1. asked["spin"].n = index + 1 /\ index + 1 \in 1..W!Total /\ ~giveUp /\ ~spinning /\ W!Loaded
      BY <2>1, SpinNext
    <3>2. order[index + 1] \in W!Contents
      BY <3>1, Shuffled
    <3> QED BY <2>0, <2>1, <3>1, <3>2
  <2>2. CASE /\ W!Answered("spin", "ok") /\ asked' = W!Forget("spin") /\ skipping
             /\ finished' = (asked["spin"].n = W!Total)
             /\ UNCHANGED <<index, spinning, landing, pinned, drawn>>
             /\ UNCHANGED <<W!server, token, place, seen, list, W!knobs, W!count>>
    BY <2>0, <2>2
  <2>3. CASE /\ W!Answered("spin", "done") \/ W!Answered("spin", "error")
             /\ UNCHANGED <<W!server, seen, list, W!wheel, timeUp, skipping, offered, W!count, dialog>>
             /\ \/ asked' = W!Forget("spin") /\ UNCHANGED <<token, place>>
                \/ W!Move(W!Forget("spin"))
    <3> HIDE DEF W!Move
    <3> QED BY <2>0, <2>3, MoveTypes, ForgetTypes
  <2> HIDE DEF W!Move, W!Forget, W!SpinTo
  <2> QED BY <2>1, <2>2, <2>3 DEF W!SpinAnswered
<1>7. PinnedInv'
  <2>0. W!Forget("spin") \in [W!Requests -> W!Waiting \cup {None}]
    BY ForgetTypes
  <2>1. CASE /\ W!Answered("spin", "ok") /\ asked' = W!Forget("spin") /\ ~skipping
             /\ finished' = (asked["spin"].n = W!Total) /\ W!SpinTo(order[asked["spin"].n])
             /\ UNCHANGED <<W!server, token, place, seen, list, W!knobs, W!count>>
    <3>1. asked["spin"].n = index + 1 /\ index + 1 \in 1..W!Total /\ ~giveUp /\ ~spinning /\ W!Loaded
      BY <2>1, SpinNext
    <3>2. order[index + 1] \in W!Contents
      BY <3>1, Shuffled
    <3> QED BY <2>0, <2>1, <3>1, <3>2
  <2>2. CASE /\ W!Answered("spin", "ok") /\ asked' = W!Forget("spin") /\ skipping
             /\ finished' = (asked["spin"].n = W!Total)
             /\ UNCHANGED <<index, spinning, landing, pinned, drawn>>
             /\ UNCHANGED <<W!server, token, place, seen, list, W!knobs, W!count>>
    BY <2>0, <2>2
  <2>3. CASE /\ W!Answered("spin", "done") \/ W!Answered("spin", "error")
             /\ UNCHANGED <<W!server, seen, list, W!wheel, timeUp, skipping, offered, W!count, dialog>>
             /\ \/ asked' = W!Forget("spin") /\ UNCHANGED <<token, place>>
                \/ W!Move(W!Forget("spin"))
    <3> HIDE DEF W!Move
    <3> QED BY <2>0, <2>3, MoveTypes, ForgetTypes
  <2> HIDE DEF W!Move, W!Forget, W!SpinTo
  <2> QED BY <2>1, <2>2, <2>3 DEF W!SpinAnswered
<1>8. LeftInv'
  OBVIOUS
<1> HIDE DEF FlagTypes, DataTypes, HeardInv, FreshInv, SkipInv, SpinInv, PrefixInv, PinnedInv, LeftInv
<1> QED BY <1>0, <1>1, <1>2, <1>3, <1>4, <1>5, <1>6, <1>7, <1>8

LEMMA StopKeeps ==
  ASSUME W!Stop, RollInv
  PROVE  RollInv'
<1> USE DealtThings DEF W!server, W!wheel, W!knobs, W!count, W!AtRoulette, W!Loaded, W!Chances, W!Picked, W!Left, W!NextSpin, W!Completed, W!AutoDraw, W!DrawDone, W!Pending, W!Idle, W!Answered, W!Ask, W!Forget, W!Requests, Skipped, W!Stop, RollInv, ResultTypes, FlagTypes, DataTypes, HeardInv, FreshInv, SkipInv, SpinInv, PrefixInv, PinnedInv, LeftInv
<1>0. FlagTypes'
  OBVIOUS
<1>1. DataTypes'
  <2>1. CASE skipping
    BY <2>1
  <2>2. CASE ~skipping
    <3>1. landing \in W!Contents /\ index + 1 \in 0..W!Total /\ Len(drawn) = index
      BY <2>2
    <3>2. Append(drawn, landing) \in Seq(W!Contents) /\ Len(Append(drawn, landing)) = index + 1
      BY <3>1
    <3>3. drawn' = Append(drawn, landing) /\ index' = index + 1 /\ landing' = None
      BY <2>2
    <3>4. drawn' \in Seq(W!Contents) /\ Len(drawn') <= W!Total /\ index' \in 0..W!Total
      BY <3>1, <3>2, <3>3
    <3> QED BY <3>3, <3>4
  <2> QED BY <2>1, <2>2
<1>2. HeardInv'
  OBVIOUS
<1>3. FreshInv'
  OBVIOUS
<1>4. SkipInv'
  OBVIOUS
<1>5. SpinInv'
  OBVIOUS
<1>6. PrefixInv'
  <2>1. CASE skipping
    BY <2>1
  <2>2. CASE ~skipping
    <3>0. Len(drawn) = index /\ drawn \in Seq(W!Contents) /\ index \in Nat /\ landing \in W!Contents
      BY <2>2
    <3>1. /\ drawn' = Append(drawn, landing) /\ index' = index + 1
      BY <2>2
    <3>2. /\ Len(drawn') = index'
          /\ \A i \in 1..index' : drawn'[i] = IF i <= index THEN drawn[i] ELSE landing
      BY <3>0, <3>1
    <3>3. \A i \in 1..index' : i <= index \/ i = index + 1
      BY <3>0, <3>1
    <3> QED BY <2>2, <3>0, <3>1, <3>2, <3>3
  <2> QED BY <2>1, <2>2
<1>7. PinnedInv'
  OBVIOUS
<1>8. LeftInv'
  OBVIOUS
<1> HIDE DEF FlagTypes, DataTypes, HeardInv, FreshInv, SkipInv, SpinInv, PrefixInv, PinnedInv, LeftInv
<1> QED BY <1>0, <1>1, <1>2, <1>3, <1>4, <1>5, <1>6, <1>7, <1>8

LEMMA SkipKeeps ==
  ASSUME W!Skip, RollInv
  PROVE  RollInv'
<1> USE DealtThings DEF W!server, W!wheel, W!knobs, W!count, W!AtRoulette, W!Loaded, W!Chances, W!Picked, W!Left, W!NextSpin, W!Completed, W!AutoDraw, W!DrawDone, W!Pending, W!Idle, W!Answered, W!Ask, W!Forget, W!Requests, Skipped, W!MaySkip, W!Skip, RollInv, ResultTypes, FlagTypes, DataTypes, HeardInv, FreshInv, SkipInv, SpinInv, PrefixInv, PinnedInv, LeftInv
<1>0. FlagTypes'
  OBVIOUS
<1>1. DataTypes'
  BY Shuffled DEF W!Waiting
<1>2. HeardInv'
  OBVIOUS
<1>3. FreshInv'
  OBVIOUS
<1>4. SkipInv'
  <2>1. seen = 0 /\ W!Chances = W!Total /\ index + 1 < W!Total /\ W!Chances \in 0..(W!Total + 1)
    OBVIOUS
  <2> HIDE DEF W!Ask, W!Chances
  <2> QED BY <2>1, AskTypes
<1>5. SpinInv'
  OBVIOUS
<1>6. PrefixInv'
  OBVIOUS
<1>7. PinnedInv'
  OBVIOUS
<1>8. LeftInv'
  OBVIOUS
<1> HIDE DEF FlagTypes, DataTypes, HeardInv, FreshInv, SkipInv, SpinInv, PrefixInv, PinnedInv, LeftInv
<1> QED BY <1>0, <1>1, <1>2, <1>3, <1>4, <1>5, <1>6, <1>7, <1>8

LEMMA SkipAnsweredKeeps ==
  ASSUME W!SkipAnswered, RollInv
  PROVE  RollInv'
<1> USE DealtThings DEF W!server, W!wheel, W!knobs, W!count, W!AtRoulette, W!Loaded, W!Chances, W!Picked, W!Left, W!NextSpin, W!Completed, W!AutoDraw, W!DrawDone, W!Pending, W!Idle, W!Answered, W!Ask, W!Forget, W!Requests, Skipped, W!MoveOn, W!Move, W!GuestGone, W!SkipAnswered, RollInv, ResultTypes, FlagTypes, DataTypes, HeardInv, FreshInv, SkipInv, SpinInv, PrefixInv, PinnedInv, LeftInv
<1>0. FlagTypes'
  <2>1. token' \in BOOLEAN
    OBVIOUS
  <2>2. spinning' \in BOOLEAN /\ finished' \in BOOLEAN /\ skipping' \in BOOLEAN
    OBVIOUS
  <2>3. dialog' \in BOOLEAN
    OBVIOUS
  <2>4. giveUp' = giveUp /\ guest' = guest /\ hidden' = hidden /\ timeUp' = timeUp /\ offered' = offered
    OBVIOUS
  <2> QED BY <2>1, <2>2, <2>3, <2>4
<1>1. DataTypes'
  <2>1. asked' \in [W!Requests -> W!Waiting \cup {None}]
    BY AskedSet DEF W!Waiting
  <2>2. drawn' \in Seq(W!Contents) /\ Len(drawn') <= W!Total
    OBVIOUS
  <2>3. index' \in 0..W!Total /\ pinned' \in 0..Len(Pool) /\ landing' \in W!Contents \cup {None}
    OBVIOUS
  <2>4. place' \in {"semi", "roulette", "total", "home"} /\ token' \in BOOLEAN
    OBVIOUS
  <2> QED BY <2>1, <2>2, <2>3, <2>4
<1>2. HeardInv'
  OBVIOUS
<1>3. FreshInv'
  OBVIOUS
<1>4. SkipInv'
  OBVIOUS
<1>5. SpinInv'
  OBVIOUS
<1>6. PrefixInv'
  OBVIOUS
<1>7. PinnedInv'
  OBVIOUS
<1>8. LeftInv'
  OBVIOUS
<1> HIDE DEF FlagTypes, DataTypes, HeardInv, FreshInv, SkipInv, SpinInv, PrefixInv, PinnedInv, LeftInv
<1> QED BY <1>0, <1>1, <1>2, <1>3, <1>4, <1>5, <1>6, <1>7, <1>8

LEMMA WriteKeeps ==
  ASSUME W!Write, RollInv
  PROVE  RollInv'
<1> USE DealtThings DEF W!server, W!wheel, W!knobs, W!count, W!AtRoulette, W!Loaded, W!Chances, W!Picked, W!Left, W!NextSpin, W!Completed, W!AutoDraw, W!DrawDone, W!Pending, W!Idle, W!Answered, W!Ask, W!Forget, W!Requests, Skipped, W!Write, RollInv, ResultTypes, FlagTypes, DataTypes, HeardInv, FreshInv, SkipInv, SpinInv, PrefixInv, PinnedInv, LeftInv
<1>0. FlagTypes'
  OBVIOUS
<1>1. DataTypes'
  <2>1. asked["exit"] \in W!Waiting
    OBVIOUS
  <2>2. \A u \in W!Waiting : [u EXCEPT !.at = "sent"] \in W!Waiting
    BY Replied
  <2>3. asked' \in [W!Requests -> W!Waiting \cup {None}]
    BY <2>1, <2>2, AskedSet
  <2> QED BY <2>3
<1>2. HeardInv'
  OBVIOUS
<1>3. FreshInv'
  OBVIOUS
<1>4. SkipInv'
  OBVIOUS
<1>5. SpinInv'
  OBVIOUS
<1>6. PrefixInv'
  OBVIOUS
<1>7. PinnedInv'
  OBVIOUS
<1>8. LeftInv'
  <2>1. asked["exit"] \in W!Waiting
    OBVIOUS
  <2>2. CASE token
    <3>1. asked'["exit"] = [asked["exit"] EXCEPT !.at = "sent"] /\ UNCHANGED <<place, lost, hidden, guest, giveUp>>
      BY <2>2
    <3>2. asked'["exit"].at = "sent" /\ asked'["exit"] \in W!Waiting
      <4>1. \A u \in W!Waiting : [u EXCEPT !.at = "sent"] \in W!Waiting /\ [u EXCEPT !.at = "sent"].at = "sent"
        BY Replied
      <4> QED BY <2>1, <3>1, <4>1
    <3>3. asked'["exit"] # None
      BY <3>2, DealtThings
    <3>4. place \in {"total", "home"} /\ lost = 0 /\ hidden => giveUp
      OBVIOUS
    <3> HIDE DEF W!Write
    <3> QED BY <3>1, <3>2, <3>3, <3>4
  <2>3. CASE ~token
    BY <2>3
  <2> QED BY <2>2, <2>3
<1> HIDE DEF FlagTypes, DataTypes, HeardInv, FreshInv, SkipInv, SpinInv, PrefixInv, PinnedInv, LeftInv
<1> QED BY <1>0, <1>1, <1>2, <1>3, <1>4, <1>5, <1>6, <1>7, <1>8

LEMMA ServeSpinKeeps ==
  ASSUME W!ServeSpin, RollInv
  PROVE  RollInv'
<1> USE DealtThings DEF W!server, W!wheel, W!knobs, W!count, W!AtRoulette, W!Loaded, W!Chances, W!Picked, W!Left, W!NextSpin, W!Completed, W!AutoDraw, W!DrawDone, W!Pending, W!Idle, W!Answered, W!Ask, W!Forget, W!Requests, Skipped, W!Reply, W!ServeSpin, RollInv, ResultTypes, FlagTypes, DataTypes, HeardInv, FreshInv, SkipInv, SpinInv, PrefixInv, PinnedInv, LeftInv
<1>0. FlagTypes'
  OBVIOUS
<1>1. DataTypes'
  <2>1. asked' \in [W!Requests -> W!Waiting \cup {None}]
    <3> HIDE DEF W!Reply
    <3> QED BY ReplyTypes
  <2> QED BY <2>1
<1>2. HeardInv'
  OBVIOUS
<1>3. FreshInv'
  OBVIOUS
<1>4. SkipInv'
  OBVIOUS
<1>5. SpinInv'
  OBVIOUS
<1>6. PrefixInv'
  OBVIOUS
<1>7. PinnedInv'
  OBVIOUS
<1>8. LeftInv'
  OBVIOUS
<1> HIDE DEF FlagTypes, DataTypes, HeardInv, FreshInv, SkipInv, SpinInv, PrefixInv, PinnedInv, LeftInv
<1> QED BY <1>0, <1>1, <1>2, <1>3, <1>4, <1>5, <1>6, <1>7, <1>8

LEMMA ServeExitExitKeeps ==
  ASSUME W!ServeExit("exit"), RollInv
  PROVE  RollInv'
<1> USE DealtThings DEF W!server, W!wheel, W!knobs, W!count, W!AtRoulette, W!Loaded, W!Chances, W!Picked, W!Left, W!NextSpin, W!Completed, W!AutoDraw, W!DrawDone, W!Pending, W!Idle, W!Answered, W!Ask, W!Forget, W!Requests, Skipped, W!ServeExit, W!Reply, RollInv, ResultTypes, FlagTypes, DataTypes, HeardInv, FreshInv, SkipInv, SpinInv, PrefixInv, PinnedInv, LeftInv
<1>0. FlagTypes'
  OBVIOUS
<1>1. DataTypes'
  <2>1. asked' \in [W!Requests -> W!Waiting \cup {None}]
    BY ReplyTypes
  <2>2. hidden' \in BOOLEAN /\ drawn' = drawn /\ index' = index /\ list' = list /\ order' = order /\ seen' = seen
    OBVIOUS
  <2> QED BY <2>1, <2>2
<1>2. HeardInv'
  OBVIOUS
<1>3. FreshInv'
  OBVIOUS
<1>4. SkipInv'
  OBVIOUS
<1>5. SpinInv'
  OBVIOUS
<1>6. PrefixInv'
  OBVIOUS
<1>7. PinnedInv'
  OBVIOUS
<1>8. LeftInv'
  OBVIOUS
<1> HIDE DEF FlagTypes, DataTypes, HeardInv, FreshInv, SkipInv, SpinInv, PrefixInv, PinnedInv, LeftInv
<1> QED BY <1>0, <1>1, <1>2, <1>3, <1>4, <1>5, <1>6, <1>7, <1>8

LEMMA ServeExitSkipKeeps ==
  ASSUME W!ServeExit("skip"), RollInv
  PROVE  RollInv'
<1> USE DealtThings DEF W!server, W!wheel, W!knobs, W!count, W!AtRoulette, W!Loaded, W!Chances, W!Picked, W!Left, W!NextSpin, W!Completed, W!AutoDraw, W!DrawDone, W!Pending, W!Idle, W!Answered, W!Ask, W!Forget, W!Requests, Skipped, W!ServeExit, W!Reply, RollInv, ResultTypes, FlagTypes, DataTypes, HeardInv, FreshInv, SkipInv, SpinInv, PrefixInv, PinnedInv, LeftInv
<1>0. FlagTypes'
  OBVIOUS
<1>1. DataTypes'
  <2>1. asked' \in [W!Requests -> W!Waiting \cup {None}]
    BY ReplyTypes
  <2>2. hidden' \in BOOLEAN /\ drawn' = drawn /\ index' = index /\ list' = list /\ order' = order /\ seen' = seen
    OBVIOUS
  <2> QED BY <2>1, <2>2
<1>2. HeardInv'
  OBVIOUS
<1>3. FreshInv'
  OBVIOUS
<1>4. SkipInv'
  <2>1. W!Reply("skip", IF hidden THEN "ok" ELSE "done") /\ W!Pending("skip") /\ UNCHANGED <<place, index, skipping, drawn, spinning>>
        /\ hidden' = FALSE
    OBVIOUS
  <2> HIDE DEF W!Reply
  <2> QED BY <2>1, ReplyTypes
<1>5. SpinInv'
  OBVIOUS
<1>6. PrefixInv'
  OBVIOUS
<1>7. PinnedInv'
  OBVIOUS
<1>8. LeftInv'
  OBVIOUS
<1> HIDE DEF FlagTypes, DataTypes, HeardInv, FreshInv, SkipInv, SpinInv, PrefixInv, PinnedInv, LeftInv
<1> QED BY <1>0, <1>1, <1>2, <1>3, <1>4, <1>5, <1>6, <1>7, <1>8

LEMMA RevealElsewhereKeeps ==
  ASSUME W!RevealElsewhere, RollInv
  PROVE  RollInv'
<1> USE DealtThings DEF W!server, W!wheel, W!knobs, W!count, W!AtRoulette, W!Loaded, W!Chances, W!Picked, W!Left, W!NextSpin, W!Completed, W!AutoDraw, W!DrawDone, W!Pending, W!Idle, W!Answered, W!Ask, W!Forget, W!Requests, Skipped, W!RevealElsewhere, RollInv, ResultTypes, FlagTypes, DataTypes, HeardInv, FreshInv, SkipInv, SpinInv, PrefixInv, PinnedInv, LeftInv
<1>0. FlagTypes'
  OBVIOUS
<1>1. DataTypes'
  BY ZenonT(60)
<1>2. HeardInv'
  OBVIOUS
<1>3. FreshInv'
  OBVIOUS
<1>4. SkipInv'
  OBVIOUS
<1>5. SpinInv'
  OBVIOUS
<1>6. PrefixInv'
  OBVIOUS
<1>7. PinnedInv'
  OBVIOUS
<1>8. LeftInv'
  OBVIOUS
<1> HIDE DEF FlagTypes, DataTypes, HeardInv, FreshInv, SkipInv, SpinInv, PrefixInv, PinnedInv, LeftInv
<1> QED BY <1>0, <1>1, <1>2, <1>3, <1>4, <1>5, <1>6, <1>7, <1>8

LEMMA LoseKeeps ==
  ASSUME NEW r \in W!Requests, W!Lose(r), RollInv
  PROVE  RollInv'
<1> USE DealtThings DEF W!server, W!wheel, W!knobs, W!count, W!AtRoulette, W!Loaded, W!Chances, W!Picked, W!Left, W!NextSpin, W!Completed, W!AutoDraw, W!DrawDone, W!Pending, W!Idle, W!Answered, W!Ask, W!Forget, W!Requests, Skipped, W!Reply, W!Lose, RollInv, ResultTypes, FlagTypes, DataTypes, HeardInv, FreshInv, SkipInv, SpinInv, PrefixInv, PinnedInv, LeftInv
<1>0. FlagTypes'
  OBVIOUS
<1>1. DataTypes'
  <2>1. asked' \in [W!Requests -> W!Waiting \cup {None}]
    BY ReplyTypes
  <2>2. lost' \in 0..MaxLosses
    BY RouletteGiven DEF W!PenaltiesAssumption
  <2> QED BY <2>1, <2>2
<1>2. HeardInv'
  OBVIOUS
<1>3. FreshInv'
  OBVIOUS
<1>4. SkipInv'
  <2>1. W!Reply(r, "error") /\ W!Pending(r) /\ UNCHANGED <<place, index, skipping, drawn, spinning, hidden>>
    OBVIOUS
  <2> HIDE DEF W!Reply
  <2> QED BY <2>1, ReplyTypes
<1>5. SpinInv'
  OBVIOUS
<1>6. PrefixInv'
  OBVIOUS
<1>7. PinnedInv'
  OBVIOUS
<1>8. LeftInv'
  OBVIOUS
<1> HIDE DEF FlagTypes, DataTypes, HeardInv, FreshInv, SkipInv, SpinInv, PrefixInv, PinnedInv, LeftInv
<1> QED BY <1>0, <1>1, <1>2, <1>3, <1>4, <1>5, <1>6, <1>7, <1>8

LEMMA RollRests ==
  ASSUME UNCHANGED W!view, RollInv
  PROVE  RollInv'
<1> USE DEF W!view, W!server, W!wheel, W!knobs, W!count, W!AtRoulette, W!Loaded, W!Pending, W!Idle, Skipped
<1>1. ResultTypes'
  BY DEF RollInv, ResultTypes, FlagTypes, DataTypes
<1>2. HeardInv' /\ FreshInv'
  BY DEF RollInv, HeardInv, FreshInv
<1>3. SkipInv' /\ SpinInv'
  BY DEF RollInv, SkipInv, SpinInv
<1>4. PrefixInv' /\ PinnedInv' /\ LeftInv'
  BY DEF RollInv, PrefixInv, PinnedInv, LeftInv
<1> QED BY <1>1, <1>2, <1>3, <1>4 DEF RollInv

LEMMA RollStep == RollInv /\ [W!Next]_(W!view) => RollInv'
<1> SUFFICES ASSUME RollInv, [W!Next]_(W!view) PROVE RollInv'
  OBVIOUS
<1>1. CASE W!Next
  BY <1>1, FetchKeeps, GoOnKeeps, CloseKeeps, ReloadKeeps, TimeUpKeeps, MoveIfEmptyKeeps, CloseButtonKeeps, CancelKeeps, ExitKeeps, ExitAnsweredKeeps, StartKeeps, SpinAnsweredKeeps, StopKeeps, SkipKeeps, SkipAnsweredKeeps, WriteKeeps, ServeSpinKeeps, ServeExitExitKeeps, ServeExitSkipKeeps, RevealElsewhereKeeps, LoseKeeps DEF W!Next
<1>2. CASE UNCHANGED W!view
  BY <1>2, RollRests
<1> QED BY <1>1, <1>2

-----------------------------------------------------------------------------
(* What follows *)

LEMMA RollTypes == RollInv => W!TypeOK
<1> SUFFICES ASSUME RollInv PROVE W!TypeOK
  OBVIOUS
<1>1. drawn \in W!BoundedSeq(W!Contents, W!Total)
  <2>1. drawn \in [1..Len(drawn) -> W!Contents] /\ Len(drawn) \in 0..W!Total
    BY DealtThings DEF RollInv, ResultTypes, DataTypes
  <2> QED BY <2>1 DEF W!BoundedSeq, W!SeqOf
<1>2. {giveUp, guest, hidden, token, spinning, finished, dialog, timeUp, skipping, offered} \subseteq BOOLEAN
  BY Zenon DEF RollInv, ResultTypes, FlagTypes
<1> QED BY <1>1, <1>2 DEF RollInv, ResultTypes, DataTypes, W!TypeOK

LEMMA RollGoesOn == RollInv => W!CanGoOn
<1> SUFFICES ASSUME RollInv, W!AtRoulette, W!Loaded, ~spinning, \A r \in W!Requests : W!Idle(r), skipping
             PROVE  W!Completed
  BY DEF W!CanGoOn
<1>1. W!Idle("skip") /\ ~giveUp /\ index = W!Total /\ seen \in {0, W!Total} /\ W!Total \in Nat
  BY DealtThings DEF RollInv, SkipInv, HeardInv, Skipped, W!Requests, W!Loaded
<1> QED BY <1>1 DEF W!Completed, W!Left, W!Picked, W!Chances

LEMMA RollLeaves == RollInv => W!LeavingReveals
BY DEF RollInv, LeftInv, W!LeavingReveals, W!Idle, W!Pending, W!Requests

\* A list that deals the same penalties in another order counts as many of each.
LEMMA SameCounts ==
  ASSUME NEW s \in W!Shuffles
  PROVE  W!Counts(s) = W!Counts(Dealt)
<1>1. PICK f \in [1..W!Total -> 1..W!Total] :
             /\ s = [i \in 1..W!Total |-> Dealt[f[i]]]
             /\ \A i, j \in 1..W!Total : f[i] = f[j] => i = j
  BY DEF W!Shuffles
<1>2. W!Total \in Nat /\ IsFiniteSet(1..W!Total) /\ Len(s) = W!Total
  BY DealtThings, Shuffled, FS_Interval
<1>3. f \in Surjection(1..W!Total, 1..W!Total)
  <2>1. f \in Injection(1..W!Total, 1..W!Total)
    BY <1>1 DEF Injection, IsInjective
  <2> QED BY <1>2, <2>1, FS_Injection
<1>4. ASSUME NEW c \in W!Contents
      PROVE  Cardinality({i \in 1..Len(s) : s[i] = c}) = Cardinality({i \in 1..W!Total : Dealt[i] = c})
  <2> DEFINE I == {i \in 1..W!Total : s[i] = c}
             J == {i \in 1..W!Total : Dealt[i] = c}
             k == [i \in I |-> f[i]]
  <2>1. IsFiniteSet(I)
    BY <1>2, FS_Subset
  <2>2. k \in [I -> J]
    BY <1>1
  <2>3. k \in Injection(I, J)
    BY <1>1, <2>2 DEF Injection, IsInjective
  <2>4. k \in Surjection(I, J)
    <3>1. ASSUME NEW j \in J PROVE \E i \in I : k[i] = j
      <4>1. PICK i \in 1..W!Total : f[i] = j
        BY <1>3 DEF Surjection
      <4> QED BY <1>1, <4>1
    <3> QED BY <2>2, <3>1 DEF Surjection
  <2>5. ExistsBijection(I, J)
    BY <2>3, <2>4 DEF ExistsBijection, Bijection
  <2> HIDE DEF I, J
  <2>6. Cardinality(J) = Cardinality(I)
    BY <2>1, <2>5, FS_Bijection
  <2> QED BY <1>2, <2>6 DEF I, J
<1>5. ASSUME NEW c \in W!Contents
      PROVE  W!Cardinality({i \in 1..Len(s) : s[i] = c}) = W!Cardinality({i \in 1..W!Total : Dealt[i] = c})
  BY <1>4, <1>5 DEF W!Cardinality, Cardinality
<1> QED BY <1>5 DEF W!Counts, W!Total

LEMMA SameList ==
  ASSUME NEW s, NEW t, Len(s) = Len(t), \A i \in 1..Len(t) : s[i] = t[i]
  PROVE  W!Counts(s) = W!Counts(t)
<1>1. \A c \in W!Contents : {i \in 1..Len(s) : s[i] = c} = {i \in 1..Len(t) : t[i] = c}
  OBVIOUS
<1> QED BY <1>1 DEF W!Counts

LEMMA RollDraws == RollInv => W!DrawnAsDealt
<1> SUFFICES ASSUME RollInv, W!AtRoulette PROVE W!DrawnAsDealt
  BY DEF W!DrawnAsDealt
<1>1. ASSUME W!DrawDone, W!Chances = W!Total, ~(giveUp /\ refetches > 0)
      PROVE  W!Counts(drawn) = W!Counts(Dealt)
  <2> USE <1>1
  <2>0. /\ ~spinning /\ W!Completed /\ index \in 0..W!Total /\ W!Total \in Nat /\ drawn \in Seq(W!Contents) /\ refetches \in Nat
        /\ order \in W!Shuffles /\ list \in W!Shuffles \cup {None} /\ W!Total = Len(Dealt)
    BY DealtThings DEF W!DrawDone, RollInv, ResultTypes, DataTypes, W!Total
  <2>1. CASE ~W!Loaded
    <3>1. drawn = <<>> /\ W!Total = 0
      BY <2>1 DEF RollInv, FreshInv, W!Chances
    <3>2. Len(drawn) = Len(Dealt) /\ 1..Len(Dealt) = {}
      BY <2>0, <3>1
    <3> QED BY <3>2, SameList
  <2>2. CASE Skipped
    BY <2>2 DEF RollInv, SkipInv
  <2>3. CASE W!Loaded /\ ~Skipped
    <3>1. index = W!Total /\ Len(drawn) = W!Total
      <4>1. Len(drawn) = index
        BY <2>3 DEF RollInv, PrefixInv
      <4>2. CASE finished
        BY <2>0, <4>1, <4>2 DEF RollInv, SpinInv
      <4>3. CASE W!Chances = 0
        BY <2>0, <4>1, <4>3
      <4>4. CASE W!Chances > 0 /\ W!Left = 0
        BY <2>0, <4>1, <4>4 DEF W!Left, W!Picked
      <4> QED BY <2>0, <4>2, <4>3, <4>4 DEF W!Completed
    <3>2. CASE ~giveUp
      <4>1. \A i \in 1..W!Total : drawn[i] = order[i]
        BY <2>3, <3>1, <3>2 DEF RollInv, PrefixInv
      <4> QED BY <2>0, <3>1, <4>1, SameList, SameCounts, Shuffled
    <3>3. CASE giveUp
      <4>1. list \in W!Shuffles /\ refetches = 0
        BY <2>0, <2>3, <3>3 DEF W!Loaded
      <4>2. \A i \in 1..W!Total : drawn[i] = list[i]
        BY <2>3, <3>1, <3>3, <4>1 DEF RollInv, PrefixInv
      <4> QED BY <2>0, <3>1, <4>1, <4>2, SameList, SameCounts, Shuffled
    <3> QED BY <3>2, <3>3
  <2> QED BY <2>1, <2>2, <2>3
<1>2. ASSUME ~spinning, ~skipping, drawn # <<>>, lost = 0
      PROVE  Pool[pinned] = drawn[Len(drawn)]
  <2>1. drawn \in Seq(W!Contents) /\ pinned = W!Slot(drawn[Len(drawn)])
    BY <1>2 DEF RollInv, PinnedInv, ResultTypes, DataTypes
  <2>2. drawn[Len(drawn)] \in W!Contents
    BY <1>2, <2>1
  <2> QED BY <2>1, <2>2, SlotHolds
<1> QED BY <1>1, <1>2 DEF W!DrawnAsDealt

\* Types, for any list of penalties, any shuffle of it and any number of losses
\* (RoulettePage, ResultPage).
THEOREM RouletteTypes == W!Spec => []W!TypeOK
BY RollStart, RollStep, RollTypes, PTL DEF W!Spec

\* The roulette is never stuck, whatever answers were lost or came late: with nothing
\* on its way and the wheel at rest, it can draw, or is done (RoulettePage).
THEOREM RouletteGoesOn == W!Spec => []W!CanGoOn
BY RollStart, RollStep, RollGoesOn, PTL DEF W!Spec

\* What is drawn is what was dealt, and whoever has left the roulette has made their
\* penalties public by the last spin, the skip or the exit, unless a request was lost
\* (RoulettePage, ResultService).
THEOREM DrawsAndPublishes == W!Spec => []W!DrawnAndPublished
<1>1. RollInv => W!DrawnAndPublished
  BY RollDraws, RollLeaves DEF W!DrawnAndPublished
<1> QED BY <1>1, RollStart, RollStep, PTL DEF W!Spec

-----------------------------------------------------------------------------
(* Arithmetic of the timetable *)

LEMMA DivMod ==
  ASSUME NEW t \in Nat, NEW p \in Nat \ {0}
  PROVE  \E q \in Nat, m \in 0..(p - 1) : t = p * q + m /\ t % p = m
<1>1. t % p \in 0..(p - 1) /\ t \div p \in Nat /\ t = p * (t \div p) + (t % p)
  OBVIOUS
<1> QED BY <1>1

LEMMA Multiples ==
  ASSUME NEW x \in Int, NEW y \in Int, NEW p \in Nat, x <= y
  PROVE  p * x <= p * y
<1>1. p * (y - x) >= 0 /\ p * (y - x) = p * y - p * x
  OBVIOUS
<1> QED BY <1>1

LEMMA Divides ==
  ASSUME NEW p \in Nat \ {0}, NEW q \in Nat, NEW m \in 0..(p - 1)
  PROVE  (p * q + m) % p = m
<1>0. p * q + m \in Nat
  OBVIOUS
<1>1. PICK k \in Nat, z \in 0..(p - 1) : p * q + m = p * k + z /\ (p * q + m) % p = z
  BY <1>0, DivMod
<1>2. ~ k + 1 <= q
  <2> SUFFICES ASSUME k + 1 <= q PROVE FALSE
    OBVIOUS
  <2>1. p * (k + 1) <= p * q
    BY Multiples
  <2> QED BY <1>1, <2>1
<1>3. ~ q + 1 <= k
  <2> SUFFICES ASSUME q + 1 <= k PROVE FALSE
    OBVIOUS
  <2>1. p * (q + 1) <= p * k
    BY Multiples
  <2> QED BY <1>1, <2>1
<1>4. k = q
  BY <1>2, <1>3
<1> QED BY <1>1, <1>4

\* What an interval shares with the focus of round i.
Part(c, interval, i) ==
  M!Most(0, M!Least(interval.end, i * (c.focus + c.break) + c.focus) - M!Most(interval.start, i * (c.focus + c.break)))
FocusBy(c, interval, s) ==
  s = [n \in 0..c.rounds |-> IF n = 0 THEN 0 ELSE s[n - 1] + Part(c, interval, n - 1)]

Lengths == [focus : Nat \ {0}, break : Nat \ {0}, rounds : Nat \ {0}, tiers : TierLists]

LEMMA PartOK ==
  ASSUME NEW c \in Lengths, NEW x \in Int, NEW y \in Int, NEW i \in Nat
  PROVE  Part(c, M!Interval(x, y), i) \in Nat
<1>1. i * (c.focus + c.break) \in Int /\ c.focus \in Int
  BY DEF Lengths
<1> QED BY <1>1 DEF Part, M!Interval, M!Most, M!Least

LEMMA FocusSum ==
  ASSUME NEW c \in Lengths, NEW x \in Int, NEW y \in Int
  PROVE  \E s \in [0..c.rounds -> Nat] :
           /\ s[0] = 0 /\ \A n \in 1..c.rounds : s[n] = s[n - 1] + Part(c, M!Interval(x, y), n - 1)
           /\ M!FocusEscape(c, M!Interval(x, y)) = s[c.rounds]
<1> DEFINE n == c.rounds
           it == M!Interval(x, y)
           way == [z \in (1..n) \X Nat |-> z[2] + Part(c, it, z[1] - 1)]
<1>1. n \in Nat
  BY DEF Lengths
<1>2. \A j \in 1..n : j - 1 \in Nat /\ Part(c, it, j - 1) \in Nat
  BY <1>1, PartOK
<1>3. way \in [(1..n) \X Nat -> Nat]
  BY <1>2
<1>4. \A j \in 1..n, w \in Nat : way[<<j, w>>] = w + Part(c, it, j - 1)
  OBVIOUS
<1> HIDE DEF way, n, it
<1>5. PICK f \in [0..n -> Nat] : f[0] = 0 /\ \A j \in 1..n : f[j] = way[<<j, f[j - 1]>>]
  <2>1. Exists(n, Nat, 0, way)
    BY <1>1, <1>3, Recursion
  <2> QED BY <2>1 DEF Exists
<1>6. \A j \in 1..n : f[j] = f[j - 1] + Part(c, it, j - 1)
  <2>1. \A j \in 1..n : j - 1 \in 0..n
    BY <1>1
  <2> QED BY <1>4, <1>5, <2>1
<1>7. f = [j \in 0..n |-> IF j = 0 THEN 0 ELSE f[j - 1] + Part(c, it, j - 1)]
  <2>1. \A j \in 0..n : j = 0 \/ (j # 0 /\ j \in 1..n)
    BY <1>1
  <2> QED BY <1>5, <1>6, <2>1
<1>8. FocusBy(c, it, f)
  BY <1>7 DEF FocusBy, n
<1> DEFINE s == CHOOSE pick : FocusBy(c, it, pick)
<1>9. FocusBy(c, it, s)
  BY <1>8
<1>10. M!FocusEscape(c, it) = s[n]
  BY DEF M!FocusEscape, FocusBy, Part, n
<1> HIDE DEF s
<1>11. DOMAIN s = 0..n /\ s[0] = 0 /\ \A j \in 1..n : s[j] = s[j - 1] + Part(c, it, j - 1)
  <2>1. 0 \in 0..n /\ \A j \in 1..n : j \in 0..n /\ j # 0
    BY <1>1
  <2> QED BY <1>9, <2>1 DEF FocusBy, n
<1> DEFINE T == {m \in Nat : m <= n => s[m] \in Nat}
<1>12. 0 \in T
  BY <1>11
<1>13. ASSUME NEW m \in T \cap Nat PROVE m + 1 \in T
  <2> SUFFICES ASSUME m + 1 <= n PROVE s[m + 1] \in Nat
    OBVIOUS
  <2>1. m + 1 \in 1..n /\ (m + 1) - 1 = m /\ s[m] \in Nat
    BY <1>1, <1>13
  <2> QED BY <1>2, <1>11, <2>1
<1> HIDE DEF T
<1>14. \A m \in 0..n : s[m] \in Nat
  <2>1. Nat \subseteq T
    BY <1>12, <1>13, Inductive
  <2> QED BY <1>1, <2>1 DEF T
<1>15. s \in [0..n -> Nat]
  <2>1. s = [j \in 0..n |-> s[j]]
    BY <1>9, <1>11 DEF FocusBy, n
  <2> QED BY <1>14, <2>1
<1> QED BY <1>10, <1>11, <1>15 DEF n, it

\* A minute of round q, at m of its minutes.
LEMMA PartMinute ==
  ASSUME NEW c \in Lengths, NEW q \in Nat, NEW m \in 0..((c.focus + c.break) - 1), NEW i \in Nat,
         NEW t \in Nat, t = (c.focus + c.break) * q + m
  PROVE  Part(c, M!Interval(t, t + 1), i) = IF i = q /\ m < c.focus THEN 1 ELSE 0
<1> DEFINE F == c.focus
           p == c.focus + c.break
           k == i * p
<1>1. F \in Nat /\ p \in Nat /\ F < p /\ m \in Int /\ k \in Int /\ m < p /\ 0 <= m
  BY DEF Lengths
<1>2. Part(c, M!Interval(t, t + 1), i) = M!Most(0, M!Least(t + 1, k + F) - M!Most(t, k))
  BY DEF Part, M!Interval
<1>3. CASE i = q
  <2>1. k = p * q
    BY <1>1, <1>3
  <2>2. t = k + m
    BY <2>1
  <2> HIDE DEF F, p, k
  <2>3. M!Most(0, M!Least(t + 1, k + F) - M!Most(t, k)) = IF m < F THEN 1 ELSE 0
    BY <1>1, <2>2 DEF M!Most, M!Least
  <2> QED BY <1>2, <1>3, <2>3 DEF F
<1>4. CASE i + 1 <= q
  <2>1. k + p <= t
    <3>1. p * (i + 1) <= p * q
      BY <1>1, <1>4, Multiples
    <3>2. p * (i + 1) = k + p
      BY <1>1
    <3> QED BY <1>1, <3>1, <3>2
  <2> HIDE DEF F, p, k
  <2>2. M!Most(0, M!Least(t + 1, k + F) - M!Most(t, k)) = 0
    BY <1>1, <2>1 DEF M!Most, M!Least
  <2> QED BY <1>2, <1>4, <2>2
<1>5. CASE q + 1 <= i
  <2>1. t + 1 <= k
    <3>1. p * (q + 1) <= p * i
      BY <1>1, <1>5, Multiples
    <3>2. p * (q + 1) = p * q + p /\ p * i = k
      BY <1>1
    <3> QED BY <1>1, <3>1, <3>2
  <2> HIDE DEF F, p, k
  <2>2. M!Most(0, M!Least(t + 1, k + F) - M!Most(t, k)) = 0
    BY <1>1, <2>1 DEF M!Most, M!Least
  <2> QED BY <1>2, <1>5, <2>2
<1> QED BY <1>3, <1>4, <1>5

LEMMA FocusMinute ==
  ASSUME NEW c \in Lengths, NEW q \in Nat, NEW m \in 0..((c.focus + c.break) - 1),
         NEW t \in Nat, t = (c.focus + c.break) * q + m
  PROVE  M!FocusEscape(c, M!Interval(t, t + 1)) = IF q < c.rounds /\ m < c.focus THEN 1 ELSE 0
<1>1. c.rounds \in Nat /\ t + 1 \in Int /\ t \in Int
  BY DEF Lengths
<1>2. PICK s \in [0..c.rounds -> Nat] :
        /\ s[0] = 0 /\ \A n \in 1..c.rounds : s[n] = s[n - 1] + Part(c, M!Interval(t, t + 1), n - 1)
        /\ M!FocusEscape(c, M!Interval(t, t + 1)) = s[c.rounds]
  BY <1>1, FocusSum
<1> DEFINE T == {n \in Nat : n <= c.rounds => s[n] = IF q < n /\ m < c.focus THEN 1 ELSE 0}
<1>3. 0 \in T
  BY <1>2
<1>4. ASSUME NEW n \in T \cap Nat PROVE n + 1 \in T
  <2> SUFFICES ASSUME n + 1 <= c.rounds PROVE s[n + 1] = IF q < n + 1 /\ m < c.focus THEN 1 ELSE 0
    OBVIOUS
  <2>1. s[n] = (IF q < n /\ m < c.focus THEN 1 ELSE 0) /\ n + 1 \in 1..c.rounds /\ (n + 1) - 1 = n
    BY <1>1, <1>4
  <2>2. s[n + 1] = s[n] + Part(c, M!Interval(t, t + 1), n)
    BY <1>2, <2>1
  <2>3. Part(c, M!Interval(t, t + 1), n) = IF n = q /\ m < c.focus THEN 1 ELSE 0
    BY PartMinute
  <2> QED BY <2>1, <2>2, <2>3
<1> HIDE DEF T
<1>5. Nat \subseteq T
  BY <1>3, <1>4, Inductive
<1> QED BY <1>1, <1>2, <1>5 DEF T
LEMMA PlannedIs ==
  ASSUME NEW c \in Lengths
  PROVE  /\ M!Planned(c) = (c.focus + c.break) * (c.rounds - 1) + c.focus
         /\ M!Most(0, c.rounds - 1) = c.rounds - 1
         /\ (c.focus + c.break) * (c.rounds - 1) \in Nat
<1>1. c.focus \in Nat \ {0} /\ c.break \in Nat \ {0} /\ c.rounds \in Nat \ {0}
  BY DEF Lengths
<1>2. M!Most(0, c.rounds - 1) = c.rounds - 1
  BY <1>1 DEF M!Most
<1>3. c.focus * c.rounds = c.focus * (c.rounds - 1) + c.focus
  BY <1>1
<1>4. (c.focus + c.break) * (c.rounds - 1) = c.focus * (c.rounds - 1) + c.break * (c.rounds - 1)
  BY <1>1
<1>5. (c.focus + c.break) * 0 <= (c.focus + c.break) * (c.rounds - 1)
  BY <1>1, Multiples
<1> QED BY <1>1, <1>2, <1>3, <1>4, <1>5 DEF M!Planned

\* What the page's timer shows in a minute before the planned end.
LEMMA PageMinute ==
  ASSUME NEW c \in Lengths, NEW q \in Nat, NEW m \in 0..((c.focus + c.break) - 1),
         NEW t \in Nat, t = (c.focus + c.break) * q + m, t < M!Planned(c)
  PROVE  /\ q < c.rounds
         /\ M!PageIsFocus(c, t) <=> m < c.focus
         /\ M!PageRemaining(c, t) = (IF m < c.focus THEN c.focus ELSE c.focus + c.break) - m
<1> DEFINE F == c.focus
           p == c.focus + c.break
           n == c.rounds - 1
<1>0. c.focus \in Nat \ {0} /\ c.break \in Nat \ {0} /\ c.rounds \in Nat \ {0}
  BY DEF Lengths
<1>1. F \in Nat \ {0} /\ p \in Nat \ {0} /\ F < p /\ n \in Nat /\ m \in Int /\ 0 <= m /\ m < p
  <2>1. F \in Nat \ {0} /\ p \in Nat \ {0} /\ F < p /\ n \in Nat
    BY <1>0
  <2>2. m \in 0..(p - 1)
    OBVIOUS
  <2> HIDE DEF p
  <2>3. m \in Int /\ 0 <= m /\ m < p
    BY <2>1, <2>2
  <2> QED BY <2>1, <2>3
<1>2. M!Planned(c) = p * n + F /\ M!Most(0, c.rounds - 1) = n /\ p * n \in Nat
  BY PlannedIs
<1>3. M!PageElapsed(c, t) = t
  BY <1>1, <1>2 DEF M!PageElapsed, M!Least, M!Most
<1>4. M!PageLastRound(c, t) <=> t >= p * n
  BY <1>2, <1>3 DEF M!PageLastRound
<1>5. M!PageInRound(c, t) = IF t >= p * n THEN t - p * n ELSE m
  <2>1. t % p = m
    BY <1>1, Divides
  <2> QED BY <1>2, <1>3, <1>4, <2>1 DEF M!PageInRound
<1>6. ~ n + 1 <= q
  <2> SUFFICES ASSUME n + 1 <= q PROVE FALSE
    OBVIOUS
  <2>1. p * (n + 1) <= p * q
    BY <1>1, Multiples
  <2>2. p * (n + 1) = p * n + p
    BY <1>1
  <2>3. t = p * q + m /\ t < p * n + F /\ p * q \in Int
    BY <1>1, <1>2
  <2> HIDE DEF p, n, F
  <2>4. \A x \in Int, y \in Int : ~ (y + p <= x /\ x + m < y + F)
    BY <1>1
  <2> QED BY <1>2, <2>1, <2>2, <2>3, <2>4
<1>7. q < c.rounds
  BY <1>0, <1>6
<1>8. CASE q = n
  <2>1. t = p * n + m /\ m < F /\ t >= p * n /\ t - p * n = m
    BY <1>1, <1>2, <1>8
  <2>2. M!PageLastRound(c, t) /\ M!PageInRound(c, t) = m
    BY <1>4, <1>5, <2>1
  <2> QED BY <1>7, <2>1, <2>2 DEF M!PageIsFocus, M!PageRemaining
<1>9. CASE q + 1 <= n
  <2>1. p * (q + 1) <= p * n
    BY <1>1, <1>9, Multiples
  <2>2. p * (q + 1) = p * q + p
    BY <1>1
  <2>3. ~ t >= p * n
    <3>1. t = p * q + m /\ p * q \in Int
      BY <1>1
    <3> HIDE DEF p, n, F
    <3> QED BY <1>1, <1>2, <2>1, <2>2, <3>1
  <2>4. ~M!PageLastRound(c, t) /\ M!PageInRound(c, t) = m
    BY <1>4, <1>5, <2>3
  <2> QED BY <1>7, <2>4 DEF M!PageIsFocus, M!PageRemaining
<1>10. q = n \/ q + 1 <= n
  <2> HIDE DEF n
  <2> QED BY <1>1, <1>6
<1> QED BY <1>8, <1>9, <1>10

LEMMA PageOver ==
  ASSUME NEW c \in Lengths, NEW t \in Nat, t >= M!Planned(c)
  PROVE  M!PageRemaining(c, t) = 0
<1> DEFINE k == (c.focus + c.break) * (c.rounds - 1)
<1>1. c.focus \in Nat
  BY DEF Lengths
<1>2. M!Planned(c) = k + c.focus /\ M!Most(0, c.rounds - 1) = c.rounds - 1 /\ k \in Nat
  BY PlannedIs
<1>3. M!PageElapsed(c, t) = k + c.focus
  BY <1>1, <1>2 DEF M!PageElapsed, M!Least, M!Most
<1>4. M!PageLastRound(c, t)
  BY <1>1, <1>2, <1>3 DEF M!PageLastRound
<1>5. M!PageInRound(c, t) = c.focus
  BY <1>1, <1>2, <1>3, <1>4 DEF M!PageInRound
<1> QED BY <1>1, <1>4, <1>5 DEF M!PageRemaining, M!PageIsFocus

\* The timetable agrees with itself at every minute of every contract.
LEMMA Agrees ==
  ASSUME contract \in Lengths, now \in Nat
  PROVE  M!TimetableAgrees
<1> DEFINE F == contract.focus
           p == contract.focus + contract.break
           n == contract.rounds - 1
<1>1. F \in Nat \ {0} /\ contract.break \in Nat \ {0} /\ p \in Nat \ {0} /\ F < p /\ n \in Nat
  BY DEF Lengths
<1>2. M!Planned(contract) = p * n + F /\ p * n \in Nat
  BY PlannedIs
<1>3. PICK q \in Nat, m \in 0..(p - 1) : now = p * q + m
  <2>1. p \in Nat \ {0} /\ now \in Nat
    BY <1>1
  <2>2. \A s \in Nat, d \in Nat \ {0} : \E k \in Nat, z \in 0..(d - 1) : s = d * k + z
    <3> SUFFICES ASSUME NEW s \in Nat, NEW d \in Nat \ {0} PROVE \E k \in Nat, z \in 0..(d - 1) : s = d * k + z
      OBVIOUS
    <3> QED BY DivMod
  <2> HIDE DEF p
  <2> QED BY <2>1, <2>2, Zenon
<1>4. ASSUME now < M!Planned(contract)
      PROVE  /\ M!PageIsFocus(contract, now) <=> M!FocusEscape(contract, M!Interval(now, now + 1)) = 1
             /\ M!PageRemaining(contract, now) # 0
  <2>1. /\ q < contract.rounds
        /\ M!PageIsFocus(contract, now) <=> m < contract.focus
        /\ M!PageRemaining(contract, now) = (IF m < contract.focus THEN contract.focus ELSE contract.focus + contract.break) - m
    <3>1. m \in 0..((contract.focus + contract.break) - 1)
      BY Zenon
    <3> QED BY <1>3, <1>4, <3>1, PageMinute
  <2>2. M!FocusEscape(contract, M!Interval(now, now + 1)) = IF q < contract.rounds /\ m < contract.focus THEN 1 ELSE 0
    <3>1. m \in 0..((contract.focus + contract.break) - 1)
      BY Zenon
    <3> QED BY <1>3, <3>1, FocusMinute
  <2> QED BY <1>1, <2>1, <2>2
<1>5. M!PageRemaining(contract, now) = 0 <=> now >= M!Planned(contract)
  BY <1>1, <1>2, <1>4, PageOver
<1>6. ASSUME NEW r \in 1..(contract.rounds - 1), NEW z \in F..(p - 1), now = p * (r - 1) + z
      PROVE  M!PageRemaining(contract, now) = p - z /\ ~M!PageIsFocus(contract, now)
  <2>1. r - 1 \in Nat /\ z \in 0..(p - 1) /\ r <= n /\ z < p
    BY <1>1
  <2>2. p * r <= p * n
    BY <1>1, <2>1, Multiples
  <2>3. p * r = p * (r - 1) + p
    BY <1>1
  <2>4. now < M!Planned(contract)
    <3>1. p * (r - 1) \in Int /\ p * r \in Int
      BY <1>1
    <3> HIDE DEF p, n, F
    <3> QED BY <1>1, <1>2, <1>6, <2>1, <2>2, <2>3, <3>1
  <2>5. /\ M!PageIsFocus(contract, now) <=> z < contract.focus
        /\ M!PageRemaining(contract, now) = (IF z < contract.focus THEN contract.focus ELSE contract.focus + contract.break) - z
    <3>1. r - 1 \in Nat /\ z \in 0..((contract.focus + contract.break) - 1)
      BY <2>1, Zenon
    <3> HIDE DEF F, n
    <3> QED BY <1>6, <2>4, <3>1, PageMinute
  <2> QED BY <1>1, <2>5
<1>7. ASSUME NEW r \in 1..(contract.rounds - 1), now = M!BreakStartAt(contract, r)
      PROVE  M!PageRemaining(contract, now) = contract.break /\ ~M!PageIsFocus(contract, now)
  <2>1. M!BreakStartAt(contract, r) = p * (r - 1) + F
    <3>1. F * r = F * (r - 1) + F /\ p * (r - 1) = F * (r - 1) + contract.break * (r - 1)
      BY <1>1
    <3> QED BY <1>1, <3>1 DEF M!BreakStartAt
  <2>2. F \in F..(p - 1) /\ p - F = contract.break
    BY <1>1
  <2> QED BY <1>6, <1>7, <2>1, <2>2
<1>8. ASSUME NEW r \in 1..(contract.rounds - 1), now = M!WarnAt(contract, r)
      PROVE  M!PageRemaining(contract, now) = 1 /\ ~M!PageIsFocus(contract, now)
  <2>1. M!WarnAt(contract, r) = p * (r - 1) + (p - 1)
    <3>1. p * r = p * (r - 1) + p
      BY <1>1
    <3> QED BY <1>1, <3>1 DEF M!WarnAt
  <2>2. p - 1 \in F..(p - 1) /\ p - (p - 1) = 1
    BY <1>1
  <2> QED BY <1>6, <1>8, <2>1, <2>2
<1> QED BY <1>4, <1>5, <1>7, <1>8 DEF M!TimetableAgrees

\* Its contract and its clock are all that a timetable needs.
MathInv == contract \in M!Contracts /\ now \in Nat

\* In every minute of every contract the page shows focus exactly while an escape is
\* charged, it has run out when the session is due to end, and the notices of a break
\* come at its first and its last minute (Timer, timer.service, penalty.service).
THEOREM Timetable ==
  ASSUME M!TimesAssumption
  PROVE  M!Spec => []M!TimetableAgrees
<1>1. M!Init => MathInv
  BY DEF M!Init, MathInv
<1>2. MathInv /\ [M!Next]_(M!vars) => MathInv'
  BY DEF MathInv, M!vars, M!Next, M!Tick, M!GiveUp, M!End, M!SettleEnd, M!SettleGiveUp, M!FindNone, M!EscapeStart, M!FindOpen, M!EscapeEnd
<1>3. MathInv => M!TimetableAgrees
  <2>1. M!Contracts \subseteq Lengths
    BY DEF M!Contracts, Lengths, M!TimesAssumption
  <2> QED BY <2>1, Agrees DEF MathInv
<1> QED BY <1>1, <1>2, <1>3, PTL DEF M!Spec

-----------------------------------------------------------------------------
(* The lists *)

\* A list, with the results there were when its last page was read.
Whole(kept, t, p, s, x, n) ==
  /\ n \in s..held /\ Len(kept) = (IF p * PageSize < n THEN p * PageSize ELSE n)
  /\ t <= n /\ (~x => t = n)
  /\ \A k \in 1..s : k + p * PageSize > n => \E i \in 1..Len(kept) : kept[i] = k
  /\ held = s => \A i \in 1..Len(kept) : kept[i] = s - i + 1
\* A list that has not been read.
Bare(kept, t, p) == kept = <<>> /\ t = 0 /\ p = 0

\* A request has its answer.
Answering == request # None /\ request.at = "answer"
\* The list of the page, the one that is cached, and the answer that comes.
ListInv ==
  \/ Bare(records, total, page)
  \/ page > 0 /\ \E n \in 0..held : /\ Whole(records, total, page, since, torn, n)
                                    /\ Answering => n <= request.since
CacheInv == cache # None => /\ cache.page > 0
                            /\ \E n \in 0..held : Whole(cache.history, cache.total, cache.page, cache.since, cache.torn, n)
RequestInv ==
  request # None =>
    /\ request.page = page + 1 /\ (page > 0 => L!HasMore)
    /\ request.at = "find" => request.total <= held
    /\ request.at = "answer" => /\ request.rows = L!PageOf(request.since, request.page)
                                /\ request.total <= request.since /\ request.since <= held
\* The board is a ranking of the members by some escapes.
BoardInv == board # None => \E escape \in [(Pages \cup {Third}) -> Escapes] : \E s \in L!Sorted(escape) : board = L!Ranking(s, escape)

-----------------------------------------------------------------------------
(* Pages of results *)

LEMMA Times ==
  ASSUME NEW p \in Nat
  PROVE  /\ p * PageSize \in Nat /\ (p + 1) * PageSize = p * PageSize + PageSize
         /\ ((p + 1) - 1) * PageSize = p * PageSize /\ p <= p * PageSize
<1>1. PageSize \in Nat \ {0}
  BY ListsGiven DEF L!ListsAssumption
<1>2. p * PageSize \in Nat /\ (p + 1) * PageSize = p * PageSize + PageSize
  BY <1>1
<1>3. p <= p * PageSize
  <2>1. p * (PageSize - 1) \in Nat /\ p * PageSize = p + p * (PageSize - 1)
    BY <1>1
  <2> QED BY <1>2, <2>1
<1> QED BY <1>2, <1>3

\* The rows of a page go down from where the pages before it end.
LEMMA PageRows ==
  ASSUME NEW n \in Nat, NEW p \in Nat
  PROVE  LET left == IF n > p * PageSize THEN n - p * PageSize ELSE 0
             Q    == L!PageOf(n, p + 1)
         IN  /\ Q \in Seq(1..n) /\ Len(Q) = IF left < PageSize THEN left ELSE PageSize
             /\ \A i \in 1..Len(Q) : Q[i] = n - p * PageSize - i + 1
<1> DEFINE q == p * PageSize
           left == IF n > q THEN n - q ELSE 0
           len == IF left < PageSize THEN left ELSE PageSize
<1>1. PageSize \in Nat \ {0} /\ q \in Nat /\ ((p + 1) - 1) * PageSize = q
  BY Times, ListsGiven DEF L!ListsAssumption
<1>2. L!PageOf(n, p + 1) = [i \in 1..len |-> n - q - i + 1]
  BY <1>1 DEF L!PageOf
<1> HIDE DEF q
<1>3. len \in Nat /\ left \in Nat /\ len <= left
  BY <1>1
<1>4. \A i \in 1..len : n - q - i + 1 \in 1..n
  BY <1>1
<1> DEFINE Q == [i \in 1..len |-> n - q - i + 1]
<1> HIDE DEF left, len
<1>5. Q \in [1..len -> 1..n]
  BY <1>4
<1>6. Q \in Seq(1..n) /\ Len(Q) = len
  BY <1>3, <1>5
<1>7. \A i \in 1..len : Q[i] = n - q - i + 1
  OBVIOUS
<1> QED BY <1>2, <1>6, <1>7 DEF left, len, q

LEMMA Wider ==
  ASSUME NEW V, NEW T, V \subseteq T, NEW q \in Seq(V)
  PROVE  q \in Seq(T)
<1>1. q \in [1..Len(q) -> V] /\ Len(q) \in Nat
  OBVIOUS
<1>2. q \in [1..Len(q) -> T]
  BY <1>1
<1> QED BY <1>1, <1>2

LEMMA RowsJoined ==
  ASSUME NEW V, NEW kept \in Seq(V), NEW r \in Seq(V)
  PROVE  /\ kept \o r \in Seq(V) /\ Len(kept \o r) = Len(kept) + Len(r)
         /\ \A i \in 1..Len(kept) : (kept \o r)[i] = kept[i]
         /\ \A i \in 1..Len(r) : (kept \o r)[Len(kept) + i] = r[i]
  OBVIOUS

\* The first page of a list.
LEMMA FirstPage ==
  ASSUME NEW m \in Nat, m <= held, held \in Nat, NEW t \in Nat, t <= m
  PROVE  Whole(L!PageOf(m, 1), t, 1, m, t # m, m)
<1> DEFINE Q == L!PageOf(m, 1)
           len == IF m < PageSize THEN m ELSE PageSize
<1>0. PageSize \in Nat \ {0}
  BY ListsGiven DEF L!ListsAssumption
<1>1. 0 * PageSize = 0 /\ 1 * PageSize = PageSize
  BY <1>0
<1>2. Len(Q) = len /\ \A i \in 1..len : Q[i] = m - i + 1
  <2>1. L!PageOf(m, 0 + 1) = Q
    OBVIOUS
  <2>2. LET left == IF m > 0 * PageSize THEN m - 0 * PageSize ELSE 0
        IN  /\ Len(L!PageOf(m, 0 + 1)) = IF left < PageSize THEN left ELSE PageSize
            /\ \A i \in 1..Len(L!PageOf(m, 0 + 1)) : L!PageOf(m, 0 + 1)[i] = m - 0 * PageSize - i + 1
    BY PageRows
  <2> HIDE DEF Q
  <2> QED BY <1>0, <1>1, <2>1, <2>2
<1> HIDE DEF Q
<1>3. \A k \in 1..m : k + PageSize > m => \E i \in 1..Len(Q) : Q[i] = k
  <2> SUFFICES ASSUME NEW k \in 1..m, k + PageSize > m PROVE \E i \in 1..Len(Q) : Q[i] = k
    OBVIOUS
  <2>1. m - k + 1 \in 1..len /\ m - (m - k + 1) + 1 = k
    BY <1>0
  <2> HIDE DEF len
  <2> QED BY <1>2, <2>1
<1>4. Len(Q) = IF PageSize < m THEN PageSize ELSE m
  BY <1>0, <1>2
<1> QED BY <1>0, <1>1, <1>2, <1>3, <1>4 DEF Whole, Q

\* A page more, read when there were at least as many results.
LEMMA NextPage ==
  ASSUME NEW kept \in Seq(1..MaxResults), NEW t \in Nat, NEW p \in Nat, NEW s \in Nat, NEW x \in BOOLEAN,
         NEW n \in Nat, Whole(kept, t, p, s, x, n), Len(kept) < t, held \in 0..MaxResults,
         NEW m \in Nat, n <= m, m <= held, NEW t2 \in Nat, t2 <= m
  PROVE  Whole(kept \o L!PageOf(m, p + 1), t2, p + 1, s, t2 # m, m)
<1> DEFINE q == p * PageSize
           Q == L!PageOf(m, p + 1)
           wider == kept \o Q
<1>0. PageSize \in Nat \ {0} /\ MaxResults \in Nat /\ held \in Nat
  BY ListsGiven DEF L!ListsAssumption
<1>1. q \in Nat /\ (p + 1) * PageSize = q + PageSize
  BY Times
<1>2. Len(kept) = q /\ q < n /\ s <= n /\ n <= held
  <2>1. Len(kept) = (IF q < n THEN q ELSE n) /\ t <= n /\ n \in s..held
    BY DEF Whole
  <2> HIDE DEF q
  <2> QED BY <1>0, <1>1, <2>1
<1> DEFINE len == IF m - q < PageSize THEN m - q ELSE PageSize
<1>3. Q \in Seq(1..m) /\ Len(Q) = len /\ \A i \in 1..len : Q[i] = m - q - i + 1
  <2>1. LET left == IF m > p * PageSize THEN m - p * PageSize ELSE 0
        IN  /\ Q \in Seq(1..m) /\ Len(Q) = IF left < PageSize THEN left ELSE PageSize
            /\ \A i \in 1..Len(Q) : Q[i] = m - p * PageSize - i + 1
    BY PageRows
  <2>2. m > q
    BY <1>1, <1>2
  <2> HIDE DEF Q
  <2> QED BY <2>1, <2>2
<1> HIDE DEF Q
<1>4. Q \in Seq(1..MaxResults)
  <2>1. 1..m \subseteq 1..MaxResults
    BY <1>0
  <2> QED BY <1>3, <2>1, Wider
<1>5. /\ Len(wider) = q + len /\ \A i \in 1..q : wider[i] = kept[i]
      /\ \A i \in 1..len : wider[q + i] = m - q - i + 1
  <2>1. /\ Len(wider) = Len(kept) + Len(Q) /\ \A i \in 1..Len(kept) : wider[i] = kept[i]
        /\ \A i \in 1..Len(Q) : wider[Len(kept) + i] = Q[i]
    BY <1>4, RowsJoined
  <2> HIDE DEF wider, q, len
  <2> QED BY <1>2, <1>3, <2>1
<1> HIDE DEF wider, q
<1>6. Len(wider) = IF q + PageSize < m THEN q + PageSize ELSE m
  BY <1>0, <1>1, <1>2, <1>5
<1>7. ASSUME NEW k \in 1..s, k + (q + PageSize) > m PROVE \E i \in 1..Len(wider) : wider[i] = k
  <2>1. CASE k + q > n
    <3>1. PICK i \in 1..Len(kept) : kept[i] = k
      BY <1>7, <2>1 DEF Whole, q
    <3>2. i \in 1..q /\ i \in 1..Len(wider)
      BY <1>0, <1>1, <1>2, <1>5
    <3> QED BY <1>5, <3>1, <3>2
  <2>2. CASE k + q <= n
    <3>1. m - q - k + 1 \in 1..len /\ m - q - (m - q - k + 1) + 1 = k
      BY <1>0, <1>1, <1>2, <1>7, <2>2
    <3>2. q + (m - q - k + 1) \in 1..Len(wider)
      <4>1. len \in Int
        BY <1>0, <1>1
      <4> HIDE DEF len
      <4>2. \A z \in 1..len : q + z \in 1..(q + len)
        BY <1>1, <4>1
      <4> QED BY <1>5, <3>1, <4>2
    <3> HIDE DEF len
    <3> QED BY <1>5, <3>1, <3>2
  <2> QED BY <1>1, <1>7, <2>1, <2>2
<1>8. ASSUME held = s, NEW i \in 1..Len(wider) PROVE wider[i] = s - i + 1
  <2>1. m = s /\ n = s
    BY <1>0, <1>2, <1>8
  <2>2. CASE i <= q
    <3>1. i \in 1..q
      BY <1>1, <1>5, <1>8, <2>2
    <3> QED BY <1>2, <1>5, <1>8, <3>1 DEF Whole
  <2>3. CASE i > q
    <3>1. i - q \in 1..len /\ q + (i - q) = i /\ m - q - (i - q) + 1 = m - i + 1
      BY <1>0, <1>1, <1>2, <1>5, <1>8, <2>3
    <3>2. wider[q + (i - q)] = m - q - (i - q) + 1
      BY <1>5, <3>1
    <3> QED BY <2>1, <3>1, <3>2
  <2> QED BY <1>1, <1>5, <1>8, <2>2, <2>3
<1>9. m \in s..held /\ (~(t2 # m) => t2 = m)
  BY <1>0, <1>2
<1>10. \A k \in 1..s : k + (q + PageSize) > m => \E i \in 1..Len(wider) : wider[i] = k
  BY <1>7
<1>11. held = s => \A i \in 1..Len(wider) : wider[i] = s - i + 1
  BY <1>8
<1> QED BY <1>1, <1>6, <1>9, <1>10, <1>11 DEF Whole, wider, Q

\* Results that are added do not take from a list.
LEMMA Grown ==
  ASSUME NEW kept, NEW t, NEW p, NEW s \in Nat, NEW x, NEW n \in Nat, held \in Nat, held' \in Nat,
         held <= held', Whole(kept, t, p, s, x, n)
  PROVE  Whole(kept, t, p, s, x, n)'
<1>1. n \in s..held
  BY DEF Whole
<1>2. n \in s..held' /\ (held' = s => held = s)
  BY <1>1
<1> QED BY <1>2 DEF Whole

-----------------------------------------------------------------------------
(* Ranks *)

\* A list whose neighbours descend descends.
LEMMA Descends ==
  ASSUME NEW n \in Nat, NEW v \in [1..n -> Nat], \A i \in 1..(n - 1) : v[i] >= v[i + 1]
  PROVE  \A i \in 1..n : \A j \in i..n : v[i] >= v[j]
<1> SUFFICES ASSUME NEW i \in 1..n PROVE \A j \in i..n : v[i] >= v[j]
  OBVIOUS
<1> DEFINE T == {d \in Nat : i + d <= n => v[i] >= v[i + d]}
<1>1. 0 \in T
  OBVIOUS
<1>2. ASSUME NEW d \in T \cap Nat PROVE d + 1 \in T
  <2> SUFFICES ASSUME i + (d + 1) <= n PROVE v[i] >= v[i + (d + 1)]
    OBVIOUS
  <2>1. i + d \in 1..(n - 1) /\ (i + d) + 1 = i + (d + 1) /\ i + d \in 1..n /\ i + (d + 1) \in 1..n
    OBVIOUS
  <2>2. v[i] >= v[i + d] /\ v[i + d] >= v[i + (d + 1)]
    BY <2>1
  <2> QED BY <2>1, <2>2
<1> HIDE DEF T
<1>3. Nat \subseteq T
  BY <1>1, <1>2, Inductive
<1> QED
  <2> SUFFICES ASSUME NEW j \in i..n PROVE v[i] >= v[j]
    OBVIOUS
  <2>1. j - i \in Nat /\ i + (j - i) = j /\ j <= n
    OBVIOUS
  <2>2. j - i \in T
    BY <1>3, <2>1
  <2>3. i + (j - i) <= n => v[i] >= v[i + (j - i)]
    BY <2>2 DEF T
  <2> QED BY <2>1, <2>3

\* The ranks of n values that descend.
RankBy(v, n, rank) ==
  rank = [i \in 1..n |-> IF i > 1 /\ v[i] = v[i - 1] THEN rank[i - 1] ELSE i]

\* The rank of everybody is one more than the members who were away for longer.
LEMMA Ranks ==
  ASSUME NEW n \in Nat, NEW v \in [1..n -> Nat], \A i \in 1..(n - 1) : v[i] >= v[i + 1],
         NEW rank, RankBy(v, n, rank)
  PROVE  \A i \in 1..n : /\ rank[i] \in Nat
                         /\ rank[i] = 1 + Cardinality({j \in 1..n : v[j] > v[i]})
<1> DEFINE Fits(i) == rank[i] \in 1..i /\ v[rank[i]] = v[i] /\ (rank[i] > 1 => v[rank[i] - 1] > v[i])
           T == {m \in Nat : \A i \in 1..n : i <= m => Fits(i)}
<1>0. \A i \in 1..n : rank[i] = IF i > 1 /\ v[i] = v[i - 1] THEN rank[i - 1] ELSE i
  BY DEF RankBy
<1>1. 0 \in T
  OBVIOUS
<1>2. ASSUME NEW m \in T \cap Nat PROVE m + 1 \in T
  <2> SUFFICES ASSUME NEW i \in 1..n, i <= m + 1 PROVE Fits(i)
    OBVIOUS
  <2>1. CASE i <= m
    BY <1>2, <2>1
  <2>2. CASE i > 1 /\ v[i] = v[i - 1] /\ i = m + 1
    <3>1. i - 1 \in 1..n /\ i - 1 <= m
      BY <2>2
    <3>2. Fits(i - 1)
      BY <1>2, <3>1
    <3>3. rank[i] = rank[i - 1]
      BY <1>0, <2>2
    <3> QED BY <2>2, <3>1, <3>2, <3>3
  <2>3. CASE ~(i > 1 /\ v[i] = v[i - 1]) /\ i = m + 1
    <3>1. rank[i] = i
      BY <1>0, <2>3
    <3>2. i > 1 => v[i - 1] >= v[i] /\ v[i - 1] # v[i] /\ v[i - 1] \in Nat /\ v[i] \in Nat
      <4>1. i > 1 => i - 1 \in 1..(n - 1) /\ (i - 1) + 1 = i /\ i - 1 \in 1..n
        OBVIOUS
      <4> QED BY <2>3, <4>1
    <3> QED BY <3>1, <3>2
  <2> QED BY <2>1, <2>2, <2>3
<1> HIDE DEF T
<1>3. \A i \in 1..n : Fits(i)
  <2>1. Nat \subseteq T
    BY <1>1, <1>2, Inductive
  <2> QED BY <2>1 DEF T
<1>4. \A i \in 1..n : \A j \in i..n : v[i] >= v[j]
  BY Descends
<1> SUFFICES ASSUME NEW i \in 1..n
             PROVE  rank[i] \in Nat /\ rank[i] = 1 + Cardinality({j \in 1..n : v[j] > v[i]})
  OBVIOUS
<1>5. PICK r \in 1..i : r = rank[i] /\ v[r] = v[i] /\ (r > 1 => v[r - 1] > v[i])
  BY <1>3
<1>6. {j \in 1..n : v[j] > v[i]} = 1..(r - 1)
  <2>1. ASSUME NEW j \in 1..n, v[j] > v[i] PROVE j \in 1..(r - 1)
    <3> SUFFICES ASSUME j >= r PROVE FALSE
      OBVIOUS
    <3>1. r \in 1..n /\ j \in r..n
      OBVIOUS
    <3>2. v[r] >= v[j] /\ v[j] \in Nat /\ v[i] \in Nat
      BY <1>4, <3>1
    <3> QED BY <1>5, <2>1, <3>2
  <2>2. ASSUME NEW j \in 1..(r - 1) PROVE j \in 1..n /\ v[j] > v[i]
    <3>1. j \in 1..n /\ r - 1 \in j..n /\ r > 1 /\ r - 1 \in 1..n
      OBVIOUS
    <3>2. v[j] >= v[r - 1] /\ v[r - 1] > v[i] /\ v[j] \in Nat /\ v[i] \in Nat /\ v[r - 1] \in Nat
      BY <1>4, <1>5, <3>1
    <3> QED BY <3>1, <3>2
  <2> QED BY <2>1, <2>2
<1>7. Cardinality(1..(r - 1)) = r - 1
  <2>1. 1 \in Int /\ r - 1 \in Int
    OBVIOUS
  <2>2. Cardinality(1..(r - 1)) = IF 1 > r - 1 THEN 0 ELSE (r - 1) - 1 + 1
    BY <2>1, FS_Interval
  <2> QED BY <2>2
<1>8. r \in Nat /\ 1 + (r - 1) = r
  OBVIOUS
<1>9. Cardinality({j \in 1..n : v[j] > v[i]}) = r - 1
  BY <1>6, <1>7
<1> QED BY <1>5, <1>8, <1>9
LEMMA RankThere ==
  ASSUME NEW n \in Nat, NEW v \in [1..n -> Nat]
  PROVE  \E rank : RankBy(v, n, rank)
<1> DEFINE way == [z \in (1..n) \X Nat |-> IF z[1] > 1 /\ v[z[1]] = v[z[1] - 1] THEN z[2] ELSE z[1]]
<1>1. way \in [(1..n) \X Nat -> Nat]
  OBVIOUS
<1>2. \A j \in 1..n, w \in Nat : way[<<j, w>>] = IF j > 1 /\ v[j] = v[j - 1] THEN w ELSE j
  OBVIOUS
<1> HIDE DEF way
<1>3. PICK f \in [0..n -> Nat] : f[0] = 0 /\ \A j \in 1..n : f[j] = way[<<j, f[j - 1]>>]
  <2>1. Exists(n, Nat, 0, way)
    BY <1>1, Recursion
  <2> QED BY <2>1 DEF Exists
<1> DEFINE rank == [i \in 1..n |-> f[i]]
<1>4. \A i \in 1..n : rank[i] = IF i > 1 /\ v[i] = v[i - 1] THEN rank[i - 1] ELSE i
  <2> SUFFICES ASSUME NEW i \in 1..n PROVE rank[i] = IF i > 1 /\ v[i] = v[i - 1] THEN rank[i - 1] ELSE i
    OBVIOUS
  <2>1. i - 1 \in 0..n /\ (i > 1 => i - 1 \in 1..n)
    OBVIOUS
  <2>2. f[i] = IF i > 1 /\ v[i] = v[i - 1] THEN f[i - 1] ELSE i
    <3>1. f[i] = way[<<i, f[i - 1]>>] /\ f[i - 1] \in Nat
      BY <1>3, <2>1
    <3>2. way[<<i, f[i - 1]>>] = IF i > 1 /\ v[i] = v[i - 1] THEN f[i - 1] ELSE i
      BY <1>2, <3>1
    <3> QED BY <3>1, <3>2
  <2> QED BY <2>1, <2>2
<1>5. rank = [i \in 1..n |-> IF i > 1 /\ v[i] = v[i - 1] THEN rank[i - 1] ELSE i]
  <2>1. rank = [i \in 1..n |-> rank[i]]
    OBVIOUS
  <2> HIDE DEF rank
  <2> QED BY <1>4, <2>1
<1> HIDE DEF rank
<1> QED BY <1>5 DEF RankBy

\* A board from its members, their values and their ranks, and a fair one.
RankedBy(n, s, v, rk) == [i \in 1..n |-> [member |-> s[i], escape |-> v[i], rank |-> rk[i]]]
Fair(B, n) ==
  /\ B \in Seq([member : (Pages \cup {Third}), escape : Escapes, rank : Nat]) /\ Len(B) = n
  /\ \A i \in 1..n : B[i].rank = 1 + Cardinality({j \in 1..n : B[j].escape > B[i].escape})

LEMMA FunctionIsList ==
  ASSUME NEW n \in Nat, NEW S, NEW B \in [1..n -> S]
  PROVE  B \in Seq(S) /\ Len(B) = n
OBVIOUS

\* The rows of a ranking, from the ranks.
LEMMA RowsRanked ==
  ASSUME NEW n \in Nat, NEW s \in [1..n -> (Pages \cup {Third})], NEW v \in [1..n -> Escapes], Escapes \subseteq Nat,
         \A i \in 1..(n - 1) : v[i] >= v[i + 1], NEW rk, RankBy(v, n, rk)
  PROVE  Fair(RankedBy(n, s, v, rk), n)
<1>b. PICK B : B = RankedBy(n, s, v, rk) /\ B = [i \in 1..n |-> [member |-> s[i], escape |-> v[i], rank |-> rk[i]]]
  BY DEF RankedBy
<1>0. v \in [1..n -> Nat]
  OBVIOUS
<1>8. \A i \in 1..n : rk[i] \in Nat /\ rk[i] = 1 + Cardinality({j \in 1..n : v[j] > v[i]})
  BY <1>0, Ranks
<1>9. \A i \in 1..n : B[i] = [member |-> s[i], escape |-> v[i], rank |-> rk[i]]
  BY <1>b
<1>10. B \in Seq([member : (Pages \cup {Third}), escape : Escapes, rank : Nat]) /\ Len(B) = n
  <2>1. \A i \in 1..n : s[i] \in (Pages \cup {Third}) /\ v[i] \in Escapes /\ rk[i] \in Nat
    BY <1>8
  <2>2. B \in [1..n -> [member : (Pages \cup {Third}), escape : Escapes, rank : Nat]]
    <3>1. \A i \in 1..n : [member |-> s[i], escape |-> v[i], rank |-> rk[i]] \in [member : (Pages \cup {Third}), escape : Escapes, rank : Nat]
      BY <2>1
    <3> QED BY <1>b, <3>1
  <2> QED BY <2>2, FunctionIsList
<1>11. ASSUME NEW i \in 1..n PROVE B[i].rank = 1 + Cardinality({j \in 1..n : B[j].escape > B[i].escape})
  <2>1. \A j \in 1..n : B[j].escape = v[j]
    BY <1>b, <1>9
  <2>2. {j \in 1..n : B[j].escape > B[i].escape} = {j \in 1..n : v[j] > v[i]}
    BY <1>11, <2>1
  <2>3. B[i].rank = rk[i]
    BY <1>b, <1>9, <1>11
  <2> QED BY <1>8, <1>11, <2>2, <2>3
<1>12. \A i \in 1..n : B[i].rank = 1 + Cardinality({j \in 1..n : B[j].escape > B[i].escape})
  BY <1>11, Zenon
<1>13. Fair(B, n)
  BY <1>10, <1>12, Zenon DEF Fair
<1> QED BY <1>b, <1>13, Zenon

\* A ranking, row by row.
LEMMA RankedRows ==
  ASSUME NEW escape \in [(Pages \cup {Third}) -> Escapes], NEW s \in L!Sorted(escape)
  PROVE  Len(s) \in Nat /\ Fair(L!Ranking(s, escape), Len(s))
<1> DEFINE n == Len(s)
           v == [i \in 1..n |-> escape[s[i]]]
           B == L!Ranking(s, escape)
<1>1. n \in Nat /\ s \in [1..n -> (Pages \cup {Third})]
  <2>1. s \in L!SetToSeqs((Pages \cup {Third})) /\ Cardinality((Pages \cup {Third})) \in Nat
    <3>1. IsFiniteSet(Pages \cup {Third})
      BY ListsGiven DEF L!ListsAssumption, L!IsFiniteSet, IsFiniteSet
    <3> QED BY <3>1, FS_CardinalityType DEF L!Sorted
  <2>2. s \in [1..Cardinality((Pages \cup {Third})) -> (Pages \cup {Third})]
    BY <2>1 DEF L!SetToSeqs, L!Cardinality, Cardinality
  <2>3. \A k \in Nat : s \in [1..k -> (Pages \cup {Third})] => Len(s) = k
    OBVIOUS
  <2> QED BY <2>1, <2>2, <2>3
<1>2. v \in [1..n -> Nat] /\ \A i \in 1..n : v[i] = escape[s[i]] /\ escape[s[i]] \in Escapes
  BY <1>1, ListsGiven DEF L!ListsAssumption
<1>3. \A i \in 1..(n - 1) : v[i] >= v[i + 1]
  <2>1. \A i \in 1..(n - 1) : escape[s[i]] >= escape[s[i + 1]]
    BY DEF L!Sorted
  <2>2. \A i \in 1..(n - 1) : i \in 1..n /\ i + 1 \in 1..n
    BY <1>1
  <2> QED BY <1>2, <2>1, <2>2
<1> DEFINE rk == CHOOSE kept : kept = [i \in 1..n |-> IF i > 1 /\ escape[s[i]] = escape[s[i - 1]] THEN kept[i - 1] ELSE i]
<1>4. B = [i \in 1..n |-> [member |-> s[i], escape |-> escape[s[i]], rank |-> rk[i]]]
  BY DEF L!Ranking
<1>5. \A kept : RankBy(v, n, kept) <=> kept = [i \in 1..n |-> IF i > 1 /\ escape[s[i]] = escape[s[i - 1]] THEN kept[i - 1] ELSE i]
  <2>1. \A i \in 1..n : i > 1 => i - 1 \in 1..n
    BY <1>1
  <2>2. \A i \in 1..n : i > 1 => (v[i] = v[i - 1] <=> escape[s[i]] = escape[s[i - 1]])
    BY <1>2, <2>1
  <2> HIDE DEF v
  <2> QED BY <2>2 DEF RankBy
<1>6. \E kept : RankBy(v, n, kept)
  <2> HIDE DEF n, v
  <2> QED BY <1>1, <1>2, RankThere
<1>7. RankBy(v, n, rk)
  <2> HIDE DEF n, v
  <2> QED BY <1>5, <1>6
<1>8. v \in [1..n -> Escapes]
  BY <1>2
<1>9. B = RankedBy(n, s, v, rk)
  BY <1>2, <1>4 DEF RankedBy
<1> HIDE DEF n, v, rk, B
<1>10. Escapes \subseteq Nat
  BY ListsGiven DEF L!ListsAssumption
<1>11. Fair(RankedBy(n, s, v, rk), n)
  BY <1>1, <1>3, <1>7, <1>8, <1>10, RowsRanked
<1> QED BY <1>1, <1>9, <1>11 DEF n, B

-----------------------------------------------------------------------------
(* The invariant *)

\* The inductive invariant.
ListsInv == L!ListsTypeOK /\ ListInv /\ CacheInv /\ RequestInv /\ BoardInv

LEMMA Bounds ==
  ASSUME L!ListsTypeOK
  PROVE  /\ held \in Nat /\ held <= MaxResults /\ MaxResults \in Nat \ {0} /\ MaxListTurns \in Nat
         /\ records \in Seq(1..MaxResults) /\ total \in Nat /\ page \in Nat /\ since \in Nat /\ torn \in BOOLEAN
         /\ request # None => request \in L!Request
         /\ cache # None => cache \in L!Snapshot
  BY ListsGiven DEF L!ListsAssumption, L!ListsTypeOK, L!Counted, L!Rows

\* A list and its requests, whatever is added to the results.
LEMMA ListKept ==
  ASSUME L!ListsTypeOK, held' \in Nat, held <= held', ListInv, UNCHANGED <<records, total, page, since, torn>>,
         Answering' => (Answering /\ request'.since = request.since) \/ request'.since = held
  PROVE  ListInv'
<1>1. CASE Bare(records, total, page)
  BY <1>1 DEF ListInv, Bare
<1>2. CASE page > 0 /\ \E n \in 0..held : Whole(records, total, page, since, torn, n) /\ (Answering => n <= request.since)
  <2>1. PICK n \in 0..held : Whole(records, total, page, since, torn, n) /\ (Answering => n <= request.since)
    BY <1>2
  <2>a. n \in Nat /\ n <= held
    BY <2>1, Bounds
  <2>b. /\ n \in since..held
        /\ Len(records) = (IF page * PageSize < n THEN page * PageSize ELSE n)
        /\ total <= n /\ (~torn => total = n)
        /\ \A k \in 1..since : k + page * PageSize > n => \E i \in 1..Len(records) : records[i] = k
        /\ held = since => \A i \in 1..Len(records) : records[i] = since - i + 1
    BY <2>1 DEF Whole
  <2>2. Whole(records, total, page, since, torn, n)'
    <3>1. since \in Nat /\ held \in Nat
      BY Bounds
    <3>2. since <= n
      BY <2>b, <3>1
    <3>3. n \in since..held' /\ (held' = since => held = since)
      BY <3>1, <3>2, <2>a
    <3>4. /\ n \in since'..held'
          /\ Len(records') = (IF page' * PageSize < n THEN page' * PageSize ELSE n)
          /\ total' <= n /\ (~torn' => total' = n)
      BY <2>b, <3>3
    <3>5. \A k \in 1..since' : k + page' * PageSize > n => \E i \in 1..Len(records') : records'[i] = k
      BY <2>b
    <3>6. held' = since' => \A i \in 1..Len(records') : records'[i] = since' - i + 1
      BY <2>b, <3>3
    <3> QED BY <3>4, <3>5, <3>6 DEF Whole
  <2>3. n \in 0..held' /\ (Answering' => n <= request'.since)
    <3>1. n \in 0..held'
      BY <2>a, Bounds
    <3>2. CASE Answering' /\ Answering /\ request'.since = request.since
      BY <2>1, <3>1, <3>2
    <3>3. CASE Answering' /\ request'.since = held
      BY <2>a, <3>1, <3>3
    <3> QED BY <3>1, <3>2, <3>3
  <2> QED BY <1>2, <2>2, <2>3 DEF ListInv
<1> QED BY <1>1, <1>2 DEF ListInv

LEMMA CacheKept ==
  ASSUME L!ListsTypeOK, held' \in Nat, held <= held', CacheInv, cache' \in {cache, [cache EXCEPT !.fresh = FALSE]},
         cache # None
  PROVE  CacheInv'
<1>1. cache \in L!Snapshot
  BY Bounds
<1>2. /\ cache'.history = cache.history /\ cache'.total = cache.total /\ cache'.page = cache.page
      /\ cache'.since = cache.since /\ cache'.torn = cache.torn
  BY <1>1 DEF L!Snapshot
<1>3. cache.page > 0
  BY DEF CacheInv
<1>4. PICK n \in 0..held : Whole(cache.history, cache.total, cache.page, cache.since, cache.torn, n)
  BY DEF CacheInv
<1>5. cache.since \in Nat /\ held \in Nat
  <2>1. L!Counted \subseteq Nat
    BY DEF L!Counted
  <2> QED BY <1>1, <2>1, Bounds DEF L!Snapshot
<1>6. Whole(cache.history, cache.total, cache.page, cache.since, cache.torn, n)'
  <2>1. n \in cache.since..held
    BY <1>4 DEF Whole
  <2>2. n \in cache.since..held' /\ (held' = cache.since => held = cache.since)
    BY <1>5, <2>1
  <2> QED BY <1>2, <1>4, <2>2 DEF Whole
<1>7. n \in 0..held'
  BY <1>5
<1> QED BY <1>2, <1>3, <1>6, <1>7 DEF CacheInv

-----------------------------------------------------------------------------
(* The steps of the lists *)

LEMMA Started ==
  ASSUME L!Init PROVE ListsInv
<1>1. 0 \in L!Counted /\ 0 \in 0..MaxListTurns /\ <<>> \in L!Rows
  BY ListsGiven DEF L!ListsAssumption, L!Counted, L!Rows
<1>2. L!ListsTypeOK
  BY <1>1 DEF L!Init, L!ListsTypeOK
<1> QED BY <1>2 DEF L!Init, ListsInv, ListInv, Bare, CacheInv, RequestInv, BoardInv

LEMMA EnterStep ==
  ASSUME ListsInv, L!Enter PROVE ListsInv'
<1>0. L!ListsTypeOK /\ ListInv /\ CacheInv /\ RequestInv /\ BoardInv
  BY DEF ListsInv
<1>1. held' = held /\ cache' = cache /\ lturns' = lturns /\ board' = None /\ where' = "list" /\ restore' = FALSE /\ failed' = "no"
  BY DEF L!Enter
<1>2. BoardInv'
  BY <1>1 DEF BoardInv
<1>3. CacheInv'
  BY <1>0, <1>1 DEF CacheInv, Whole
<1>4. CASE restore /\ cache # None /\ cache.fresh
  <2>1. /\ records' = cache.history /\ total' = cache.total /\ page' = cache.page
        /\ since' = cache.since /\ torn' = cache.torn /\ request' = None
    BY <1>4 DEF L!Enter
  <2>2. cache \in L!Snapshot
    BY <1>0, <1>4, Bounds
  <2>3. L!ListsTypeOK'
    BY <1>0, <1>1, <2>1, <2>2 DEF L!ListsTypeOK, L!Snapshot
  <2>4. ListInv'
    BY <1>0, <1>1, <1>4, <2>1 DEF CacheInv, ListInv, Answering, Whole
  <2>5. RequestInv'
    BY <2>1 DEF RequestInv
  <2> QED BY <1>2, <1>3, <2>3, <2>4, <2>5 DEF ListsInv
<1>5. CASE ~(restore /\ cache # None /\ cache.fresh)
  <2>1. records' = <<>> /\ total' = 0 /\ page' = 0 /\ request' = L!Asked(1) /\ since' = 0 /\ torn' = FALSE
    BY <1>5 DEF L!Enter
  <2>2. 0 \in L!Counted /\ <<>> \in L!Rows /\ 1 \in 1..(MaxResults + 1)
    BY <1>0, Bounds DEF L!Counted, L!Rows
  <2>3. L!Asked(1) \in L!Request /\ L!Asked(1).page = 1 /\ L!Asked(1).at = "count"
    BY <2>2 DEF L!Asked, L!Request
  <2>4. L!ListsTypeOK'
    BY <1>0, <1>1, <2>1, <2>2, <2>3 DEF L!ListsTypeOK
  <2>5. ListInv'
    BY <2>1 DEF ListInv, Bare
  <2>6. RequestInv'
    BY <2>1, <2>3 DEF RequestInv
  <2> QED BY <1>2, <1>3, <2>4, <2>5, <2>6 DEF ListsInv
<1> QED BY <1>4, <1>5

LEMMA LoadMoreStep ==
  ASSUME ListsInv, L!LoadMore PROVE ListsInv'
<1>0. L!ListsTypeOK /\ ListInv /\ CacheInv /\ RequestInv /\ BoardInv
  BY DEF ListsInv
<1>1. /\ request' = L!Asked(page + 1) /\ failed' = "no" /\ L!HasMore
      /\ UNCHANGED <<held, where, records, total, page, since, torn, restore, cache, board, lturns>>
  BY DEF L!LoadMore, L!kept
<1>2. L!Asked(page + 1) \in L!Request /\ L!Asked(page + 1).page = page + 1 /\ L!Asked(page + 1).at = "count"
  <2>1. page + 1 \in 1..(MaxResults + 1)
    BY <1>0, Bounds DEF L!ListsTypeOK, L!Counted
  <2>2. 0 \in L!Counted /\ <<>> \in L!Rows
    BY <1>0, Bounds DEF L!Counted, L!Rows
  <2> QED BY <2>1, <2>2 DEF L!Asked, L!Request
<1>3. L!ListsTypeOK'
  BY <1>0, <1>1, <1>2 DEF L!ListsTypeOK
<1>4. ListInv'
  <2>1. ~Answering'
    BY <1>1, <1>2 DEF Answering
  <2> QED BY <1>0, <1>1, <2>1, Bounds, ListKept
<1>5. CacheInv' /\ BoardInv'
  BY <1>0, <1>1 DEF CacheInv, BoardInv, Whole
<1>6. RequestInv'
  BY <1>1, <1>2 DEF RequestInv, L!HasMore
<1> QED BY <1>3, <1>4, <1>5, <1>6 DEF ListsInv

LEMMA LeaveStep ==
  ASSUME ListsInv, NEW to \in {"result", "elsewhere"}, L!Leave(to), restore' \in BOOLEAN, BoardInv',
         L!ListsTypeOK => board' \in Seq([member : (Pages \cup {Third}), escape : Escapes, rank : Nat]) \cup {None}
  PROVE  ListsInv'
<1>0. L!ListsTypeOK /\ ListInv /\ CacheInv
  BY DEF ListsInv
<1>1. /\ records' = <<>> /\ total' = 0 /\ page' = 0 /\ request' = None /\ failed' = "no"
      /\ since' = 0 /\ torn' = FALSE /\ held' = held /\ lturns' = lturns /\ where' = to
  BY DEF L!Leave
<1>2. ListInv' /\ RequestInv'
  BY <1>1 DEF ListInv, Bare, RequestInv
<1>3. 0 \in L!Counted /\ <<>> \in L!Rows
  BY <1>0, Bounds DEF L!Counted, L!Rows
<1>4. CASE records = <<>>
  <2>1. cache' = cache
    BY <1>4 DEF L!Leave
  <2>2. L!ListsTypeOK'
    BY <1>0, <1>1, <1>3, <2>1 DEF L!ListsTypeOK
  <2>3. CacheInv'
    BY <1>0, <1>1, <2>1 DEF CacheInv, Whole
  <2> QED BY <1>2, <2>2, <2>3 DEF ListsInv
<1>5. CASE records # <<>>
  <2>1. cache' = [history |-> records, total |-> total, page |-> page, since |-> since,
                  torn |-> torn, fresh |-> TRUE]
    BY <1>5 DEF L!Leave
  <2>2. cache' \in L!Snapshot
    BY <1>0, <2>1 DEF L!ListsTypeOK, L!Snapshot
  <2>3. L!ListsTypeOK'
    BY <1>0, <1>1, <1>3, <2>2 DEF L!ListsTypeOK
  <2>4. page > 0 /\ \E n \in 0..held : Whole(records, total, page, since, torn, n)
    BY <1>0, <1>5 DEF ListInv, Bare
  <2>5. CacheInv'
    BY <1>1, <2>1, <2>4 DEF CacheInv, Whole
  <2> QED BY <1>2, <2>3, <2>5 DEF ListsInv
<1> QED BY <1>4, <1>5

LEMMA GoElsewhereStep ==
  ASSUME ListsInv, L!GoElsewhere PROVE ListsInv'
<1>1. L!Leave("elsewhere") /\ restore' = restore /\ board' = board
  BY DEF L!GoElsewhere
<1>2. restore' \in BOOLEAN /\ BoardInv'
  BY <1>1 DEF ListsInv, L!ListsTypeOK, BoardInv
<1>3. L!ListsTypeOK => board' \in Seq([member : (Pages \cup {Third}), escape : Escapes, rank : Nat]) \cup {None}
  BY <1>1 DEF L!ListsTypeOK
<1> QED BY <1>1, <1>2, <1>3, LeaveStep

LEMMA OpenResultStep ==
  ASSUME ListsInv, L!OpenResult PROVE ListsInv'
<1>1. PICK escape \in [(Pages \cup {Third}) -> Escapes] : \E s \in L!Sorted(escape) : board' = L!Ranking(s, escape)
  BY DEF L!OpenResult
<1>2. PICK s \in L!Sorted(escape) : board' = L!Ranking(s, escape)
  BY <1>1
<1>3. L!Leave("result") /\ restore' = TRUE
  BY DEF L!OpenResult
<1>4. BoardInv'
  BY <1>2 DEF BoardInv
<1>5. board' \in Seq([member : (Pages \cup {Third}), escape : Escapes, rank : Nat])
  BY <1>2, RankedRows DEF Fair
<1> QED BY <1>3, <1>4, <1>5, LeaveStep

LEMMA LoadedStep ==
  ASSUME ListsInv, L!Loaded PROVE ListsInv'
<1>0. L!ListsTypeOK /\ ListInv /\ CacheInv /\ RequestInv /\ BoardInv
  BY DEF ListsInv
<1>1. /\ request # None /\ request.at = "answer" /\ request' = None /\ failed' = "no"
      /\ records' = (IF request.page = 1 THEN request.rows ELSE records \o request.rows)
      /\ total' = request.total /\ page' = request.page
      /\ since' = (IF request.page = 1 THEN request.since ELSE since)
      /\ torn' = (request.total # request.since)
      /\ UNCHANGED <<held, where, restore, cache, board, lturns>>
  BY DEF L!Loaded, L!kept
<1>2. request \in L!Request /\ request.since \in L!Counted /\ request.total \in L!Counted /\ request.rows \in L!Rows
  BY <1>0, <1>1, Bounds DEF L!Request
<1>3. /\ request.page = page + 1 /\ (page > 0 => L!HasMore) /\ request.rows = L!PageOf(request.since, request.page)
      /\ request.total <= request.since /\ request.since <= held
  BY <1>0, <1>1 DEF RequestInv
<1>4. PICK m \in Nat : m = request.since
  BY <1>2 DEF L!Counted
<1>5. PICK t2 \in Nat : t2 = request.total
  BY <1>2 DEF L!Counted
<1>6. CacheInv' /\ BoardInv' /\ RequestInv'
  BY <1>0, <1>1 DEF CacheInv, BoardInv, Whole, RequestInv
<1>7. CASE page = 0
  <2>1. request.page = 1
    BY <1>3, <1>7
  <2>2. /\ records' = L!PageOf(m, 1) /\ total' = t2 /\ page' = 1 /\ since' = m /\ torn' = (t2 # m)
    BY <1>1, <1>3, <1>4, <1>5, <2>1
  <2>3. 1 \in L!Counted
    BY <1>0, Bounds DEF L!Counted
  <2>4. L!ListsTypeOK'
    BY <1>0, <1>1, <1>2, <2>1, <2>3 DEF L!ListsTypeOK
  <2>5. Whole(L!PageOf(m, 1), t2, 1, m, t2 # m, m)
    BY <1>0, <1>3, <1>4, <1>5, Bounds, FirstPage
  <2>6. Whole(records, total, page, since, torn, m)'
    BY <1>1, <2>2, <2>5 DEF Whole
  <2>7. m \in 0..held' /\ ~Answering'
    BY <1>0, <1>1, <1>3, <1>4, Bounds DEF Answering
  <2>8. ListInv'
    BY <2>2, <2>6, <2>7 DEF ListInv
  <2> QED BY <1>6, <2>4, <2>8 DEF ListsInv
<1>8. CASE page # 0
  <2>0. page > 0 /\ request.page # 1 /\ Len(records) < total
    BY <1>0, <1>3, <1>8, Bounds DEF L!HasMore
  <2>1. PICK n \in 0..held : Whole(records, total, page, since, torn, n) /\ (Answering => n <= request.since)
    BY <1>0, <2>0 DEF ListInv, Bare
  <2>2. n <= m /\ n \in Nat
    <3>1. Answering
      BY <1>1 DEF Answering
    <3>2. held \in Nat
      BY <1>0, Bounds
    <3> QED BY <1>4, <2>1, <3>1, <3>2
  <2>3. PICK p \in Nat : p = page
    BY <1>0, Bounds
  <2>4. PICK kept \in Seq(1..MaxResults) : kept = records
    BY <1>0, Bounds
  <2>5. PICK s \in Nat : s = since
    BY <1>0, Bounds
  <2>6. PICK t \in Nat : t = total
    BY <1>0, Bounds
  <2>7. PICK x \in BOOLEAN : x = torn
    BY <1>0, Bounds
  <2>8. records' = kept \o L!PageOf(m, p + 1) /\ total' = t2 /\ page' = p + 1 /\ since' = s /\ torn' = (t2 # m)
    BY <1>1, <1>3, <1>4, <1>5, <2>0, <2>3, <2>4, <2>5
  <2>9. Whole(kept, t, p, s, x, n)
    <3>1. Whole(records, total, page, since, torn, n)
      BY <2>1
    <3> QED BY <3>1, <2>3, <2>4, <2>5, <2>6, <2>7, Zenon
  <2>10. held \in 0..MaxResults /\ m <= held /\ t2 <= m /\ Len(kept) < t
    BY <1>0, <1>3, <1>4, <1>5, <2>0, <2>4, <2>6, Bounds
  <2>11. Whole(kept \o L!PageOf(m, p + 1), t2, p + 1, s, t2 # m, m)
    BY <2>2, <2>9, <2>10, NextPage
  <2>12. Whole(records, total, page, since, torn, m)'
    BY <1>1, <2>8, <2>11 DEF Whole
  <2>13. m \in 0..held' /\ ~Answering' /\ page' > 0
    BY <1>1, <2>8, <2>10 DEF Answering
  <2>14. ListInv'
    BY <2>12, <2>13 DEF ListInv
  <2>15. page' \in L!Counted
    <3>1. Len(kept) = (IF p * PageSize < n THEN p * PageSize ELSE n) /\ t <= n
      BY <2>9 DEF Whole
    <3>2. p * PageSize \in Nat /\ p <= p * PageSize
      BY Times
    <3>3. n <= MaxResults /\ MaxResults \in Nat
      BY <1>0, <2>1, Bounds
    <3>4. \A q \in Nat : q >= p /\ Len(kept) = (IF q < n THEN q ELSE n) => p + 1 \in 0..MaxResults
      BY <2>2, <2>10, <3>1, <3>3
    <3> QED BY <2>8, <3>1, <3>2, <3>4 DEF L!Counted
  <2>16. records' \in L!Rows
    BY <1>1, <1>2, <2>0, <2>4 DEF L!Rows
  <2>17. L!ListsTypeOK'
    BY <1>0, <1>1, <1>2, <2>8, <2>15, <2>16 DEF L!ListsTypeOK
  <2> QED BY <1>6, <2>14, <2>17 DEF ListsInv
<1> QED BY <1>7, <1>8

LEMMA FailStep ==
  ASSUME ListsInv, L!Fail PROVE ListsInv'
<1>0. L!ListsTypeOK /\ ListInv /\ CacheInv /\ RequestInv /\ BoardInv
  BY DEF ListsInv
<1>1. /\ lturns < MaxListTurns /\ lturns' = lturns + 1 /\ request # None /\ request' = None
      /\ failed' = (IF request.page = 1 THEN "first" ELSE "more")
      /\ records' = (IF request.page = 1 THEN <<>> ELSE records)
      /\ UNCHANGED <<held, where, total, page, since, torn, restore, cache, board>>
  BY DEF L!Fail, L!kept
<1>2. CacheInv' /\ BoardInv' /\ RequestInv'
  BY <1>0, <1>1 DEF CacheInv, BoardInv, Whole, RequestInv
<1>3. lturns' \in 0..MaxListTurns /\ <<>> \in L!Rows
  BY <1>0, <1>1, Bounds DEF L!ListsTypeOK, L!Rows
<1>4. L!ListsTypeOK'
  BY <1>0, <1>1, <1>3 DEF L!ListsTypeOK
<1>5. ListInv'
  <2>1. ~Answering'
    BY <1>1 DEF Answering
  <2>2. CASE records' = records
    BY <1>0, <1>1, <2>1, <2>2, Bounds, ListKept
  <2>3. CASE records' # records
    <3>1. request.page = 1 /\ request.page = page + 1
      BY <1>0, <1>1, <2>3 DEF RequestInv
    <3>2. page = 0 /\ records' = <<>>
      BY <1>0, <1>1, <3>1, Bounds
    <3>3. total' = 0
      BY <1>0, <1>1, <3>2 DEF ListInv, Bare
    <3> QED BY <1>1, <3>2, <3>3 DEF ListInv, Bare
  <2> QED BY <2>2, <2>3
<1> QED BY <1>2, <1>4, <1>5 DEF ListsInv

LEMMA AgeStep ==
  ASSUME ListsInv, L!Age PROVE ListsInv'
<1>0. L!ListsTypeOK /\ ListInv /\ CacheInv /\ RequestInv /\ BoardInv
  BY DEF ListsInv
<1>1. /\ lturns < MaxListTurns /\ lturns' = lturns + 1 /\ cache # None /\ cache' = [cache EXCEPT !.fresh = FALSE]
      /\ UNCHANGED <<held, where, records, total, page, request, failed, since, torn, restore, board>>
  BY DEF L!Age, L!listed
<1>2. cache' \in L!Snapshot
  BY <1>0, <1>1, Bounds DEF L!Snapshot
<1>3. lturns' \in 0..MaxListTurns
  BY <1>0, <1>1, Bounds DEF L!ListsTypeOK
<1>4. L!ListsTypeOK'
  BY <1>0, <1>1, <1>2, <1>3 DEF L!ListsTypeOK
<1>5. held' \in Nat /\ held <= held'
  BY <1>0, <1>1, Bounds
<1>6. ListInv'
  BY <1>0, <1>1, <1>5, ListKept DEF Answering
<1>7. CacheInv'
  BY <1>0, <1>1, <1>5, CacheKept
<1>8. BoardInv' /\ RequestInv'
  BY <1>0, <1>1 DEF BoardInv, RequestInv, L!HasMore
<1> QED BY <1>4, <1>6, <1>7, <1>8 DEF ListsInv

LEMMA CountStep ==
  ASSUME ListsInv, L!Count PROVE ListsInv'
<1>0. L!ListsTypeOK /\ ListInv /\ CacheInv /\ RequestInv /\ BoardInv
  BY DEF ListsInv
<1>1. /\ request # None /\ request' = [request EXCEPT !.at = "find", !.total = held]
      /\ UNCHANGED <<held, where, records, total, page, failed, since, torn, restore, cache, board, lturns>>
  BY DEF L!Count, L!kept
<1>2. request \in L!Request /\ held \in L!Counted /\ held \in Nat
  BY <1>0, <1>1, Bounds DEF L!ListsTypeOK
<1>3. /\ request' \in L!Request /\ request'.at = "find" /\ request'.total = held /\ request'.page = request.page
  BY <1>1, <1>2 DEF L!Request
<1>4. L!ListsTypeOK'
  BY <1>0, <1>1, <1>3 DEF L!ListsTypeOK
<1>5. ~Answering'
  BY <1>3 DEF Answering
<1>6. ListInv'
  BY <1>0, <1>1, <1>2, <1>5, ListKept
<1>7. CacheInv' /\ BoardInv'
  BY <1>0, <1>1 DEF BoardInv, CacheInv, Whole
<1>8. RequestInv'
  BY <1>0, <1>1, <1>2, <1>3 DEF RequestInv, L!HasMore
<1> QED BY <1>4, <1>6, <1>7, <1>8 DEF ListsInv

LEMMA FindStep ==
  ASSUME ListsInv, L!Find PROVE ListsInv'
<1>0. L!ListsTypeOK /\ ListInv /\ CacheInv /\ RequestInv /\ BoardInv
  BY DEF ListsInv
<1>1. /\ request # None /\ request.at = "find"
      /\ request' = [request EXCEPT !.at = "answer", !.rows = L!PageOf(held, request.page), !.since = held]
      /\ UNCHANGED <<held, where, records, total, page, failed, since, torn, restore, cache, board, lturns>>
  BY DEF L!Find, L!kept
<1>2. request \in L!Request /\ held \in L!Counted /\ held \in Nat /\ held <= MaxResults /\ MaxResults \in Nat
  BY <1>0, <1>1, Bounds DEF L!ListsTypeOK
<1>3. request.page = page + 1 /\ (page > 0 => L!HasMore) /\ request.total <= held
  BY <1>0, <1>1 DEF RequestInv
<1>4. L!PageOf(held, request.page) \in L!Rows
  <2>1. page \in Nat
    BY <1>0, Bounds
  <2>2. L!PageOf(held, page + 1) \in Seq(1..held)
    BY <1>2, <2>1, PageRows
  <2>3. 1..held \subseteq 1..MaxResults
    BY <1>2
  <2> QED BY <1>3, <2>2, <2>3, Wider DEF L!Rows
<1>5. /\ request' \in L!Request /\ request'.at = "answer" /\ request'.total = request.total
      /\ request'.page = request.page /\ request'.rows = L!PageOf(held, request.page) /\ request'.since = held
  BY <1>1, <1>2, <1>4 DEF L!Request
<1>6. L!ListsTypeOK'
  BY <1>0, <1>1, <1>5 DEF L!ListsTypeOK
<1>7. ListInv'
  BY <1>0, <1>1, <1>2, <1>5, ListKept
<1>8. CacheInv' /\ BoardInv'
  BY <1>0, <1>1 DEF BoardInv, CacheInv, Whole
<1>9. RequestInv'
  BY <1>1, <1>2, <1>3, <1>5 DEF RequestInv, L!HasMore, L!PageOf
<1> QED BY <1>6, <1>7, <1>8, <1>9 DEF ListsInv

LEMMA SettleStep ==
  ASSUME ListsInv, L!Settle PROVE ListsInv'
<1>0. L!ListsTypeOK /\ ListInv /\ CacheInv /\ RequestInv /\ BoardInv
  BY DEF ListsInv
<1>1. /\ held < MaxResults /\ held' = held + 1
      /\ UNCHANGED <<where, records, total, page, request, failed, since, torn, restore, cache, board, lturns>>
  BY DEF L!Settle, L!listed, L!kept
<1>2. held \in Nat /\ MaxResults \in Nat
  BY <1>0, Bounds
<1>3. held' \in L!Counted /\ held' \in Nat /\ held <= held'
  BY <1>1, <1>2 DEF L!Counted
<1>4. L!ListsTypeOK'
  BY <1>0, <1>1, <1>3 DEF L!ListsTypeOK
<1>5. ListInv'
  BY <1>0, <1>1, <1>3, ListKept DEF Answering
<1>6. CacheInv'
  <2>1. CASE cache = None
    BY <1>1, <2>1 DEF CacheInv
  <2>2. CASE cache # None
    BY <1>0, <1>1, <1>3, <2>2, CacheKept
  <2> QED BY <2>1, <2>2
<1>7. BoardInv'
  BY <1>0, <1>1 DEF BoardInv
<1>8. RequestInv'
  <2> SUFFICES ASSUME request # None
               PROVE  /\ request.page = page + 1 /\ (page > 0 => L!HasMore)
                      /\ request.at = "find" => request.total <= held'
                      /\ request.at = "answer" => /\ request.rows = L!PageOf(request.since, request.page)
                                                  /\ request.total <= request.since /\ request.since <= held'
    BY <1>1 DEF RequestInv, L!HasMore
  <2>1. request.total \in Nat /\ request.since \in Nat
    <3>1. request \in L!Request /\ L!Counted \subseteq Nat
      BY <1>0, Bounds DEF L!Counted
    <3> QED BY <3>1 DEF L!Request
  <2>2. /\ request.page = page + 1 /\ (page > 0 => L!HasMore)
        /\ request.at = "find" => request.total <= held
        /\ request.at = "answer" => /\ request.rows = L!PageOf(request.since, request.page)
                                    /\ request.total <= request.since /\ request.since <= held
    BY <1>0 DEF RequestInv
  <2> QED BY <1>2, <1>3, <2>1, <2>2
<1> QED BY <1>4, <1>5, <1>6, <1>7, <1>8 DEF ListsInv

LEMMA AwayStep ==
  ASSUME ListsInv, L!Away PROVE ListsInv'
<1>0. L!ListsTypeOK /\ ListInv /\ CacheInv /\ RequestInv /\ BoardInv
  BY DEF ListsInv
<1>1. /\ where' = "elsewhere" /\ board' = None
      /\ UNCHANGED <<held, records, total, page, request, failed, since, torn, restore, cache, lturns>>
  BY DEF L!Away, L!listed, L!kept
<1>2. L!ListsTypeOK'
  BY <1>0, <1>1 DEF L!ListsTypeOK
<1>3. ListInv'
  BY <1>0, <1>1, Bounds, ListKept DEF Answering
<1>4. CacheInv' /\ BoardInv' /\ RequestInv'
  BY <1>0, <1>1 DEF CacheInv, BoardInv, RequestInv, Whole, L!HasMore
<1> QED BY <1>2, <1>3, <1>4 DEF ListsInv

LEMMA ListsStep ==
  ASSUME ListsInv, [L!ListsNext]_(L!vars) PROVE ListsInv'
<1>1. CASE UNCHANGED L!vars
  <2>1. UNCHANGED <<held, where, records, total, page, request, failed, since, torn, restore, cache, board, lturns>>
    BY <1>1 DEF L!vars, L!listed, L!kept
  <2>2. L!ListsTypeOK'
    BY <2>1 DEF ListsInv, L!ListsTypeOK
  <2>3. ListInv'
    BY <2>1, Bounds, ListKept DEF ListsInv, Answering
  <2>4. CacheInv' /\ BoardInv' /\ RequestInv'
    BY <2>1 DEF ListsInv, CacheInv, BoardInv, RequestInv, Whole, L!HasMore
  <2> QED BY <2>2, <2>3, <2>4 DEF ListsInv
<1> QED BY <1>1, EnterStep, LoadMoreStep, GoElsewhereStep, LoadedStep, FailStep, AgeStep, CountStep, FindStep,
          SettleStep, OpenResultStep, AwayStep DEF L!ListsNext

-----------------------------------------------------------------------------
(* What the lists show *)

LEMMA Complete ==
  ASSUME ListsInv PROVE L!HistoryComplete
<1> SUFFICES ASSUME page > 0
             PROVE  /\ ~L!HasMore /\ request = None /\ ~torn => \A k \in 1..since : L!Shows(k)
                    /\ held = since => \A i, j \in 1..Len(records) : records[i] = records[j] => i = j
  BY DEF L!HistoryComplete
<1>1. L!ListsTypeOK /\ ListInv
  BY DEF ListsInv
<1>2. PICK n \in 0..held : Whole(records, total, page, since, torn, n)
  BY <1>1, Bounds DEF ListInv, Bare
<1>3. /\ n \in Nat /\ page \in Nat /\ since \in Nat /\ total \in Nat /\ records \in Seq(1..MaxResults) /\ Len(records) \in Nat
      /\ page * PageSize \in Nat
  <2>1. held \in Nat /\ page \in Nat /\ since \in Nat /\ total \in Nat /\ records \in Seq(1..MaxResults)
    BY <1>1, Bounds
  <2>2. page * PageSize \in Nat
    BY <2>1, Times
  <2> QED BY <1>2, <2>1, <2>2
<1>4. /\ Len(records) = (IF page * PageSize < n THEN page * PageSize ELSE n)
      /\ total <= n /\ (~torn => total = n)
      /\ \A k \in 1..since : k + page * PageSize > n => \E i \in 1..Len(records) : records[i] = k
      /\ held = since => \A i \in 1..Len(records) : records[i] = since - i + 1
  BY <1>2 DEF Whole
<1>5. ASSUME ~L!HasMore, ~torn, NEW k \in 1..since PROVE L!Shows(k)
  <2>1. Len(records) >= n
    BY <1>3, <1>4, <1>5 DEF L!HasMore
  <2>2. \A q \in Nat : Len(records) = (IF q < n THEN q ELSE n) => k + q > n
    BY <1>3, <2>1
  <2> QED BY <1>3, <1>4, <2>2 DEF L!Shows
<1>6. ASSUME held = since, NEW i \in 1..Len(records), NEW j \in 1..Len(records), records[i] = records[j]
      PROVE  i = j
  <2>1. records[i] = since - i + 1 /\ records[j] = since - j + 1
    BY <1>4, <1>6
  <2>2. since - i + 1 = since - j + 1
    BY <1>6, <2>1
  <2> QED BY <1>3, <2>2
<1> QED BY <1>5, <1>6

LEMMA FairRanks ==
  ASSUME ListsInv PROVE L!RankedFairly
<1> SUFFICES ASSUME board # None, NEW i \in 1..Len(board)
             PROVE  L!Badge(board[i]) = IF board[i].escape = 0 THEN 0
                                      ELSE 1 + Cardinality({j \in 1..Len(board) : board[j].escape > board[i].escape})
  BY DEF L!RankedFairly, L!Cardinality, Cardinality
<1>1. PICK escape \in [(Pages \cup {Third}) -> Escapes] : \E s \in L!Sorted(escape) : board = L!Ranking(s, escape)
  BY DEF ListsInv, BoardInv
<1>2. PICK s \in L!Sorted(escape) : board = L!Ranking(s, escape)
  BY <1>1
<1>3. Fair(board, Len(s))
  BY <1>2, RankedRows
<1> QED BY <1>3 DEF Fair, L!Badge

\* A list that has come to its end has every result there was when it was last read,
\* unless one was added between the count and the rows, and none twice if none was
\* added since; equals share a rank, the next one is skipped, and who was never away
\* has a thumb (MyPageHistory, RankingSection).
THEOREM ListsHold == L!ListsSpec => [](L!ListsTypeOK /\ L!ListsTrue)
<1>1. ListsInv => L!ListsTypeOK /\ L!ListsTrue
  BY Complete, FairRanks DEF ListsInv, L!ListsTrue
<1> QED BY <1>1, Started, ListsStep, PTL DEF L!ListsSpec

=============================================================================
