------------------------------- MODULE RoomsProofs -------------------------------
(***************************************************************************)
(* Of what a browser shows of the rooms, for every number of members, tabs, *)
(* accounts and titles: the room page shows the room once it has heard of   *)
(* it, an account hosts one room and enters no other while it serves, and  *)
(* what is saved is what was meant.                                        *)
(***************************************************************************)
EXTENDS MCRooms, ContractEditingProofs, FunctionTheorems

-----------------------------------------------------------------------------
(* The room page *)

\* What a page's store can be.
Stores == [phase : R!Stages \cup {None}, members : R!Entries]

\* What an event makes of a store.
UpsertIn(st, u, signs, can) ==
  LET old == st.members[u]
      Merged(new, had) == IF new = None THEN had ELSE new
  IN [st EXCEPT !.members[u] =
        IF old = None THEN [signed |-> signs, can |-> Merged(can, FALSE)]
        ELSE [signed |-> Merged(signs, old.signed), can |-> Merged(can, old.can)]]

ApplyTo(st, e) ==
  CASE e[1] = "state"    -> [phase |-> e[2].stage, members |-> e[2].members]
    [] e[1] = "joined"   -> IF e[3] = None THEN UpsertIn(st, e[2], None, None)
                            ELSE UpsertIn(st, e[2], e[3].signed, e[3].can)
    [] e[1] \in {"left", "out"} -> [st EXCEPT !.members[e[2]] = None]
    [] e[1] = "signed"   -> UpsertIn(st, e[2], e[3], None)
    [] e[1] = "reset"    -> [st EXCEPT !.members = [u \in Pages |->
                              IF st.members[u] # None THEN [@[u] EXCEPT !.signed = FALSE] ELSE None]]
    [] e[1] = "edit"     -> UpsertIn(st, e[2], None, e[3])
    [] e[1] = "edit_all" -> [st EXCEPT !.members = [u \in Pages |->
                              IF st.members[u] # None /\ u # Host THEN [@[u] EXCEPT !.can = e[2]] ELSE @[u]]]
    [] e[1] = "started"  -> [st EXCEPT !.phase = "timer"]
    [] e[1] = "ended"    -> [st EXCEPT !.phase = "result"]
    [] OTHER             -> st

\* The events that come, and the calls that go.
PageEvents ==
  ({"state"} \X R!Rooms) \cup ({"joined"} \X Pages \X (R!Entry \cup {None})) \cup
  ({"left", "out"} \X Pages) \cup ({"signed", "edit"} \X Pages \X BOOLEAN) \cup
  ({"edit_all"} \X BOOLEAN) \cup {<<"reset">>, <<"started">>, <<"ended">>, <<"closed">>, <<"kicked">>}

Messages == ({"sign"} \X {viewer} \X BOOLEAN) \cup ({"edit"} \X Pages \X BOOLEAN)
              \cup ({"edit_all"} \X BOOLEAN) \cup ({"kick"} \X Pages)

PageTypes ==
  /\ R!RoomPageTypeOK
  /\ incoming \in Seq(PageEvents) /\ store \in Stores
  /\ outgoing \in Messages \cup {None}

\* A store shows the room.
ShowsOf(st, u) ==
  /\ st.members[u] # None =>
       /\ room.members[u] # None
       /\ R!Signs(st.members[u]) = R!Signs(room.members[u])
       /\ st.members[u].can = room.members[u].can
  /\ room.members[u] # None /\ u \in up /\ shaking[u] = "idle" => st.members[u] # None
Shows(st) ==
  /\ \A u \in Pages \ misled : ShowsOf(st, u)
  /\ ~late => st.phase = room.stage

\* What a handshake holds is what the room was since, or the page is misled.
CopiesHold ==
  \A u \in Pages :
    /\ shaking[u] \in {"read", "valid"} => u \notin up
    /\ shaking[u] # "idle" /\ u \notin misled => copy[u].members[u] = room.members[u]
    /\ shaking[u] \in {"valid", "joined"} /\ u \notin misled => R!InRoom(u)
    /\ shaking[viewer] # "idle" /\ u \notin misled => copy[viewer].members[u] = room.members[u]
\* The phase that the store shows.
PhaseHolds ==
  /\ shaking[viewer] # "idle" /\ ~late => copy[viewer].stage = room.stage
  /\ viewer \in up /\ shaking[viewer] = "idle" => room.stage # "lobby"

\* A way of a store through the events under way.
Runs(f, st, q) ==
  /\ f[0] = st
  /\ \A i \in 1..Len(q) : f[i] = ApplyTo(f[i - 1], q[i])

\* Whatever way a store goes with the events under way, it shows the room at the end.
OnTheWay ==
  viewer \in up /\ shaking[viewer] = "idle" =>
    \A f \in [0..Len(incoming) -> Stores] : Runs(f, store, incoming) => Shows(f[Len(incoming)])

\* The inductive invariant.
PageInv == PageTypes /\ CopiesHold /\ PhaseHolds /\ OnTheWay

-----------------------------------------------------------------------------
(* Stores, rooms and events *)

LEMMA StoreParts ==
  ASSUME NEW st \in Stores
  PROVE  /\ st.phase \in R!Stages \cup {None} /\ st.members \in R!Entries
         /\ \A u \in Pages : st.members[u] \in R!Entry \cup {None}
         /\ \A u \in Pages : st.members[u] # None =>
              /\ st.members[u] \in R!Entry /\ st.members[u].signed \in BOOLEAN \cup {None}
              /\ st.members[u].can \in BOOLEAN
  BY DEF Stores, R!Entries, R!Entry

LEMMA RoomParts ==
  ASSUME NEW r \in R!Rooms
  PROVE  /\ r.stage \in R!Stages /\ r.members \in R!Entries
         /\ \A u \in Pages : r.members[u] \in R!Entry \cup {None}
         /\ \A u \in Pages : r.members[u] # None =>
              /\ r.members[u] \in R!Entry /\ r.members[u].signed \in BOOLEAN \cup {None}
              /\ r.members[u].can \in BOOLEAN
  BY DEF R!Rooms, R!Entries, R!Entry

LEMMA EntryReplaced ==
  ASSUME NEW st \in Stores, NEW u \in Pages, NEW x \in R!Entry \cup {None}
  PROVE  /\ [st EXCEPT !.members[u] = x] \in Stores
         /\ [st EXCEPT !.members[u] = x].phase = st.phase
         /\ [st EXCEPT !.members[u] = x].members[u] = x
         /\ \A v \in Pages \ {u} : [st EXCEPT !.members[u] = x].members[v] = st.members[v]
  BY DEF Stores, R!Entries

\* The fields that are given go over those that are there.
Entered(old, signs, can) ==
  IF old = None THEN [signed |-> signs, can |-> IF can = None THEN FALSE ELSE can]
  ELSE [signed |-> IF signs = None THEN old.signed ELSE signs,
        can |-> IF can = None THEN old.can ELSE can]

LEMMA Upserted ==
  ASSUME NEW st \in Stores, NEW u \in Pages, NEW signs \in BOOLEAN \cup {None}, NEW can \in BOOLEAN \cup {None}
  PROVE  /\ UpsertIn(st, u, signs, can) \in Stores
         /\ UpsertIn(st, u, signs, can).phase = st.phase
         /\ \A v \in Pages \ {u} : UpsertIn(st, u, signs, can).members[v] = st.members[v]
         /\ UpsertIn(st, u, signs, can).members[u] = Entered(st.members[u], signs, can)
<1> DEFINE x == Entered(st.members[u], signs, can)
<1>1. UpsertIn(st, u, signs, can) = [st EXCEPT !.members[u] = x]
  BY DEF UpsertIn, Entered
<1>2. x \in R!Entry
  <2>1. st.members[u] # None => st.members[u].signed \in BOOLEAN \cup {None} /\ st.members[u].can \in BOOLEAN
    BY StoreParts
  <2>2. (IF can = None THEN FALSE ELSE can) \in BOOLEAN
    OBVIOUS
  <2>3. st.members[u] # None => (IF can = None THEN st.members[u].can ELSE can) \in BOOLEAN
    BY <2>1
  <2>4. st.members[u] # None => (IF signs = None THEN st.members[u].signed ELSE signs) \in BOOLEAN \cup {None}
    BY <2>1
  <2> QED BY <2>2, <2>3, <2>4 DEF R!Entry, Entered
<1> HIDE DEF x
<1>3. x \in R!Entry \cup {None}
  BY <1>2
<1>4. /\ [st EXCEPT !.members[u] = x] \in Stores
      /\ [st EXCEPT !.members[u] = x].phase = st.phase
      /\ [st EXCEPT !.members[u] = x].members[u] = x
      /\ \A v \in Pages \ {u} : [st EXCEPT !.members[u] = x].members[v] = st.members[v]
  BY <1>3, EntryReplaced
<1> QED BY <1>1, <1>4 DEF x

LEMMA UpsertedTo ==
  ASSUME NEW st \in Stores, NEW u \in Pages, NEW signs \in BOOLEAN \cup {None}, NEW can \in BOOLEAN \cup {None}
  PROVE  UpsertIn(st, u, signs, can).members[u] = Entered(st.members[u], signs, can)
  BY Upserted

\* What becomes of a store, event by event.
LEMMA Becomes ==
  ASSUME NEW st
  PROVE  /\ \A r : ApplyTo(st, <<"state", r>>) = [phase |-> r.stage, members |-> r.members]
         /\ \A u, x : ApplyTo(st, <<"joined", u, x>>) =
              IF x = None THEN UpsertIn(st, u, None, None) ELSE UpsertIn(st, u, x.signed, x.can)
         /\ \A u : ApplyTo(st, <<"left", u>>) = [st EXCEPT !.members[u] = None]
         /\ \A u : ApplyTo(st, <<"out", u>>) = [st EXCEPT !.members[u] = None]
         /\ \A u, x : ApplyTo(st, <<"signed", u, x>>) = UpsertIn(st, u, x, None)
         /\ \A u, x : ApplyTo(st, <<"edit", u, x>>) = UpsertIn(st, u, None, x)
         /\ ApplyTo(st, <<"started">>) = [st EXCEPT !.phase = "timer"]
         /\ ApplyTo(st, <<"ended">>) = [st EXCEPT !.phase = "result"]
         /\ ApplyTo(st, <<"closed">>) = st
         /\ ApplyTo(st, <<"kicked">>) = st
<1>1. \A r : ApplyTo(st, <<"state", r>>) = [phase |-> r.stage, members |-> r.members]
  BY DEF ApplyTo
<1>2. \A u, x : ApplyTo(st, <<"joined", u, x>>) =
              IF x = None THEN UpsertIn(st, u, None, None) ELSE UpsertIn(st, u, x.signed, x.can)
  BY DEF ApplyTo
<1>3. \A u : ApplyTo(st, <<"left", u>>) = [st EXCEPT !.members[u] = None]
  BY DEF ApplyTo
<1>4. \A u : ApplyTo(st, <<"out", u>>) = [st EXCEPT !.members[u] = None]
  BY DEF ApplyTo
<1>5. \A u, x : ApplyTo(st, <<"signed", u, x>>) = UpsertIn(st, u, x, None)
  BY DEF ApplyTo
<1>6. \A u, x : ApplyTo(st, <<"edit", u, x>>) = UpsertIn(st, u, None, x)
  BY DEF ApplyTo
<1>7. ApplyTo(st, <<"started">>) = [st EXCEPT !.phase = "timer"]
  BY DEF ApplyTo
<1>8. ApplyTo(st, <<"ended">>) = [st EXCEPT !.phase = "result"]
  BY DEF ApplyTo
<1>9. ApplyTo(st, <<"closed">>) = st /\ ApplyTo(st, <<"kicked">>) = st
  BY DEF ApplyTo
<1> QED BY <1>1, <1>2, <1>3, <1>4, <1>5, <1>6, <1>7, <1>8, <1>9

LEMMA AllReset ==
  ASSUME NEW st \in Stores
  PROVE  /\ ApplyTo(st, <<"reset">>) \in Stores
         /\ ApplyTo(st, <<"reset">>).phase = st.phase
         /\ \A u \in Pages : ApplyTo(st, <<"reset">>).members[u] =
              IF st.members[u] # None THEN [st.members[u] EXCEPT !.signed = FALSE] ELSE None
<1> DEFINE ms == [u \in Pages |-> IF st.members[u] # None THEN [st.members[u] EXCEPT !.signed = FALSE] ELSE None]
<1>1. ApplyTo(st, <<"reset">>) = [st EXCEPT !.members = ms]
  BY DEF ApplyTo, Stores
<1>2. ms \in R!Entries
  <2>1. \A u \in Pages : st.members[u] # None => [st.members[u] EXCEPT !.signed = FALSE] \in R!Entry
    BY StoreParts DEF R!Entry
  <2> QED BY <2>1 DEF R!Entries
<1> QED BY <1>1, <1>2 DEF Stores

LEMMA AllEdited ==
  ASSUME NEW st \in Stores, NEW x \in BOOLEAN
  PROVE  /\ ApplyTo(st, <<"edit_all", x>>) \in Stores
         /\ ApplyTo(st, <<"edit_all", x>>).phase = st.phase
         /\ \A u \in Pages : ApplyTo(st, <<"edit_all", x>>).members[u] =
              IF st.members[u] # None /\ u # Host THEN [st.members[u] EXCEPT !.can = x] ELSE st.members[u]
<1> DEFINE ms == [u \in Pages |-> IF st.members[u] # None /\ u # Host THEN [st.members[u] EXCEPT !.can = x] ELSE st.members[u]]
<1>1. ApplyTo(st, <<"edit_all", x>>) = [st EXCEPT !.members = ms]
  BY DEF ApplyTo, Stores
<1>2. ms \in R!Entries
  <2>1. \A u \in Pages : st.members[u] # None => [st.members[u] EXCEPT !.can = x] \in R!Entry
    BY StoreParts DEF R!Entry
  <2>2. \A u \in Pages : st.members[u] \in R!Entry \cup {None}
    BY StoreParts
  <2> QED BY <2>1, <2>2 DEF R!Entries
<1> QED BY <1>1, <1>2 DEF Stores

\* The kinds of events there are.
LEMMA EventKinds ==
  ASSUME NEW e \in PageEvents
  PROVE  \/ \E r \in R!Rooms : e = <<"state", r>>
         \/ \E u \in Pages, x \in R!Entry \cup {None} : e = <<"joined", u, x>>
         \/ \E u \in Pages : e = <<"left", u>> \/ e = <<"out", u>>
         \/ \E u \in Pages, x \in BOOLEAN : e = <<"signed", u, x>> \/ e = <<"edit", u, x>>
         \/ \E x \in BOOLEAN : e = <<"edit_all", x>>
         \/ e \in {<<"reset">>, <<"started">>, <<"ended">>, <<"closed">>, <<"kicked">>}
  BY DEF PageEvents

LEMMA ApplyTyped ==
  ASSUME NEW st \in Stores, NEW e \in PageEvents
  PROVE  ApplyTo(st, e) \in Stores
<1>1. ASSUME NEW r \in R!Rooms, e = <<"state", r>> PROVE ApplyTo(st, e) \in Stores
  <2>1. [phase |-> r.stage, members |-> r.members] \in Stores
    BY DEF R!Rooms, Stores
  <2> QED BY <1>1, <2>1 DEF ApplyTo
<1>2. ASSUME NEW u \in Pages, NEW x \in R!Entry \cup {None}, e = <<"joined", u, x>> PROVE ApplyTo(st, e) \in Stores
  <2>1. x # None => x.signed \in BOOLEAN \cup {None} /\ x.can \in BOOLEAN \cup {None}
    BY DEF R!Entry
  <2>2. UpsertIn(st, u, None, None) \in Stores
    BY Upserted
  <2>3. x # None => UpsertIn(st, u, x.signed, x.can) \in Stores
    BY <2>1, Upserted
  <2>4. ApplyTo(st, e) = IF x = None THEN UpsertIn(st, u, None, None) ELSE UpsertIn(st, u, x.signed, x.can)
    BY <1>2 DEF ApplyTo
  <2> QED BY <2>2, <2>3, <2>4, Zenon
<1>3. ASSUME NEW u \in Pages, e = <<"left", u>> \/ e = <<"out", u>> PROVE ApplyTo(st, e) \in Stores
  <2>1. [st EXCEPT !.members[u] = None] \in Stores
    BY EntryReplaced
  <2>2. ApplyTo(st, <<"left", u>>) = [st EXCEPT !.members[u] = None]
    BY Becomes, Zenon
  <2>3. ApplyTo(st, <<"out", u>>) = [st EXCEPT !.members[u] = None]
    BY Becomes, Zenon
  <2> QED BY <1>3, <2>1, <2>2, <2>3, Zenon
<1>4. ASSUME NEW u \in Pages, NEW x \in BOOLEAN, e = <<"signed", u, x>> \/ e = <<"edit", u, x>>
      PROVE  ApplyTo(st, e) \in Stores
  <2>1. UpsertIn(st, u, x, None) \in Stores /\ UpsertIn(st, u, None, x) \in Stores
    BY Upserted
  <2>2. ApplyTo(st, <<"signed", u, x>>) = UpsertIn(st, u, x, None)
    BY DEF ApplyTo
  <2>3. ApplyTo(st, <<"edit", u, x>>) = UpsertIn(st, u, None, x)
    BY DEF ApplyTo
  <2> QED BY <1>4, <2>1, <2>2, <2>3, Zenon
<1>5. ASSUME NEW x \in BOOLEAN, e = <<"edit_all", x>> PROVE ApplyTo(st, e) \in Stores
  BY <1>5, AllEdited
<1>6. CASE e \in {<<"reset">>, <<"started">>, <<"ended">>, <<"closed">>, <<"kicked">>}
  <2>1. [st EXCEPT !.phase = "timer"] \in Stores /\ [st EXCEPT !.phase = "result"] \in Stores
    BY DEF Stores, R!Stages
  <2>2. ApplyTo(st, <<"started">>) \in Stores
    BY <2>1, Becomes, Zenon
  <2>3. ApplyTo(st, <<"ended">>) \in Stores
    BY <2>1, Becomes, Zenon
  <2>4. ApplyTo(st, <<"closed">>) \in Stores /\ ApplyTo(st, <<"kicked">>) \in Stores
    BY Becomes, Zenon
  <2>5. ApplyTo(st, <<"reset">>) \in Stores
    BY AllReset
  <2> QED BY <1>6, <2>2, <2>3, <2>4, <2>5, Zenon
<1> QED BY <1>1, <1>2, <1>3, <1>4, <1>5, <1>6, EventKinds

\* The listeners do to the page's store what ApplyTo does to any.
LEMMA AppliedIs ==
  ASSUME store \in Stores, NEW e \in PageEvents, e[1] \notin {"closed", "kicked"}
  PROVE  R!Applied(e) = ApplyTo(store, e)
<1>1. \A u, x, y : R!Upsert(u, x, y) = UpsertIn(store, u, x, y)
  BY DEF R!Upsert, UpsertIn
<1>2. ASSUME NEW r, e = <<"state", r>> PROVE R!Applied(e) = ApplyTo(store, e)
  BY <1>2 DEF R!Applied, ApplyTo
<1>3. ASSUME NEW u, NEW x, e = <<"joined", u, x>> PROVE R!Applied(e) = ApplyTo(store, e)
  <2>1. R!Applied(e) = IF x = None THEN R!Upsert(u, None, None) ELSE R!Upsert(u, x.signed, x.can)
    BY <1>3 DEF R!Applied
  <2>2. ApplyTo(store, e) = IF x = None THEN UpsertIn(store, u, None, None) ELSE UpsertIn(store, u, x.signed, x.can)
    BY <1>3 DEF ApplyTo
  <2> QED BY <1>1, <2>1, <2>2
<1>4. ASSUME NEW u, e = <<"left", u>> \/ e = <<"out", u>> PROVE R!Applied(e) = ApplyTo(store, e)
  BY <1>4 DEF R!Applied, ApplyTo
<1>5. ASSUME NEW u, NEW x, e = <<"signed", u, x>> PROVE R!Applied(e) = ApplyTo(store, e)
  <2>1. R!Applied(e) = R!Upsert(u, x, None)
    BY <1>5 DEF R!Applied
  <2>2. ApplyTo(store, e) = UpsertIn(store, u, x, None)
    BY <1>5 DEF ApplyTo
  <2> QED BY <1>1, <2>1, <2>2
<1>6. ASSUME NEW u, NEW x, e = <<"edit", u, x>> PROVE R!Applied(e) = ApplyTo(store, e)
  <2>1. R!Applied(e) = R!Upsert(u, None, x)
    BY <1>6 DEF R!Applied
  <2>2. ApplyTo(store, e) = UpsertIn(store, u, None, x)
    BY <1>6 DEF ApplyTo
  <2> QED BY <1>1, <2>1, <2>2
<1>7. ASSUME NEW x, e = <<"edit_all", x>> PROVE R!Applied(e) = ApplyTo(store, e)
  <2>1. R!Applied(e) = R!EditedAll(x)
    BY <1>7 DEF R!Applied
  <2>2. ApplyTo(store, e) = [store EXCEPT !.members = [u \in Pages |->
                              IF store.members[u] # None /\ u # Host THEN [@[u] EXCEPT !.can = x] ELSE @[u]]]
    BY <1>7 DEF ApplyTo
  <2> QED BY <2>1, <2>2 DEF R!EditedAll, R!Listed
<1>8. CASE e = <<"reset">>
  <2>1. R!Applied(e) = [store EXCEPT !.members = [u \in Pages |->
                              IF u \in R!Listed THEN [@[u] EXCEPT !.signed = FALSE] ELSE None]]
    BY <1>8 DEF R!Applied
  <2>2. ApplyTo(store, e) = [store EXCEPT !.members = [u \in Pages |->
                              IF store.members[u] # None THEN [@[u] EXCEPT !.signed = FALSE] ELSE None]]
    BY <1>8 DEF ApplyTo
  <2> QED BY <2>1, <2>2 DEF R!Listed
<1>9. CASE e = <<"started">> \/ e = <<"ended">>
  BY <1>9 DEF R!Applied, ApplyTo
<1>10. e # <<"closed">> /\ e # <<"kicked">>
  OBVIOUS
<1> QED BY <1>2, <1>3, <1>4, <1>5, <1>6, <1>7, <1>8, <1>9, <1>10, EventKinds
\* An event that is sent: the store will come by one more.
LEMMA Told ==
  ASSUME NEW e \in PageEvents, incoming \in Seq(PageEvents), OnTheWay,
         viewer' = viewer, store' = store, incoming' = Append(incoming, e),
         viewer \in up, shaking[viewer] = "idle",
         \A st \in Stores : Shows(st) => Shows(ApplyTo(st, e))'
  PROVE  OnTheWay'
<1> DEFINE n == Len(incoming)
<1>1. n \in Nat /\ Len(incoming') = n + 1 /\ incoming'[n + 1] = e /\ \A i \in 1..n : incoming'[i] = incoming[i]
  OBVIOUS
<1> SUFFICES ASSUME NEW f \in [0..Len(incoming') -> Stores], Runs(f, store', incoming')
             PROVE  Shows(f[Len(incoming)])'
  BY DEF OnTheWay
<1> DEFINE k == [i \in 0..n |-> f[i]]
<1>2. k \in [0..n -> Stores]
  <2>1. \A i \in 0..n : i \in 0..(n + 1)
    BY <1>1
  <2>2. f \in [0..(n + 1) -> Stores]
    BY <1>1
  <2> HIDE DEF n
  <2> QED BY <2>1, <2>2
<1>3. Runs(k, store, incoming)
  <2>1. f[0] = store /\ \A i \in 1..(n + 1) : f[i] = ApplyTo(f[i - 1], incoming'[i])
    BY <1>1 DEF Runs
  <2>2. \A i \in 1..n : i - 1 \in 0..n /\ i \in 0..n /\ i \in 1..(n + 1)
    BY <1>1
  <2>3. 0 \in 0..n
    BY <1>1
  <2>4. \A i \in 1..n : k[i] = ApplyTo(k[i - 1], incoming[i])
    BY <1>1, <2>1, <2>2
  <2> QED BY <2>1, <2>3, <2>4 DEF Runs
<1>4. Shows(k[n])
  BY <1>2, <1>3 DEF OnTheWay
<1>5. k[n] = f[n] /\ f[n] \in Stores
  <2>1. n \in 0..n /\ n \in 0..(n + 1)
    BY <1>1
  <2> QED BY <1>1, <2>1
<1>6. f[n + 1] = ApplyTo(f[n], e)
  <2>1. n + 1 \in 1..(n + 1) /\ (n + 1) - 1 = n
    BY <1>1
  <2>2. f[n + 1] = ApplyTo(f[(n + 1) - 1], incoming'[n + 1])
    BY <1>1, <2>1 DEF Runs
  <2> QED BY <1>1, <2>1, <2>2
<1>7. \A x \in Stores : Shows(x) => Shows(ApplyTo(x, e))'
  OBVIOUS
<1>8. PICK m : m = n
  OBVIOUS
<1>9. Shows(ApplyTo(f[m], e))'
  <2>1. f[m] \in Stores /\ Shows(f[m])
    BY <1>4, <1>5, <1>8
  <2>2. PICK x : x = f[m]
    OBVIOUS
  <2> QED BY <1>7, <2>1, <2>2
<1>10. f[m + 1] = ApplyTo(f[m], e) /\ Len(incoming') = m + 1
  BY <1>1, <1>6, <1>8
<1>11. PICK y : y = ApplyTo(f[m], e)
  OBVIOUS
<1>12. Shows(y)'
  BY <1>9, <1>11
<1>13. f[Len(incoming')] = y
  BY <1>10, <1>11
<1> QED BY <1>12, <1>13

\* A change of which the page is not told.
LEMMA Untold ==
  ASSUME OnTheWay, viewer' = viewer, store' = store, incoming' = incoming,
         viewer \in up' /\ shaking'[viewer] = "idle" =>
           /\ viewer \in up /\ shaking[viewer] = "idle"
           /\ \A st \in Stores : Shows(st) => Shows(st)'
  PROVE  OnTheWay'
<1> SUFFICES ASSUME viewer \in up', shaking'[viewer] = "idle",
                    NEW f \in [0..Len(incoming) -> Stores], Runs(f, store, incoming)
             PROVE  Shows(f[Len(incoming)])'
  BY DEF OnTheWay
<1>1. Shows(f[Len(incoming)])
  BY DEF OnTheWay
<1>2. \A x : x = f[Len(incoming)] /\ Shows(x) /\ x \in Stores => Shows(x)'
  OBVIOUS
<1> QED BY <1>1, <1>2

\* A page that listens to an event goes the way it had before it.
LEMMA Heard ==
  ASSUME incoming \in Seq(PageEvents), incoming # <<>>, store \in Stores, OnTheWay,
         viewer' = viewer, UNCHANGED <<room, up, shaking, misled, late>>,
         store' = ApplyTo(store, Head(incoming)), incoming' = Tail(incoming)
  PROVE  OnTheWay'
<1> DEFINE n == Len(incoming)
<1>1. n \in Nat \ {0} /\ Len(incoming') = n - 1 /\ \A i \in 1..(n - 1) : incoming'[i] = incoming[i + 1]
  OBVIOUS
<1>2. Head(incoming) = incoming[1]
  OBVIOUS
<1> SUFFICES ASSUME viewer \in up, shaking[viewer] = "idle",
                    NEW f \in [0..Len(incoming') -> Stores], Runs(f, store', incoming')
             PROVE  Shows(f[Len(incoming)])'
  BY DEF OnTheWay
<1> DEFINE k == [i \in 0..n |-> IF i = 0 THEN store ELSE f[i - 1]]
<1>3. k \in [0..n -> Stores]
  <2>1. \A i \in 0..n : i # 0 => i - 1 \in 0..(n - 1)
    BY <1>1
  <2>2. f \in [0..(n - 1) -> Stores]
    BY <1>1
  <2> HIDE DEF n
  <2> QED BY <2>1, <2>2
<1>4. Runs(k, store, incoming)
  <2>1. f[0] = ApplyTo(store, incoming[1])
    BY <1>2 DEF Runs
  <2>2. \A i \in 1..(n - 1) : f[i] = ApplyTo(f[i - 1], incoming[i + 1])
    BY <1>1 DEF Runs
  <2>3. 0 \in 0..n /\ k[0] = store
    BY <1>1
  <2>4. ASSUME NEW i \in 1..n PROVE k[i] = ApplyTo(k[i - 1], incoming[i])
    <3>1. i \in 0..n /\ i # 0 /\ i - 1 \in 0..n
      BY <1>1
    <3>2. k[i] = f[i - 1]
      BY <3>1
    <3>3. CASE i = 1
      BY <2>1, <2>3, <3>2, <3>3
    <3>4. CASE i # 1
      <4>1. i - 1 \in 1..(n - 1) /\ (i - 1) + 1 = i /\ i - 1 # 0
        BY <1>1, <3>4
      <4>2. k[i - 1] = f[(i - 1) - 1]
        BY <3>1, <4>1
      <4>3. f[i - 1] = ApplyTo(f[(i - 1) - 1], incoming[(i - 1) + 1])
        BY <2>2, <4>1
      <4> QED BY <3>2, <4>1, <4>2, <4>3
    <3> QED BY <3>3, <3>4
  <2> QED BY <2>3, <2>4 DEF Runs
<1>5. Shows(k[n])
  BY <1>3, <1>4 DEF OnTheWay
<1>6. k[n] = f[n - 1]
  BY <1>1
<1>7. PICK y : y = k[n]
  OBVIOUS
<1>8. Shows(y)'
  BY <1>5, <1>7 DEF Shows, ShowsOf, R!Signs
<1>9. f[Len(incoming')] = y
  BY <1>1, <1>6, <1>7
<1> QED BY <1>8, <1>9
LEMMA Announced ==
  /\ \A r \in R!Rooms : <<"state", r>> \in PageEvents
  /\ \A u \in Pages, x \in R!Entry \cup {None} : <<"joined", u, x>> \in PageEvents
  /\ \A u \in Pages : <<"left", u>> \in PageEvents /\ <<"out", u>> \in PageEvents
  /\ \A u \in Pages, x \in BOOLEAN : <<"signed", u, x>> \in PageEvents /\ <<"edit", u, x>> \in PageEvents
  /\ \A x \in BOOLEAN : <<"edit_all", x>> \in PageEvents
  /\ {<<"reset">>, <<"started">>, <<"ended">>, <<"closed">>, <<"kicked">>} \subseteq PageEvents
  BY DEF PageEvents

LEMMA Emitted ==
  ASSUME incoming \in Seq(PageEvents), NEW e \in PageEvents, R!Emit(e)
  PROVE  incoming' \in Seq(PageEvents)
  BY DEF R!Emit

LEMMA EntryPut ==
  ASSUME room \in R!Rooms, NEW u \in Pages, NEW x \in R!Entry \cup {None}
  PROVE  /\ R!Put(u, x) \in R!Rooms /\ R!Put(u, x).stage = room.stage /\ R!Put(u, x).members[u] = x
         /\ \A v \in Pages \ {u} : R!Put(u, x).members[v] = room.members[v]
  BY DEF R!Put, R!Rooms, R!Entries

LEMMA Restaged ==
  ASSUME room \in R!Rooms, NEW x \in R!Stages
  PROVE  /\ [room EXCEPT !.stage = x] \in R!Rooms /\ [room EXCEPT !.stage = x].stage = x
         /\ [room EXCEPT !.stage = x].members = room.members
  BY DEF R!Rooms

LEMMA Remembered ==
  ASSUME room \in R!Rooms, NEW ms \in R!Entries
  PROVE  /\ [room EXCEPT !.members = ms] \in R!Rooms /\ [room EXCEPT !.members = ms].stage = room.stage
         /\ [room EXCEPT !.members = ms].members = ms
  BY DEF R!Rooms

LEMMA SignPut ==
  ASSUME room \in R!Rooms, NEW u \in Pages, R!InRoom(u), NEW x \in BOOLEAN
  PROVE  /\ [room EXCEPT !.members[u].signed = x] = R!Put(u, [room.members[u] EXCEPT !.signed = x])
         /\ [room.members[u] EXCEPT !.signed = x] \in R!Entry
         /\ [room.members[u] EXCEPT !.signed = x].signed = x
         /\ [room.members[u] EXCEPT !.signed = x].can = room.members[u].can
<1>1. room.members[u] \in R!Entry
  BY RoomParts DEF R!InRoom
<1> QED BY <1>1 DEF R!Put, R!Entry

LEMMA EditPut ==
  ASSUME room \in R!Rooms, NEW u \in Pages, R!InRoom(u), NEW x \in BOOLEAN
  PROVE  /\ [room EXCEPT !.members[u].can = x] = R!Put(u, [room.members[u] EXCEPT !.can = x])
         /\ [room.members[u] EXCEPT !.can = x] \in R!Entry
         /\ [room.members[u] EXCEPT !.can = x].can = x
         /\ [room.members[u] EXCEPT !.can = x].signed = room.members[u].signed
<1>1. room.members[u] \in R!Entry
  BY RoomParts DEF R!InRoom
<1> QED BY <1>1 DEF R!Put, R!Entry

ResetMembers == [u \in Pages |-> IF R!InRoom(u) THEN [room.members[u] EXCEPT !.signed = FALSE] ELSE None]
EditMembers(x) == [u \in Pages |-> IF R!InRoom(u) /\ u # Host THEN [room.members[u] EXCEPT !.can = x] ELSE room.members[u]]

LEMMA ResetTyped ==
  ASSUME room \in R!Rooms
  PROVE  /\ ResetMembers \in R!Entries
         /\ \A u \in Pages : R!InRoom(u) => ResetMembers[u] # None /\ ResetMembers[u].signed = FALSE
                                          /\ ResetMembers[u].can = room.members[u].can
<1>1. \A u \in Pages : R!InRoom(u) => /\ [room.members[u] EXCEPT !.signed = FALSE] \in R!Entry
                                      /\ [room.members[u] EXCEPT !.signed = FALSE].signed = FALSE
                                      /\ [room.members[u] EXCEPT !.signed = FALSE].can = room.members[u].can
  BY SignPut
<1>2. None \notin R!Entry
  BY PageGiven DEF R!NoOneAssumption
<1> QED BY <1>1, <1>2 DEF ResetMembers, R!Entries

LEMMA EditTyped ==
  ASSUME room \in R!Rooms, NEW x \in BOOLEAN
  PROVE  /\ EditMembers(x) \in R!Entries
         /\ \A u \in Pages : R!InRoom(u) /\ u # Host => /\ EditMembers(x)[u] # None /\ EditMembers(x)[u].can = x
                                                        /\ EditMembers(x)[u].signed = room.members[u].signed
         /\ \A u \in Pages : ~(R!InRoom(u) /\ u # Host) => EditMembers(x)[u] = room.members[u]
<1>1. \A u \in Pages : R!InRoom(u) => /\ [room.members[u] EXCEPT !.can = x] \in R!Entry
                                      /\ [room.members[u] EXCEPT !.can = x].can = x
                                      /\ [room.members[u] EXCEPT !.can = x].signed = room.members[u].signed
  BY EditPut
<1>2. None \notin R!Entry
  BY PageGiven DEF R!NoOneAssumption
<1>3. \A u \in Pages : room.members[u] \in R!Entry \cup {None}
  BY RoomParts
<1> QED BY <1>1, <1>2, <1>3 DEF EditMembers, R!Entries

LEMMA MisledTyped ==
  ASSUME misled \subseteq Pages, NEW changed \in SUBSET Pages, NEW unseen \in SUBSET Pages, R!Mislead(changed, unseen)
  PROVE  /\ misled' \subseteq Pages /\ misled \subseteq misled' /\ unseen \subseteq misled'
         /\ \A u \in changed : shaking[viewer] # "idle" \/ shaking[u] # "idle" => u \in misled'
  BY DEF R!Mislead

\* What a change of one member or of all of them does to the room, of the calls that
\* the host's page and the others have in common.
Served(u, x) == R!Sign(u, x) \/ R!EditMember(u, x) \/ R!Edited \/ R!EditAll(x) \/ R!Kick(u)

LEMMA ServedTyped ==
  ASSUME PageTypes, NEW u \in Pages, NEW x \in BOOLEAN, Served(u, x),
         calls' \in 0..MaxCalls, outgoing' \in Messages \cup {None}
  PROVE  PageTypes'
<1>0. /\ room \in R!Rooms /\ incoming \in Seq(PageEvents) /\ misled \subseteq Pages /\ up \subseteq Pages
      /\ None \in R!Entry \cup {None}
  BY DEF PageTypes, R!RoomPageTypeOK
<1>1. ASSUME NEW r \in R!Rooms, NEW e \in PageEvents, NEW changed \in SUBSET Pages, NEW unseen \in SUBSET Pages,
             R!Change(changed, unseen, r, e)
      PROVE  PageTypes'
  <2>1. incoming' \in Seq(PageEvents) /\ misled' \subseteq Pages
    BY <1>0, <1>1, Emitted, MisledTyped DEF R!Change
  <2>2. UNCHANGED <<viewer, shaking, copy, up, route, store, late>> /\ room' = r
    BY <1>1 DEF R!Change, R!shakes, R!browser
  <2> QED BY <2>1, <2>2 DEF PageTypes, R!RoomPageTypeOK, Messages
<1>2. ASSUME R!Refuse PROVE PageTypes'
  <2>1. UNCHANGED <<viewer, room, shaking, copy, up, incoming, route, store, misled, late>>
    BY <1>2 DEF R!Refuse, R!shakes, R!browser, R!history
  <2> QED BY <2>1 DEF PageTypes, R!RoomPageTypeOK, Messages
<1>3. CASE R!Sign(u, x)
  <2>1. CASE ~R!InRoom(u) \/ room.stage \notin R!Open
    BY <1>2, <1>3, <2>1 DEF R!Sign
  <2>2. CASE R!InRoom(u) /\ room.stage \in R!Open
    <3>1. [room EXCEPT !.members[u].signed = x] \in R!Rooms
      <4>1. /\ [room EXCEPT !.members[u].signed = x] = R!Put(u, [room.members[u] EXCEPT !.signed = x])
            /\ [room.members[u] EXCEPT !.signed = x] \in R!Entry
        BY <1>0, <2>2, SignPut
      <4>2. R!Put(u, [room.members[u] EXCEPT !.signed = x]) \in R!Rooms
        BY <1>0, <4>1, EntryPut
      <4> QED BY <4>1, <4>2
    <3>2. R!Change({u}, {}, [room EXCEPT !.members[u].signed = x], <<"signed", u, x>>)
      BY <1>3, <2>2 DEF R!Sign
    <3>3. <<"signed", u, x>> \in PageEvents
      BY Announced
    <3>4. {u} \in SUBSET Pages /\ {} \in SUBSET Pages
      OBVIOUS
    <3> QED BY <1>1, <3>1, <3>2, <3>3, <3>4
  <2> QED BY <2>1, <2>2
<1>4. CASE R!EditMember(u, x)
  <2>1. CASE ~R!InRoom(u)
    BY <1>2, <1>4, <2>1 DEF R!EditMember
  <2>2. CASE R!InRoom(u)
    <3>1. [room EXCEPT !.members[u].can = x] \in R!Rooms
      <4>1. /\ [room EXCEPT !.members[u].can = x] = R!Put(u, [room.members[u] EXCEPT !.can = x])
            /\ [room.members[u] EXCEPT !.can = x] \in R!Entry
        BY <1>0, <2>2, EditPut
      <4>2. R!Put(u, [room.members[u] EXCEPT !.can = x]) \in R!Rooms
        BY <1>0, <4>1, EntryPut
      <4> QED BY <4>1, <4>2
    <3>2. R!Change({u}, {u} \ up, [room EXCEPT !.members[u].can = x], <<"edit", u, x>>)
      BY <1>4, <2>2 DEF R!EditMember
    <3>3. <<"edit", u, x>> \in PageEvents
      BY Announced
    <3>4. {u} \in SUBSET Pages /\ {u} \ up \in SUBSET Pages
      OBVIOUS
    <3> QED BY <1>1, <3>1, <3>2, <3>3, <3>4
  <2> QED BY <2>1, <2>2
<1>5. CASE R!Edited
  <2> DEFINE signs == \E v \in Pages : R!InRoom(v) /\ R!Signs(room.members[v])
  <2>1. CASE room.stage \notin R!Open \/ ~signs
    BY <1>2, <1>5, <2>1 DEF R!Edited
  <2>2. CASE room.stage \in R!Open /\ signs
    <3>1. [room EXCEPT !.members = ResetMembers] \in R!Rooms
      BY <1>0, ResetTyped, Remembered
    <3>2. R!Change({v \in Pages : R!InRoom(v)}, {}, [room EXCEPT !.members = ResetMembers], <<"reset">>)
      BY <1>5, <2>2 DEF R!Edited, ResetMembers
    <3>3. <<"reset">> \in PageEvents
      BY Announced
    <3>4. {v \in Pages : R!InRoom(v)} \in SUBSET Pages /\ {} \in SUBSET Pages
      OBVIOUS
    <3> QED BY <1>1, <3>1, <3>2, <3>3, <3>4
  <2> QED BY <2>1, <2>2
<1>6. CASE R!EditAll(x)
  <2>1. CASE room.stage = "closed"
    BY <1>2, <1>6, <2>1 DEF R!EditAll
  <2>2. CASE room.stage # "closed"
    <3>1. [room EXCEPT !.members = EditMembers(x)] \in R!Rooms
      BY <1>0, EditTyped, Remembered
    <3>2. R!Change({v \in Pages : R!InRoom(v)}, {}, [room EXCEPT !.members = EditMembers(x)], <<"edit_all", x>>)
      BY <1>6, <2>2 DEF R!EditAll, EditMembers
    <3>3. <<"edit_all", x>> \in PageEvents
      BY Announced
    <3>4. {v \in Pages : R!InRoom(v)} \in SUBSET Pages /\ {} \in SUBSET Pages
      OBVIOUS
    <3> QED BY <1>1, <3>1, <3>2, <3>3, <3>4
  <2> QED BY <2>1, <2>2
<1>7. CASE R!Kick(u)
  <2>1. room' = R!Put(u, None) /\ up' = up \ {u} /\ UNCHANGED <<viewer, shaking, copy, route, store, late>>
    BY <1>7 DEF R!Kick, R!shakes, R!browser
  <2>2. R!Put(u, None) \in R!Rooms
    BY <1>0, EntryPut
  <2>3. misled' \subseteq Pages
    <3>1. R!Mislead({u}, IF u \in up THEN {} ELSE {u})
      BY <1>7 DEF R!Kick
    <3>2. {u} \in SUBSET Pages /\ (IF u \in up THEN {} ELSE {u}) \in SUBSET Pages
      OBVIOUS
    <3> QED BY <1>0, <3>1, <3>2, MisledTyped
  <2>4. incoming' \in Seq(PageEvents)
    <3>1. \/ incoming' = incoming \/ R!Emit(<<"kicked">>) \/ R!Emit(<<"out", u>>)
      BY <1>7 DEF R!Kick
    <3>2. <<"kicked">> \in PageEvents /\ <<"out", u>> \in PageEvents
      BY Announced
    <3> QED BY <1>0, <3>1, <3>2, Emitted
  <2>5. up' \subseteq Pages
    BY <1>0, <2>1
  <2> QED BY <2>1, <2>2, <2>3, <2>4, <2>5 DEF PageTypes, R!RoomPageTypeOK, Messages
<1> QED BY <1>3, <1>4, <1>5, <1>6, <1>7 DEF Served
\* Every action keeps the types.

-----------------------------------------------------------------------------
(* Types *)

LEMMA EventTypes ==
  ASSUME PageTypes, [R!Next]_(R!page)
  PROVE  PageTypes'
<1>0. /\ room \in R!Rooms /\ incoming \in Seq(PageEvents) /\ misled \subseteq Pages /\ up \subseteq Pages
      /\ <<>> \in Seq(PageEvents) /\ viewer \in Pages /\ viewer \in Pages /\ shaking \in [Pages -> R!PCs] /\ copy \in [Pages -> R!Rooms \cup {None}]
      /\ outgoing \in Messages \cup {None} /\ calls \in 0..MaxCalls /\ late \in BOOLEAN /\ store \in Stores
      /\ None \notin R!Rooms /\ None \notin R!Entry /\ MaxCalls \in Nat /\ R!NoStore \in Stores
  <2>1. R!NoStore \in Stores
    BY DEF R!NoStore, Stores, R!Entries
  <2> QED BY <2>1, PageGiven DEF PageTypes, R!RoomPageTypeOK, R!NoOneAssumption, Stores
<1>a. R!Call => calls' \in 0..MaxCalls
  BY <1>0 DEF R!Call
<1>b. store' \in Stores => store'.phase \in R!Stages \cup {None} /\ store'.members \in R!Entries
  BY DEF Stores
<1>c. store.phase \in R!Stages \cup {None} /\ store.members \in R!Entries
  BY DEF PageTypes, R!RoomPageTypeOK
<1>d. viewer' = viewer => Messages' = Messages
  BY DEF Messages
<1>1. ASSUME NEW u \in Pages, R!Connect(u) PROVE PageTypes'
  <2>1. /\ UNCHANGED <<viewer, room, up, incoming, outgoing>> /\ calls' \in 0..MaxCalls
    BY <1>1, <1>a DEF R!Connect, R!network
  <2>2. route' \in {"room", "home", "join"} /\ store' \in Stores
    BY <1>0, <1>1 DEF R!Connect, R!browser, PageTypes, R!RoomPageTypeOK
  <2>3. misled' \subseteq Pages /\ late' \in BOOLEAN
    BY <1>0, <1>1 DEF R!Connect, R!history
  <2>4. \/ shaking' = shaking /\ copy' = copy
        \/ shaking' = [shaking EXCEPT ![u] = "read"] /\ copy' = [copy EXCEPT ![u] = room]
    BY <1>1 DEF R!Connect, R!shakes
  <2>5. shaking' \in [Pages -> R!PCs] /\ copy' \in [Pages -> R!Rooms \cup {None}]
        /\ \A v \in Pages : (shaking'[v] = "idle") = (copy'[v] = None)
    <3>1. \A v \in Pages : (shaking[v] = "idle") = (copy[v] = None)
      BY DEF PageTypes, R!RoomPageTypeOK
    <3>2. room # None
      BY <1>0
    <3> QED BY <1>0, <2>4, <3>1, <3>2 DEF R!PCs
  <2> QED BY <1>0, <1>b, <1>d, <2>1, <2>2, <2>3, <2>5 DEF PageTypes, R!RoomPageTypeOK
<1>2. ASSUME NEW u \in Pages, R!ConnectMember(u) PROVE PageTypes'
  <2>1. UNCHANGED <<viewer, room, up, incoming, outgoing, misled, late, calls>>
    BY <1>2 DEF R!ConnectMember, R!network, R!history
  <2>2. route' \in {"room", "home", "join"} /\ store' \in Stores
    BY <1>0, <1>2 DEF R!ConnectMember, R!browser, PageTypes, R!RoomPageTypeOK
  <2>4. \/ shaking[u] = "read" /\ shaking' = [shaking EXCEPT ![u] = "valid"] /\ copy' = copy
        \/ shaking' = [shaking EXCEPT ![u] = "idle"] /\ copy' = [copy EXCEPT ![u] = None]
    BY <1>2 DEF R!ConnectMember
  <2>5. shaking' \in [Pages -> R!PCs] /\ copy' \in [Pages -> R!Rooms \cup {None}]
        /\ \A v \in Pages : (shaking'[v] = "idle") = (copy'[v] = None)
    <3>1. \A v \in Pages : (shaking[v] = "idle") = (copy[v] = None)
      BY DEF PageTypes, R!RoomPageTypeOK
    <3> QED BY <1>0, <2>4, <3>1 DEF R!PCs
  <2> QED BY <1>0, <1>b, <1>d, <2>1, <2>2, <2>5 DEF PageTypes, R!RoomPageTypeOK
<1>3. ASSUME NEW u \in Pages, R!ConnectJoin(u) PROVE PageTypes'
  <2>1. UNCHANGED <<viewer, room, copy, incoming, outgoing, route, store, misled, late, calls>> /\ up' = up \cup {u}
        /\ shaking[u] = "valid" /\ shaking' = [shaking EXCEPT ![u] = "joined"]
    BY <1>3 DEF R!ConnectJoin, R!browser, R!history
  <2>2. shaking' \in [Pages -> R!PCs] /\ \A v \in Pages : (shaking'[v] = "idle") = (copy'[v] = None)
    <3>1. \A v \in Pages : (shaking[v] = "idle") = (copy[v] = None)
      BY DEF PageTypes, R!RoomPageTypeOK
    <3> QED BY <1>0, <2>1, <3>1 DEF R!PCs
  <2> QED BY <1>0, <1>d, <2>1, <2>2 DEF PageTypes, R!RoomPageTypeOK
<1>4. ASSUME NEW u \in Pages, R!Announce(u) PROVE PageTypes'
  <2> DEFINE updated == IF room.stage = "lobby" THEN [room EXCEPT !.stage = "contract"] ELSE room
  <2>0. updated \in R!Rooms
    <3>1. "contract" \in R!Stages
      BY DEF R!Stages
    <3> QED BY <1>0, <3>1, Restaged
  <2>1. UNCHANGED <<viewer, up, outgoing, route, store, calls>> /\ room' = updated
        /\ shaking' = [shaking EXCEPT ![u] = "idle"] /\ copy' = [copy EXCEPT ![u] = None] /\ late' \in BOOLEAN
    BY <1>0, <1>4 DEF R!Announce, R!browser
  <2>2. misled' \subseteq Pages
    BY <1>0, <1>4 DEF R!Announce
  <2>3. copy[u] \in R!Rooms
    BY <1>0, <1>4 DEF R!Announce, PageTypes, R!RoomPageTypeOK
  <2>4. incoming' \in Seq(PageEvents)
    <3>1. copy[u].members[u] \in R!Entry \cup {None}
      BY <2>3, RoomParts
    <3>2. <<"joined", u, copy[u].members[u]>> \in PageEvents
      BY <3>1, Announced
    <3>3. (IF room.stage = "lobby" THEN updated ELSE copy[u]) \in R!Rooms
      BY <2>0, <2>3
    <3>4. <<"state", IF room.stage = "lobby" THEN updated ELSE copy[u]>> \in PageEvents
      BY <3>3, Announced
    <3>5. \/ R!Emit(<<"joined", u, copy[u].members[u]>>) \/ incoming' = incoming
          \/ incoming' = Append(incoming, <<"state", IF room.stage = "lobby" THEN updated ELSE copy[u]>>)
      BY <1>4 DEF R!Announce
    <3> HIDE DEF updated
    <3>6. CASE R!Emit(<<"joined", u, copy[u].members[u]>>)
      BY <1>0, <3>2, <3>6, Emitted
    <3>7. CASE incoming' = Append(incoming, <<"state", IF room.stage = "lobby" THEN updated ELSE copy[u]>>)
      BY <1>0, <3>4, <3>7
    <3> QED BY <1>0, <3>5, <3>6, <3>7
  <2>5. shaking' \in [Pages -> R!PCs] /\ copy' \in [Pages -> R!Rooms \cup {None}]
        /\ \A v \in Pages : (shaking'[v] = "idle") = (copy'[v] = None)
    <3>1. \A v \in Pages : (shaking[v] = "idle") = (copy[v] = None)
      BY DEF PageTypes, R!RoomPageTypeOK
    <3> QED BY <1>0, <2>1, <3>1 DEF R!PCs
  <2> HIDE DEF updated
  <2> QED BY <1>0, <1>d, <2>0, <2>1, <2>2, <2>4, <2>5 DEF PageTypes, R!RoomPageTypeOK
<1>5. ASSUME NEW u \in Pages, R!Disconnect(u) PROVE PageTypes'
  <2>1. UNCHANGED <<viewer, room, shaking, copy, outgoing, route, store, misled, late>> /\ up' = up \ {u}
        /\ calls' \in 0..MaxCalls
    BY <1>5, <1>a DEF R!Disconnect, R!shakes, R!browser, R!history
  <2>2. incoming' \in Seq(PageEvents)
    <3>1. incoming' = <<>> \/ R!Emit(<<"left", u>>)
      BY <1>5 DEF R!Disconnect
    <3>2. <<"left", u>> \in PageEvents
      BY Announced
    <3>3. R!Emit(<<"left", u>>) => incoming' \in Seq(PageEvents)
      BY <1>0, <3>2, Emitted
    <3> QED BY <1>0, <3>1, <3>3
  <2> QED BY <1>0, <1>d, <2>1, <2>2 DEF PageTypes, R!RoomPageTypeOK
<1>6. ASSUME NEW u \in Pages, R!Leave(u) PROVE PageTypes'
  <2>1. UNCHANGED <<viewer, shaking, copy, late>> /\ up' = up \ {u} /\ calls' \in 0..MaxCalls /\ room' = R!Put(u, None)
    BY <1>6, <1>a DEF R!Leave, R!shakes
  <2>2. incoming' \in Seq(PageEvents)
    <3>1. incoming' = <<>> \/ R!Emit(<<"left", u>>)
      BY <1>6 DEF R!Leave
    <3>2. <<"left", u>> \in PageEvents
      BY Announced
    <3>3. R!Emit(<<"left", u>>) => incoming' \in Seq(PageEvents)
      BY <1>0, <3>2, Emitted
    <3> QED BY <1>0, <3>1, <3>3
  <2>3. room' \in R!Rooms
    BY <1>0, <2>1, EntryPut
  <2>4. misled' \subseteq Pages
    BY <1>0, <1>6, MisledTyped DEF R!Leave
  <2>5. route' \in {"room", "home", "join"} /\ store' \in Stores /\ outgoing' \in Messages \cup {None}
    BY <1>0, <1>6 DEF R!Leave, R!browser, PageTypes, R!RoomPageTypeOK
  <2> QED BY <1>0, <1>b, <1>d, <2>1, <2>2, <2>3, <2>4, <2>5 DEF PageTypes, R!RoomPageTypeOK
<1>7. ASSUME NEW u \in Pages, R!Join(u), UNCHANGED outgoing PROVE PageTypes'
  <2>1. UNCHANGED <<viewer, shaking, copy, up, incoming, store, late>> /\ calls' \in 0..MaxCalls
        /\ room' = R!Put(u, [signed |-> None, can |-> u = Host])
    BY <1>7, <1>a DEF R!Join, R!shakes, R!network
  <2>2. room' \in R!Rooms
    <3>1. [signed |-> None, can |-> u = Host] \in R!Entry
      BY DEF R!Entry
    <3> QED BY <1>0, <2>1, <3>1, EntryPut
  <2>3. misled' \subseteq Pages
    <3>1. R!Mislead({u}, IF R!InRoom(u) \/ u \in up THEN {u} ELSE {})
      BY <1>7 DEF R!Join
    <3>2. {u} \in SUBSET Pages /\ (IF R!InRoom(u) \/ u \in up THEN {u} ELSE {}) \in SUBSET Pages
      OBVIOUS
    <3> QED BY <1>0, <3>1, <3>2, MisledTyped
  <2>4. route' \in {"room", "home", "join"}
    BY <1>7 DEF R!Join, PageTypes, R!RoomPageTypeOK
  <2> QED BY <1>0, <1>7, <1>c, <1>d, <2>1, <2>2, <2>3, <2>4 DEF PageTypes, R!RoomPageTypeOK
<1>8. ASSUME R!FromOthers PROVE PageTypes'
  <2>1. calls' \in 0..MaxCalls /\ outgoing' \in Messages \cup {None}
    BY <1>0, <1>8, <1>a DEF R!FromOthers
  <2>2. \E u \in Pages, x \in BOOLEAN : Served(u, x)
    BY <1>0, <1>8 DEF R!FromOthers, Served
  <2> QED BY <2>1, <2>2, ServedTyped
<1>9. ASSUME R!Close PROVE PageTypes'
  <2>1. UNCHANGED <<viewer, shaking, copy, outgoing, route, store>> /\ up' = {} /\ late' = TRUE /\ calls' \in 0..MaxCalls
        /\ room' = [stage |-> "closed", members |-> [u \in Pages |-> None]]
    BY <1>9, <1>a DEF R!Close, R!shakes, R!browser
  <2>2. room' \in R!Rooms
    BY <2>1 DEF R!Rooms, R!Stages, R!Entries
  <2>3. misled' \subseteq Pages /\ incoming' \in Seq(PageEvents)
    <3>1. <<"closed">> \in PageEvents
      BY Announced
    <3>2. R!Mislead(Pages, {}) /\ R!Emit(<<"closed">>)
      BY <1>9 DEF R!Close
    <3> QED BY <1>0, <3>1, <3>2, MisledTyped, Emitted
  <2> QED BY <1>0, <1>c, <1>d, <2>1, <2>2, <2>3 DEF PageTypes, R!RoomPageTypeOK
<1>10. ASSUME R!Begin \/ R!Finish PROVE PageTypes'
  <2>1. UNCHANGED <<viewer, shaking, copy, up, outgoing, route, store, misled>> /\ late' \in BOOLEAN /\ calls' \in 0..MaxCalls
        /\ \/ room' = [room EXCEPT !.stage = "timer"] /\ R!Emit(<<"started">>)
           \/ room' = [room EXCEPT !.stage = "result"] /\ R!Emit(<<"ended">>)
    BY <1>0, <1>10, <1>a DEF R!Begin, R!Finish, R!shakes, R!browser
  <2>2. room' \in R!Rooms
    <3>1. "timer" \in R!Stages /\ "result" \in R!Stages
      BY DEF R!Stages
    <3> QED BY <1>0, <2>1, <3>1, Restaged
  <2>3. incoming' \in Seq(PageEvents)
    <3>1. <<"started">> \in PageEvents /\ <<"ended">> \in PageEvents
      BY Announced
    <3> QED BY <1>0, <2>1, <3>1, Emitted
  <2> QED BY <1>0, <1>c, <1>d, <2>1, <2>2, <2>3 DEF PageTypes, R!RoomPageTypeOK
<1>11. ASSUME R!SignToggle \/ R!Manage PROVE PageTypes'
  <2>1. PICK m \in Messages : R!Send(m)
    <3>1. CASE R!SignToggle
      <4> DEFINE x == ~(viewer \in R!Listed /\ R!Signs(store.members[viewer]))
      <4>1. x \in BOOLEAN
        OBVIOUS
      <4> HIDE DEF x
      <4>2. <<"sign", viewer, x>> \in Messages
        BY <4>1 DEF Messages
      <4> QED BY <3>1, <4>2 DEF R!SignToggle, x
    <3>2. CASE R!Manage
      <4>1. \A u \in Pages : (~store.members[u].can) \in BOOLEAN
        OBVIOUS
      <4>2. \A u \in Pages, x \in BOOLEAN : <<"edit", u, x>> \in Messages
        BY DEF Messages
      <4>3. \A u \in Pages : <<"kick", u>> \in Messages
        BY DEF Messages
      <4>4. \A x \in BOOLEAN : <<"edit_all", x>> \in Messages
        BY DEF Messages
      <4>5. (~R!AllMayEdit) \in BOOLEAN /\ R!Listed \subseteq Pages
        BY DEF R!Listed
      <4>6. \/ \E u \in R!Listed \ {viewer} : R!Send(<<"edit", u, ~store.members[u].can>>) \/ R!Send(<<"kick", u>>)
            \/ R!Send(<<"edit_all", ~R!AllMayEdit>>)
        BY <3>2 DEF R!Manage
      <4> QED BY <4>1, <4>2, <4>3, <4>4, <4>5, <4>6
    <3> QED BY <1>11, <3>1, <3>2
  <2>2. UNCHANGED <<viewer, room, shaking, copy, up, incoming, route, store, misled, late>>
        /\ outgoing' \in Messages /\ calls' \in 0..MaxCalls
    BY <1>a, <2>1 DEF R!Send, R!shakes, R!browser, R!history
  <2> QED BY <1>0, <1>c, <1>d, <2>2 DEF PageTypes, R!RoomPageTypeOK
<1>12. ASSUME R!Serve PROVE PageTypes'
  <2>1. calls' \in 0..MaxCalls /\ outgoing' \in Messages \cup {None}
    BY <1>0, <1>12 DEF R!Serve
  <2>2. \E u \in Pages, x \in BOOLEAN : Served(u, x)
    <3>1. outgoing \in Messages
      BY <1>0, <1>12 DEF R!Serve
    <3>2. CASE outgoing \in {"sign"} \X {viewer} \X BOOLEAN
      BY <1>0, <1>12, <3>2 DEF R!Serve, Served
    <3>3. CASE outgoing \in {"edit"} \X Pages \X BOOLEAN
      BY <1>0, <1>12, <3>3 DEF R!Serve, Served
    <3>4. CASE outgoing \in {"edit_all"} \X BOOLEAN
      BY <1>0, <1>12, <3>4 DEF R!Serve, Served
    <3>5. CASE outgoing \in {"kick"} \X Pages
      BY <1>0, <1>12, <3>5 DEF R!Serve, Served
    <3> QED BY <3>1, <3>2, <3>3, <3>4, <3>5 DEF Messages
  <2> QED BY <2>1, <2>2, ServedTyped
<1>13. ASSUME R!SendLost PROVE PageTypes'
  <2>1. UNCHANGED <<viewer, room, shaking, copy, up, incoming, route, store, misled, late, calls>> /\ outgoing' = None
    BY <1>13 DEF R!SendLost, R!shakes, R!browser, R!history
  <2> QED BY <1>0, <1>c, <1>d, <2>1 DEF PageTypes, R!RoomPageTypeOK
<1>14. ASSUME R!Receive PROVE PageTypes'
  <2>1. UNCHANGED <<viewer, room, shaking, copy, misled, late, calls>>
    BY <1>14 DEF R!Receive, R!shakes, R!history
  <2>2. up' \subseteq Pages /\ outgoing' \in Messages \cup {None} /\ route' \in {"room", "home", "join"}
    BY <1>0, <1>14 DEF R!Receive, PageTypes, R!RoomPageTypeOK
  <2>3. incoming' \in Seq(PageEvents)
    <3>1. incoming # <<>> /\ (incoming' = <<>> \/ incoming' = Tail(incoming))
      BY <1>14 DEF R!Receive
    <3>2. incoming \in Seq(PageEvents) /\ <<>> \in Seq(PageEvents)
      BY <1>0
    <3>3. Tail(incoming) \in Seq(PageEvents)
      BY <3>1, <3>2
    <3> QED BY <3>1, <3>2, <3>3, Zenon
  <2>4. store' \in Stores
    <3>1. CASE Head(incoming)[1] \in {"closed", "kicked"}
      BY <1>0, <1>14, <3>1 DEF R!Receive
    <3>2. CASE Head(incoming)[1] \notin {"closed", "kicked"}
      <4>1. Head(incoming) \in PageEvents
        BY <1>0, <1>14 DEF R!Receive
      <4>2. store' = R!Applied(Head(incoming))
        BY <1>14, <3>2 DEF R!Receive
      <4>3. R!Applied(Head(incoming)) = ApplyTo(store, Head(incoming))
        BY <1>0, <3>2, <4>1, AppliedIs
      <4> QED BY <1>0, <4>1, <4>2, <4>3, ApplyTyped
    <3> QED BY <3>1, <3>2
  <2> QED BY <1>0, <1>b, <1>d, <2>1, <2>2, <2>3, <2>4 DEF PageTypes, R!RoomPageTypeOK
<1>15. ASSUME UNCHANGED R!page PROVE PageTypes'
  <2>1. UNCHANGED <<viewer, room, shaking, copy, up, incoming, outgoing, route, store, misled, late, calls>>
    BY <1>15 DEF R!page, R!shakes, R!network, R!browser, R!history
  <2> QED BY <1>0, <1>d, <2>1 DEF PageTypes, R!RoomPageTypeOK
<1> QED BY <1>1, <1>2, <1>3, <1>4, <1>5, <1>6, <1>7, <1>8, <1>9, <1>10, <1>11, <1>12, <1>13, <1>14, <1>15 DEF R!Next

-----------------------------------------------------------------------------
(* What the page shows, user by user *)

LEMMA OneChanges ==
  ASSUME NEW st, NEW st2, NEW v \in Pages, Shows(st), misled \subseteq misled', late' = late,
         st.phase = room.stage => st2.phase = room'.stage,
         \A u \in Pages \ {v} : u \notin misled' =>
            /\ st2.members[u] = st.members[u] /\ room'.members[u] = room.members[u]
            /\ u \in up' /\ shaking'[u] = "idle" => u \in up /\ shaking[u] = "idle",
         v \notin misled' => ShowsOf(st2, v)'
  PROVE  Shows(st2)'
<1>1. ~late' => st2.phase = room'.stage
  BY DEF Shows
<1>2. ASSUME NEW u \in Pages \ misled' PROVE ShowsOf(st2, u)'
  <2>1. CASE u = v
    BY <1>2, <2>1
  <2>2. CASE u # v
    <3>1. ShowsOf(st, u)
      BY <1>2 DEF Shows
    <3> QED BY <1>2, <2>2, <3>1 DEF ShowsOf, R!Signs
  <2> QED BY <2>1, <2>2
<1> QED BY <1>1, <1>2 DEF Shows

\* Who is in the room, connected and not misled is shown.
LEMMA EntryShown ==
  ASSUME NEW st \in Stores, Shows(st), NEW u \in Pages \ misled
  PROVE  /\ ShowsOf(st, u)
         /\ st.members[u] # None =>
              /\ room.members[u] # None /\ st.members[u].can = room.members[u].can
              /\ (st.members[u].signed = TRUE) = (room.members[u].signed = TRUE)
         /\ R!InRoom(u) /\ u \in up /\ shaking[u] = "idle" => st.members[u] # None
  BY DEF Shows, ShowsOf, R!Signs, R!InRoom

LEMMA SignKeeps ==
  ASSUME PageTypes, OnTheWay, NEW u \in up, NEW x \in BOOLEAN, R!Sign(u, x)
  PROVE  OnTheWay'
<1>0. room \in R!Rooms /\ incoming \in Seq(PageEvents) /\ u \in Pages /\ misled \subseteq Pages
  BY DEF PageTypes, R!RoomPageTypeOK
<1>1. CASE ~R!InRoom(u) \/ room.stage \notin R!Open
  <2>1. UNCHANGED <<viewer, room, shaking, up, incoming, store, misled, late>>
    BY <1>1 DEF R!Sign, R!Refuse, R!shakes, R!browser, R!history
  <2> QED BY <2>1 DEF OnTheWay, Shows, ShowsOf, R!Signs
<1>2. CASE R!InRoom(u) /\ room.stage \in R!Open
  <2> DEFINE e == <<"signed", u, x>>
             new == [room.members[u] EXCEPT !.signed = x]
  <2>1. /\ room' = [room EXCEPT !.members[u].signed = x] /\ R!Emit(e) /\ R!Mislead({u}, {})
        /\ UNCHANGED <<viewer, shaking, up, store, late>>
    BY <1>2 DEF R!Sign, R!Change, R!shakes, R!browser
  <2>2. /\ [room EXCEPT !.members[u].signed = x] = R!Put(u, new) /\ new \in R!Entry
        /\ new.signed = x /\ new.can = room.members[u].can
    BY <1>0, <1>2, SignPut
  <2>3. /\ room'.stage = room.stage /\ room'.members[u] = new
        /\ \A v \in Pages \ {u} : room'.members[v] = room.members[v]
    <3> HIDE DEF new
    <3>1. room' = R!Put(u, new) /\ new \in R!Entry \cup {None}
      BY <2>1, <2>2
    <3> QED BY <1>0, <3>1, EntryPut
  <2>4. misled \subseteq misled' /\ (shaking[u] # "idle" => u \in misled')
    BY <1>0, <2>1, MisledTyped
  <2>5. ASSUME NEW st \in Stores, Shows(st) PROVE Shows(ApplyTo(st, e))'
    <3> DEFINE st2 == UpsertIn(st, u, x, None)
    <3>1. ApplyTo(st, e) = st2
      BY DEF ApplyTo
    <3>2. /\ st2.phase = st.phase /\ \A v \in Pages \ {u} : st2.members[v] = st.members[v]
          /\ st.members[u] # None => st2.members[u] = [signed |-> x, can |-> st.members[u].can]
      <4>1. x # None
        BY PageGiven DEF R!NoOneAssumption
      <4>2. st2.phase = st.phase /\ \A v \in Pages \ {u} : st2.members[v] = st.members[v]
        BY <1>0, <2>5, Upserted
      <4>3. st2.members[u] = Entered(st.members[u], x, None)
        BY <1>0, <2>5, Upserted
      <4> QED BY <4>1, <4>2, <4>3 DEF Entered
    <3>3. u \notin misled' => ShowsOf(st2, u)'
      <4> SUFFICES ASSUME u \notin misled' PROVE ShowsOf(st2, u)'
        OBVIOUS
      <4>1. st.members[u] # None /\ st.members[u].can = room.members[u].can
        BY <1>0, <1>2, <2>4, <2>5, EntryShown
      <4>2. st2.members[u] = [signed |-> x, can |-> room.members[u].can]
        BY <3>2, <4>1
      <4>3. new # None /\ st2.members[u] # None
        <5>1. [signed |-> x, can |-> room.members[u].can] \in R!Entry
          BY <1>0, <1>2, RoomParts DEF R!Entry, R!InRoom
        <5> QED BY <2>2, <4>2, <5>1, PageGiven DEF R!NoOneAssumption
      <4>4. PICK y : y = st2
        OBVIOUS
      <4>5. ShowsOf(y, u)'
        BY <2>2, <2>3, <4>2, <4>3, <4>4 DEF ShowsOf, R!Signs
      <4> QED BY <4>4, <4>5
    <3> HIDE DEF st2, e
    <3>4. PICK y : y = st2
      OBVIOUS
    <3>5. Shows(y)'
      BY <1>0, <2>1, <2>3, <2>4, <2>5, <3>2, <3>3, <3>4, OneChanges
    <3> QED BY <3>1, <3>4, <3>5
  <2>6. CASE viewer \in up /\ shaking[viewer] = "idle"
    <3>1. incoming' = Append(incoming, e) /\ e \in PageEvents
      BY <1>0, <2>1, <2>6, Announced DEF R!Emit
    <3> HIDE DEF e
    <3> QED BY <1>0, <2>1, <2>5, <2>6, <3>1, Told
  <2>7. CASE ~(viewer \in up /\ shaking[viewer] = "idle")
    BY <2>1, <2>7 DEF OnTheWay
  <2> QED BY <2>6, <2>7
<1> QED BY <1>1, <1>2
\* What is sent to everybody in the room reaches the page if it is there.
LEMMA SentAway ==
  ASSUME incoming \in Seq(PageEvents), OnTheWay, NEW e \in PageEvents, R!Emit(e), viewer' = viewer, store' = store,
         viewer \in up' /\ shaking'[viewer] = "idle" => viewer \in up /\ shaking[viewer] = "idle",
         viewer \in up /\ shaking[viewer] = "idle" =>
           \A st \in Stores : Shows(st) => Shows(ApplyTo(st, e))'
  PROVE  OnTheWay'
<1>1. CASE viewer \in up /\ shaking[viewer] = "idle"
  <2>1. incoming' = Append(incoming, e)
    BY <1>1 DEF R!Emit
  <2> QED BY <1>1, <2>1, Told
<1>2. CASE ~(viewer \in up /\ shaking[viewer] = "idle")
  BY <1>2 DEF OnTheWay
<1> QED BY <1>1, <1>2

LEMMA EditKeeps ==
  ASSUME PageTypes, OnTheWay, NEW u \in Pages, NEW x \in BOOLEAN, R!EditMember(u, x)
  PROVE  OnTheWay'
<1>0. room \in R!Rooms /\ incoming \in Seq(PageEvents) /\ misled \subseteq Pages
  BY DEF PageTypes, R!RoomPageTypeOK
<1>1. CASE ~R!InRoom(u)
  <2>1. UNCHANGED <<viewer, room, shaking, up, incoming, store, misled, late>>
    BY <1>1 DEF R!EditMember, R!Refuse, R!shakes, R!browser, R!history
  <2> QED BY <2>1 DEF OnTheWay, Shows, ShowsOf, R!Signs
<1>2. CASE R!InRoom(u)
  <2> DEFINE e == <<"edit", u, x>>
             new == [room.members[u] EXCEPT !.can = x]
  <2>1. /\ room' = [room EXCEPT !.members[u].can = x] /\ R!Emit(e) /\ R!Mislead({u}, {u} \ up)
        /\ UNCHANGED <<viewer, shaking, up, store, late>>
    BY <1>2 DEF R!EditMember, R!Change, R!shakes, R!browser
  <2>2. /\ [room EXCEPT !.members[u].can = x] = R!Put(u, new) /\ new \in R!Entry
        /\ new.can = x /\ new.signed = room.members[u].signed
    BY <1>0, <1>2, EditPut
  <2>3. /\ room'.stage = room.stage /\ room'.members[u] = new
        /\ \A v \in Pages \ {u} : room'.members[v] = room.members[v]
    <3> HIDE DEF new
    <3>1. room' = R!Put(u, new) /\ new \in R!Entry \cup {None}
      BY <2>1, <2>2
    <3> QED BY <1>0, <3>1, EntryPut
  <2>4. misled \subseteq misled' /\ (shaking[u] # "idle" \/ u \notin up => u \in misled')
    <3>1. {u} \in SUBSET Pages /\ {u} \ up \in SUBSET Pages
      OBVIOUS
    <3>2. /\ misled \subseteq misled' /\ {u} \ up \subseteq misled'
          /\ \A v \in {u} : shaking[viewer] # "idle" \/ shaking[v] # "idle" => v \in misled'
      BY <1>0, <2>1, <3>1, MisledTyped
    <3> QED BY <3>2
  <2>5. ASSUME NEW st \in Stores, Shows(st) PROVE Shows(ApplyTo(st, e))'
    <3> DEFINE st2 == UpsertIn(st, u, None, x)
    <3>1. ApplyTo(st, e) = st2
      BY DEF ApplyTo
    <3>2. /\ st2.phase = st.phase /\ \A v \in Pages \ {u} : st2.members[v] = st.members[v]
          /\ st.members[u] # None => st2.members[u] = [signed |-> st.members[u].signed, can |-> x]
      <4>1. x # None
        BY PageGiven DEF R!NoOneAssumption
      <4>2. st2.phase = st.phase /\ \A v \in Pages \ {u} : st2.members[v] = st.members[v]
        <5>1. x \in BOOLEAN \cup {None} /\ None \in BOOLEAN \cup {None}
          OBVIOUS
        <5> QED BY <2>5, <5>1, Upserted, SMTT(30)
      <4>3. st2.members[u] = Entered(st.members[u], None, x)
        <5>1. x \in BOOLEAN \cup {None} /\ None \in BOOLEAN \cup {None}
          OBVIOUS
        <5> QED BY <2>5, <5>1, Upserted
      <4> QED BY <4>1, <4>2, <4>3 DEF Entered
    <3>3. u \notin misled' => ShowsOf(st2, u)'
      <4> SUFFICES ASSUME u \notin misled' PROVE ShowsOf(st2, u)'
        OBVIOUS
      <4>1. st.members[u] # None /\ (st.members[u].signed = TRUE) = (room.members[u].signed = TRUE)
            /\ st.members[u] \in R!Entry
        BY <1>0, <1>2, <2>4, <2>5, EntryShown, StoreParts
      <4>2. st2.members[u] = [signed |-> st.members[u].signed, can |-> x]
        BY <3>2, <4>1
      <4>3. new # None /\ st2.members[u] # None
        <5>1. [signed |-> st.members[u].signed, can |-> x] \in R!Entry
          BY <4>1 DEF R!Entry
        <5> QED BY <2>2, <4>2, <5>1, PageGiven DEF R!NoOneAssumption
      <4>4. PICK y : y = st2
        OBVIOUS
      <4>5. ShowsOf(y, u)'
        BY <2>2, <2>3, <4>1, <4>2, <4>3, <4>4 DEF ShowsOf, R!Signs
      <4> QED BY <4>4, <4>5
    <3> HIDE DEF st2, e
    <3>4. PICK y : y = st2
      OBVIOUS
    <3>5. Shows(y)'
      BY <1>0, <2>1, <2>3, <2>4, <2>5, <3>2, <3>3, <3>4, OneChanges
    <3> QED BY <3>1, <3>4, <3>5
  <2>6. e \in PageEvents
    BY Announced
  <2> HIDE DEF e
  <2> QED BY <1>0, <2>1, <2>5, <2>6, SentAway
<1> QED BY <1>1, <1>2

\* A change of everybody's entry that the page follows for each.
LEMMA AllChange ==
  ASSUME NEW st, NEW st2, Shows(st), misled \subseteq misled', late' = late,
         st.phase = room.stage => st2.phase = room'.stage,
         \A u \in Pages : u \notin misled' => ShowsOf(st2, u)'
  PROVE  Shows(st2)'
  BY DEF Shows

LEMMA ResetKeeps ==
  ASSUME PageTypes, OnTheWay, R!Edited
  PROVE  OnTheWay'
<1>0. room \in R!Rooms /\ incoming \in Seq(PageEvents) /\ misled \subseteq Pages
  BY DEF PageTypes, R!RoomPageTypeOK
<1> DEFINE signs == \E v \in Pages : R!InRoom(v) /\ R!Signs(room.members[v])
<1>1. CASE room.stage \notin R!Open \/ ~signs
  <2>1. UNCHANGED <<viewer, room, shaking, up, incoming, store, misled, late>>
    BY <1>1 DEF R!Edited, R!Refuse, R!shakes, R!browser, R!history
  <2> QED BY <2>1 DEF OnTheWay, Shows, ShowsOf, R!Signs
<1>2. CASE room.stage \in R!Open /\ signs
  <2> DEFINE e == <<"reset">>
  <2>1. /\ room' = [room EXCEPT !.members = ResetMembers] /\ R!Emit(e) /\ R!Mislead({v \in Pages : R!InRoom(v)}, {})
        /\ UNCHANGED <<viewer, shaking, up, store, late>>
    BY <1>2 DEF R!Edited, R!Change, R!shakes, R!browser, ResetMembers
  <2>2. /\ room'.stage = room.stage
        /\ \A v \in Pages : R!InRoom(v) => /\ room'.members[v] # None /\ room'.members[v].signed = FALSE
                                           /\ room'.members[v].can = room.members[v].can
        /\ \A v \in Pages : ~R!InRoom(v) => room'.members[v] = None
    <3>1. room'.stage = room.stage /\ room'.members = ResetMembers
      BY <1>0, <2>1, ResetTyped, Remembered
    <3>2. \A v \in Pages : R!InRoom(v) => ResetMembers[v] # None /\ ResetMembers[v].signed = FALSE
                                        /\ ResetMembers[v].can = room.members[v].can
      BY <1>0, ResetTyped
    <3>3. \A v \in Pages : ~R!InRoom(v) => ResetMembers[v] = None
      BY DEF ResetMembers
    <3> QED BY <3>1, <3>2, <3>3
  <2>3. misled \subseteq misled'
    <3>1. {v \in Pages : R!InRoom(v)} \in SUBSET Pages /\ {} \in SUBSET Pages
      OBVIOUS
    <3> HIDE DEF e
    <3> QED BY <1>0, <2>1, <3>1, MisledTyped
  <2>4. ASSUME NEW st \in Stores, Shows(st) PROVE Shows(ApplyTo(st, e))'
    <3>1. PICK y : y = ApplyTo(st, e)
      OBVIOUS
    <3>2. /\ y.phase = st.phase
          /\ \A u \in Pages : y.members[u] =
               IF st.members[u] # None THEN [st.members[u] EXCEPT !.signed = FALSE] ELSE None
      BY <2>4, <3>1, AllReset
    <3>3. ASSUME NEW u \in Pages, u \notin misled' PROVE ShowsOf(y, u)'
      <4>1. u \in Pages \ misled
        BY <2>3, <3>3
      <4>2. ShowsOf(st, u)
        BY <2>4, <4>1 DEF Shows
      <4>3. CASE st.members[u] = None
        BY <2>1, <2>2, <3>2, <3>3, <4>2, <4>3 DEF ShowsOf, R!InRoom
      <4>4. CASE st.members[u] # None
        <5>1. st.members[u] \in R!Entry /\ R!InRoom(u) /\ st.members[u].can = room.members[u].can
          BY <2>4, <3>3, <4>2, <4>4, StoreParts DEF ShowsOf, R!InRoom
        <5>2. y.members[u] = [st.members[u] EXCEPT !.signed = FALSE]
          BY <3>2, <3>3, <4>4
        <5>3. y.members[u] \in R!Entry /\ y.members[u].signed = FALSE /\ y.members[u].can = st.members[u].can
          BY <5>1, <5>2 DEF R!Entry
        <5>4. y.members[u] # None
          BY <5>3, PageGiven DEF R!NoOneAssumption
        <5> QED BY <2>2, <3>3, <5>1, <5>3, <5>4 DEF ShowsOf, R!Signs
      <4> QED BY <4>3, <4>4
    <3>4. Shows(y)'
      BY <2>1, <2>2, <2>3, <2>4, <3>2, <3>3, AllChange
    <3> QED BY <3>1, <3>4
  <2>5. e \in PageEvents
    BY Announced
  <2> HIDE DEF e
  <2> QED BY <1>0, <2>1, <2>4, <2>5, SentAway
<1> QED BY <1>1, <1>2

LEMMA EditAllKeeps ==
  ASSUME PageTypes, OnTheWay, NEW x \in BOOLEAN, R!EditAll(x)
  PROVE  OnTheWay'
<1>0. room \in R!Rooms /\ incoming \in Seq(PageEvents) /\ misled \subseteq Pages
  BY DEF PageTypes, R!RoomPageTypeOK
<1>1. CASE room.stage = "closed"
  <2>1. UNCHANGED <<viewer, room, shaking, up, incoming, store, misled, late>>
    BY <1>1 DEF R!EditAll, R!Refuse, R!shakes, R!browser, R!history
  <2> QED BY <2>1 DEF OnTheWay, Shows, ShowsOf, R!Signs
<1>2. CASE room.stage # "closed"
  <2> DEFINE e == <<"edit_all", x>>
  <2>1. /\ room' = [room EXCEPT !.members = EditMembers(x)] /\ R!Emit(e) /\ R!Mislead({v \in Pages : R!InRoom(v)}, {})
        /\ UNCHANGED <<viewer, shaking, up, store, late>>
    BY <1>2 DEF R!EditAll, R!Change, R!shakes, R!browser, EditMembers
  <2>2. /\ room'.stage = room.stage
        /\ \A v \in Pages : R!InRoom(v) /\ v # Host => /\ room'.members[v] # None /\ room'.members[v].can = x
                                                       /\ room'.members[v].signed = room.members[v].signed
        /\ \A v \in Pages : ~(R!InRoom(v) /\ v # Host) => room'.members[v] = room.members[v]
    <3>1. room'.stage = room.stage /\ room'.members = EditMembers(x)
      BY <1>0, <2>1, EditTyped, Remembered
    <3>2. /\ \A v \in Pages : R!InRoom(v) /\ v # Host => /\ EditMembers(x)[v] # None /\ EditMembers(x)[v].can = x
                                                         /\ EditMembers(x)[v].signed = room.members[v].signed
          /\ \A v \in Pages : ~(R!InRoom(v) /\ v # Host) => EditMembers(x)[v] = room.members[v]
      BY <1>0, EditTyped
    <3> QED BY <3>1, <3>2
  <2>3. misled \subseteq misled'
    <3>1. {v \in Pages : R!InRoom(v)} \in SUBSET Pages /\ {} \in SUBSET Pages
      OBVIOUS
    <3> HIDE DEF e
    <3> QED BY <1>0, <2>1, <3>1, MisledTyped
  <2>4. ASSUME NEW st \in Stores, Shows(st) PROVE Shows(ApplyTo(st, e))'
    <3>1. PICK y : y = ApplyTo(st, e)
      OBVIOUS
    <3>2. /\ y.phase = st.phase
          /\ \A u \in Pages : y.members[u] =
               IF st.members[u] # None /\ u # Host THEN [st.members[u] EXCEPT !.can = x] ELSE st.members[u]
      BY <2>4, <3>1, AllEdited
    <3>3. ASSUME NEW u \in Pages, u \notin misled' PROVE ShowsOf(y, u)'
      <4>1. u \in Pages \ misled
        BY <2>3, <3>3
      <4>2. ShowsOf(st, u)
        BY <2>4, <4>1 DEF Shows
      <4>3. CASE ~(st.members[u] # None /\ u # Host)
        <5>1. y.members[u] = st.members[u]
          BY <3>2, <3>3, <4>3
        <5>2. CASE u = Host
          BY <2>1, <2>2, <3>3, <4>2, <5>1, <5>2 DEF ShowsOf, R!Signs
        <5>3. CASE st.members[u] = None
          BY <2>1, <2>2, <3>3, <4>2, <5>1, <5>3 DEF ShowsOf, R!InRoom
        <5> QED BY <4>3, <5>2, <5>3
      <4>4. CASE st.members[u] # None /\ u # Host
        <5>1. st.members[u] \in R!Entry /\ R!InRoom(u) /\ R!Signs(st.members[u]) = R!Signs(room.members[u])
          BY <2>4, <3>3, <4>2, <4>4, StoreParts DEF ShowsOf, R!InRoom
        <5>2. y.members[u] = [st.members[u] EXCEPT !.can = x]
          BY <3>2, <3>3, <4>4
        <5>3. y.members[u] \in R!Entry /\ y.members[u].can = x /\ y.members[u].signed = st.members[u].signed
          BY <5>1, <5>2 DEF R!Entry
        <5>4. y.members[u] # None
          BY <5>3, PageGiven DEF R!NoOneAssumption
        <5> QED BY <2>2, <3>3, <4>4, <5>1, <5>3, <5>4 DEF ShowsOf, R!Signs
      <4> QED BY <4>3, <4>4
    <3>4. Shows(y)'
      BY <2>1, <2>2, <2>3, <2>4, <3>2, <3>3, AllChange
    <3> QED BY <3>1, <3>4
  <2>5. e \in PageEvents
    BY Announced
  <2> HIDE DEF e
  <2> QED BY <1>0, <2>1, <2>4, <2>5, SentAway
<1> QED BY <1>1, <1>2
\* Whoever is taken off the list is shown right if out of the room, or not connected.
LEMMA Dropped ==
  ASSUME NEW st \in Stores, NEW st2, NEW v \in Pages, Shows(st), misled \subseteq misled', late' = late,
         st2 = [st EXCEPT !.members[v] = None], room'.stage = room.stage,
         \A u \in Pages \ {v} : room'.members[u] = room.members[u],
         up' \subseteq up, shaking' = shaking, v \notin up'
  PROVE  Shows(st2)'
<1>1. /\ st2.phase = st.phase /\ st2.members[v] = None
      /\ \A u \in Pages \ {v} : st2.members[u] = st.members[u]
  BY EntryReplaced
<1>2. ShowsOf(st2, v)'
  BY <1>1 DEF ShowsOf
<1> QED BY <1>1, <1>2, OneChanges

LEMMA KickKeeps ==
  ASSUME PageTypes, OnTheWay, NEW u \in Pages, R!Kick(u)
  PROVE  OnTheWay'
<1>0. room \in R!Rooms /\ incoming \in Seq(PageEvents) /\ misled \subseteq Pages
  BY DEF PageTypes, R!RoomPageTypeOK
<1>1. /\ room' = R!Put(u, None) /\ up' = up \ {u} /\ UNCHANGED <<viewer, shaking, store, late>>
      /\ R!Mislead({u}, IF u \in up THEN {} ELSE {u})
  BY DEF R!Kick, R!shakes, R!browser
<1>2. room'.stage = room.stage /\ \A v \in Pages \ {u} : room'.members[v] = room.members[v]
  BY <1>0, <1>1, EntryPut
<1>3. misled \subseteq misled' /\ (u \notin up => u \in misled')
  BY <1>1 DEF R!Mislead
<1>4. CASE u \notin up
  <2>1. incoming' = incoming
    BY <1>4 DEF R!Kick, R!Emit
  <2>2. ASSUME NEW st \in Stores, Shows(st) PROVE Shows(st)'
    BY <1>1, <1>2, <1>3, <1>4, <2>2, OneChanges
  <2> QED BY <1>1, <2>1, <2>2, Untold
<1>5. CASE u = viewer
  BY <1>1, <1>5 DEF OnTheWay
<1>6. CASE u \in up /\ u # viewer
  <2> DEFINE e == <<"out", u>>
  <2>1. R!Emit(e)
    BY <1>6 DEF R!Kick
  <2>2. e \in PageEvents
    BY Announced
  <2>3. ASSUME NEW st \in Stores, Shows(st) PROVE Shows(ApplyTo(st, e))'
    <3>1. PICK y : y = ApplyTo(st, e)
      OBVIOUS
    <3>2. y = [st EXCEPT !.members[u] = None]
      BY <3>1 DEF ApplyTo
    <3>3. Shows(y)'
      BY <1>1, <1>2, <1>3, <2>3, <3>2, Dropped
    <3> QED BY <3>1, <3>3
  <2> HIDE DEF e
  <2> QED BY <1>0, <1>1, <2>1, <2>2, <2>3, SentAway
<1> QED BY <1>4, <1>5, <1>6

LEMMA DisconnectKeeps ==
  ASSUME PageTypes, OnTheWay, NEW u \in Pages, R!Disconnect(u)
  PROVE  OnTheWay'
<1>0. incoming \in Seq(PageEvents)
  BY DEF PageTypes
<1>1. up' = up \ {u} /\ UNCHANGED <<viewer, room, shaking, store, misled, late>>
  BY DEF R!Disconnect, R!shakes, R!browser, R!history
<1>2. CASE u = viewer
  BY <1>1, <1>2 DEF OnTheWay
<1>3. CASE u # viewer
  <2> DEFINE e == <<"left", u>>
  <2>1. R!Emit(e)
    BY <1>3 DEF R!Disconnect
  <2>2. e \in PageEvents
    BY Announced
  <2>3. ASSUME NEW st \in Stores, Shows(st) PROVE Shows(ApplyTo(st, e))'
    <3>1. PICK y : y = ApplyTo(st, e)
      OBVIOUS
    <3>2. y = [st EXCEPT !.members[u] = None]
      BY <3>1 DEF ApplyTo
    <3>3. Shows(y)'
      BY <1>1, <2>3, <3>2, Dropped
    <3> QED BY <3>1, <3>3
  <2> HIDE DEF e
  <2> QED BY <1>0, <1>1, <2>1, <2>2, <2>3, SentAway
<1> QED BY <1>2, <1>3

LEMMA LeaveKeeps ==
  ASSUME PageTypes, OnTheWay, NEW u \in Pages, R!Leave(u)
  PROVE  OnTheWay'
<1>0. room \in R!Rooms /\ incoming \in Seq(PageEvents)
  BY DEF PageTypes, R!RoomPageTypeOK
<1>1. room' = R!Put(u, None) /\ up' = up \ {u} /\ UNCHANGED <<viewer, shaking, late>> /\ misled \subseteq misled'
  BY DEF R!Leave, R!shakes, R!Mislead
<1>2. CASE u = viewer
  BY <1>1, <1>2 DEF OnTheWay
<1>3. CASE u # viewer
  <2> DEFINE e == <<"left", u>>
  <2>1. R!Emit(e) /\ store' = store
    BY <1>3 DEF R!Leave, R!browser
  <2>2. e \in PageEvents
    BY Announced
  <2>3. ASSUME NEW st \in Stores, Shows(st) PROVE Shows(ApplyTo(st, e))'
    <3>1. PICK y : y = ApplyTo(st, e)
      OBVIOUS
    <3>2. y = [st EXCEPT !.members[u] = None]
      BY <3>1 DEF ApplyTo
    <3>3. room'.stage = room.stage /\ \A v \in Pages \ {u} : room'.members[v] = room.members[v]
      BY <1>0, <1>1, EntryPut
    <3>4. Shows(y)'
      BY <1>1, <2>3, <3>2, <3>3, Dropped
    <3> QED BY <3>1, <3>4
  <2> HIDE DEF e
  <2> QED BY <1>0, <1>1, <2>1, <2>2, <2>3, SentAway
<1> QED BY <1>2, <1>3

LEMMA JoinKeeps ==
  ASSUME PageTypes, OnTheWay, NEW u \in Pages, R!Join(u)
  PROVE  OnTheWay'
<1> DEFINE new == [signed |-> None, can |-> u = Host]
<1>0. room \in R!Rooms
  BY DEF PageTypes, R!RoomPageTypeOK
<1>1. /\ room' = R!Put(u, new) /\ UNCHANGED <<viewer, shaking, up, incoming, store, late>>
      /\ misled \subseteq misled' /\ (R!InRoom(u) \/ u \in up => u \in misled')
  BY DEF R!Join, R!shakes, R!network, R!Mislead
<1>2. room'.stage = room.stage /\ \A v \in Pages \ {u} : room'.members[v] = room.members[v]
  <2>1. new \in R!Entry \cup {None}
    BY DEF R!Entry
  <2> QED BY <1>0, <1>1, <2>1, EntryPut
<1>3. ASSUME NEW st \in Stores, Shows(st) PROVE Shows(st)'
  <2>1. u \notin misled' => ShowsOf(st, u)'
    <3> SUFFICES ASSUME u \notin misled' PROVE ShowsOf(st, u)'
      OBVIOUS
    <3>1. u \notin up /\ ~R!InRoom(u) /\ u \notin misled
      BY <1>1
    <3>2. st.members[u] = None
      BY <1>3, <3>1, EntryShown DEF R!InRoom
    <3> QED BY <1>1, <3>1, <3>2 DEF ShowsOf
  <2> QED BY <1>1, <1>2, <1>3, <2>1, OneChanges
<1> QED BY <1>1, <1>3, Untold

LEMMA StageKeeps ==
  ASSUME PageTypes, OnTheWay, R!Begin \/ R!Finish
  PROVE  OnTheWay'
<1>0. room \in R!Rooms /\ incoming \in Seq(PageEvents)
  BY DEF PageTypes, R!RoomPageTypeOK
<1>1. PICK x \in {"timer", "result"}, e \in PageEvents :
        /\ room' = [room EXCEPT !.stage = x] /\ R!Emit(e)
        /\ \A st \in Stores : ApplyTo(st, e) = [st EXCEPT !.phase = x]
  <2>1. <<"started">> \in PageEvents /\ <<"ended">> \in PageEvents
    BY Announced
  <2>2. \A st \in Stores : ApplyTo(st, <<"started">>) = [st EXCEPT !.phase = "timer"]
    BY DEF ApplyTo
  <2>3. \A st \in Stores : ApplyTo(st, <<"ended">>) = [st EXCEPT !.phase = "result"]
    BY DEF ApplyTo
  <2> QED BY <2>1, <2>2, <2>3 DEF R!Begin, R!Finish
<1>2. UNCHANGED <<viewer, shaking, up, store, misled>> /\ (shaking[viewer] = "idle" => late' = late)
  BY DEF R!Begin, R!Finish, R!shakes, R!browser, PageTypes, R!RoomPageTypeOK
<1>3. x \in R!Stages /\ room'.stage = x /\ room'.members = room.members
  BY <1>0, <1>1, Restaged DEF R!Stages
<1>4. ASSUME shaking[viewer] = "idle", NEW st \in Stores, Shows(st) PROVE Shows(ApplyTo(st, e))'
  <2>1. PICK y : y = ApplyTo(st, e)
    OBVIOUS
  <2>2. y.phase = x /\ y.members = st.members
    BY <1>1, <1>4, <2>1 DEF Stores
  <2>3. Shows(y)'
    BY <1>2, <1>3, <1>4, <2>2 DEF Shows, ShowsOf, R!Signs
  <2> QED BY <2>1, <2>3
<1> QED BY <1>0, <1>1, <1>2, <1>4, SentAway

\* A handshake that shows the page the room shows it as it is.
LEMMA AnnounceKeeps ==
  ASSUME PageTypes, CopiesHold, PhaseHolds, OnTheWay, NEW u \in Pages, R!Announce(u)
  PROVE  OnTheWay'
<1> DEFINE updated == IF room.stage = "lobby" THEN [room EXCEPT !.stage = "contract"] ELSE room
<1>0. room \in R!Rooms /\ incoming \in Seq(PageEvents) /\ misled \subseteq Pages /\ shaking \in [Pages -> R!PCs]
      /\ copy[u] \in R!Rooms /\ viewer \in Pages
  BY PageGiven DEF PageTypes, R!RoomPageTypeOK, R!Announce, R!NoOneAssumption
<1>1. /\ shaking[u] = "joined" /\ room' = updated /\ shaking' = [shaking EXCEPT ![u] = "idle"]
      /\ UNCHANGED <<viewer, up, store>>
  BY DEF R!Announce, R!browser
<1>2. /\ updated \in R!Rooms /\ updated.members = room.members
      /\ updated.stage = IF room.stage = "lobby" THEN "contract" ELSE room.stage
  BY <1>0, Restaged DEF R!Stages
<1>3. CASE u # viewer
  <2>a. PICK x : x = copy[u].members[u]
    OBVIOUS
  <2> DEFINE e == <<"joined", u, x>>
  <2>1. R!Emit(e) /\ misled' = misled
    BY <1>3, <2>a DEF R!Announce
  <2>2. x \in R!Entry \cup {None}
    BY <1>0, <2>a, RoomParts
  <2>3. e \in PageEvents
    BY <2>2, Announced
  <2>4. ASSUME viewer \in up, shaking[viewer] = "idle", NEW st \in Stores, Shows(st)
        PROVE  Shows(ApplyTo(st, e))'
    <3>1. room.stage # "lobby" /\ late' = late
      <4>1. room.stage # "lobby"
        BY <2>4 DEF PhaseHolds
      <4> QED BY <1>3, <4>1 DEF R!Announce, PageTypes, R!RoomPageTypeOK
    <3>2. PICK y : y = ApplyTo(st, e)
      OBVIOUS
    <3>3. y = IF x = None THEN UpsertIn(st, u, None, None) ELSE UpsertIn(st, u, x.signed, x.can)
      BY <3>2 DEF ApplyTo
    <3>4. x # None => x.signed \in BOOLEAN \cup {None} /\ x.can \in BOOLEAN \cup {None} /\ x.can # None
      <4>1. x # None => x.signed \in BOOLEAN \cup {None} /\ x.can \in BOOLEAN
        BY <2>2 DEF R!Entry
      <4> QED BY <4>1, PageGiven DEF R!NoOneAssumption
    <3>5. y.phase = st.phase /\ \A v \in Pages \ {u} : y.members[v] = st.members[v]
      <4>1. CASE x = None
        <5>1. y = UpsertIn(st, u, None, None) /\ None \in BOOLEAN \cup {None}
          BY <3>3, <4>1
        <5>2. UpsertIn(st, u, None, None).phase = st.phase
          BY <2>4, <5>1, Upserted, ZenonT(30)
        <5>3. \A v \in Pages \ {u} : UpsertIn(st, u, None, None).members[v] = st.members[v]
          BY <2>4, <5>1, Upserted, ZenonT(30)
        <5> QED BY <5>1, <5>2, <5>3
      <4>2. CASE x # None
        BY <2>4, <3>3, <3>4, <4>2, Upserted
      <4> QED BY <4>1, <4>2
    <3>6. u \notin misled => ShowsOf(y, u)'
      <4> SUFFICES ASSUME u \notin misled PROVE ShowsOf(y, u)'
        OBVIOUS
      <4>1. x = room.members[u] /\ x # None
        BY <1>1, <2>a DEF CopiesHold, R!InRoom
      <4>2. y.members[u] = Entered(st.members[u], x.signed, x.can)
        <5>1. y = UpsertIn(st, u, x.signed, x.can)
          BY <3>3, <4>1
        <5>2. x.signed \in BOOLEAN \cup {None} /\ x.can \in BOOLEAN \cup {None} /\ st \in Stores
          BY <2>4, <3>4, <4>1
        <5>3. UpsertIn(st, u, x.signed, x.can).members[u] = Entered(st.members[u], x.signed, x.can)
          BY <5>2, UpsertedTo
        <5> QED BY <5>1, <5>3
      <4>3. st.members[u] # None => /\ st.members[u] \in R!Entry
                                    /\ (st.members[u].signed = TRUE) = (x.signed = TRUE)
        BY <2>4, <4>1, EntryShown, StoreParts
      <4>4. y.members[u].can = x.can /\ y.members[u].signed \in BOOLEAN \cup {None} /\ y.members[u] \in R!Entry
            /\ (y.members[u].signed = TRUE) = (x.signed = TRUE)
        <5>1. CASE st.members[u] = None
          <6>1. y.members[u] = [signed |-> x.signed, can |-> x.can]
            BY <3>4, <4>1, <4>2, <5>1 DEF Entered
          <6>2. x.can \in BOOLEAN
            BY <3>4, <4>1
          <6> QED BY <3>4, <4>1, <6>1, <6>2 DEF R!Entry
        <5>2. CASE st.members[u] # None
          <6>1. y.members[u] = [signed |-> IF x.signed = None THEN st.members[u].signed ELSE x.signed, can |-> x.can]
            BY <3>4, <4>1, <4>2, <5>2 DEF Entered
          <6>2. x.can \in BOOLEAN /\ st.members[u].signed \in BOOLEAN \cup {None}
            BY <3>4, <4>1, <4>3, <5>2 DEF R!Entry
          <6>3. x.signed = None => x.signed # TRUE
            BY PageGiven DEF R!NoOneAssumption
          <6> QED BY <3>4, <4>1, <4>3, <5>2, <6>1, <6>2, <6>3 DEF R!Entry
        <5> QED BY <5>1, <5>2
      <4>5. y.members[u] # None
        BY <4>4, PageGiven DEF R!NoOneAssumption
      <4> HIDE DEF updated
      <4> QED BY <1>1, <1>2, <4>1, <4>4, <4>5 DEF ShowsOf, R!Signs
    <3> HIDE DEF e
    <3>7. \A v \in Pages \ {u} : shaking'[v] = shaking[v]
      BY <1>0, <1>1
    <3>8. room'.stage = room.stage /\ room'.members = room.members
      BY <1>1, <1>2, <3>1
    <3>9. Shows(y)'
      BY <1>1, <2>1, <2>4, <3>1, <3>5, <3>6, <3>7, <3>8, OneChanges
    <3> QED BY <3>2, <3>9
  <2>5. shaking'[viewer] = shaking[viewer]
    BY <1>0, <1>1, <1>3
  <2> HIDE DEF e
  <2> QED BY <1>0, <1>1, <2>1, <2>3, <2>4, <2>5, SentAway
<1>4. CASE u = viewer
  <2> SUFFICES ASSUME viewer \in up PROVE OnTheWay'
    BY <1>1 DEF OnTheWay
  <2> DEFINE r == IF room.stage = "lobby" THEN updated ELSE copy[u]
  <2>1. incoming' = Append(incoming, <<"state", r>>)
    BY <1>4 DEF R!Announce
  <2>2. r.stage = updated.stage \/ late'
    BY <1>1, <1>2, <1>4 DEF PhaseHolds, R!Announce
  <2>3. \A v \in Pages \ misled' : r.members[v] = room.members[v]
    <3>1. CASE room.stage = "lobby"
      BY <1>2, <3>1
    <3>2. CASE room.stage # "lobby"
      <4>1. misled' = misled
        BY <1>4, <3>2 DEF R!Announce
      <4> QED BY <1>1, <1>4, <3>2, <4>1 DEF CopiesHold
    <3> QED BY <3>1, <3>2
  <2>4. PICK st2 : st2 = [phase |-> r.stage, members |-> r.members]
    OBVIOUS
  <2>5. Shows(st2)'
    <3>1. st2.phase = r.stage /\ st2.members = r.members
      BY <2>4
    <3> HIDE DEF r, updated
    <3> QED BY <1>1, <1>2, <2>2, <2>3, <3>1 DEF Shows, ShowsOf, R!Signs
  <2> DEFINE n == Len(incoming)
  <2> HIDE DEF r
  <2>6. n \in Nat /\ Len(incoming') = n + 1 /\ incoming'[n + 1] = <<"state", r>>
    BY <1>0, <2>1
  <2>7. ASSUME NEW f, Runs(f, store', incoming') PROVE f[n + 1] = st2
    <3>1. n + 1 \in 1..(n + 1)
      BY <2>6
    <3>2. f[n + 1] = ApplyTo(f[(n + 1) - 1], <<"state", r>>)
      BY <2>6, <2>7, <3>1 DEF Runs
    <3> QED BY <2>4, <3>2 DEF ApplyTo
  <2> QED BY <2>5, <2>6, <2>7 DEF OnTheWay
<1> QED BY <1>3, <1>4

-----------------------------------------------------------------------------
(* The copies that handshakes hold *)

LEMMA CopiesKept ==
  ASSUME CopiesHold, UNCHANGED <<viewer, shaking, copy>>, misled \subseteq misled', up' \subseteq up,
         \A u \in Pages \ misled' :
            shaking[u] # "idle" \/ shaking[viewer] # "idle" => room'.members[u] = room.members[u]
  PROVE  CopiesHold'
  BY DEF CopiesHold, R!InRoom

LEMMA PhaseKept ==
  ASSUME PhaseHolds, UNCHANGED <<viewer, shaking, copy>>, up' \subseteq up, room'.stage = room.stage, late' = late
  PROVE  PhaseHolds'
  BY DEF PhaseHolds

\* A call served keeps copies and phase.
LEMMA ServedKeeps ==
  ASSUME PageTypes, CopiesHold, PhaseHolds, NEW u \in Pages, NEW x \in BOOLEAN, Served(u, x)
  PROVE  CopiesHold' /\ PhaseHolds'
<1>0. room \in R!Rooms /\ misled \subseteq Pages
  BY DEF PageTypes, R!RoomPageTypeOK
<1>1. ASSUME R!Refuse PROVE CopiesHold' /\ PhaseHolds'
  <2>1. UNCHANGED <<viewer, room, shaking, copy, up, misled, late>>
    BY <1>1 DEF R!Refuse, R!shakes, R!browser, R!history
  <2> QED BY <2>1, CopiesKept, PhaseKept
<1>2. ASSUME NEW changed \in SUBSET Pages, NEW unseen \in SUBSET Pages, R!Mislead(changed, unseen),
             UNCHANGED <<viewer, shaking, copy, late>>, up' \subseteq up, room'.stage = room.stage,
             \A v \in Pages \ changed : room'.members[v] = room.members[v]
      PROVE  CopiesHold' /\ PhaseHolds'
  <2>1. /\ misled \subseteq misled'
        /\ \A v \in changed : shaking[viewer] # "idle" \/ shaking[v] # "idle" => v \in misled'
    BY <1>0, <1>2, MisledTyped
  <2> QED BY <1>2, <2>1, CopiesKept, PhaseKept
<1>3. ASSUME NEW r, NEW e, NEW changed \in SUBSET Pages, NEW unseen \in SUBSET Pages, R!Change(changed, unseen, r, e),
             r.stage = room.stage, \A v \in Pages \ changed : r.members[v] = room.members[v]
      PROVE  CopiesHold' /\ PhaseHolds'
  <2>1. R!Mislead(changed, unseen) /\ UNCHANGED <<viewer, shaking, copy, late, up>> /\ room' = r
    BY <1>3 DEF R!Change, R!shakes
  <2> QED BY <1>2, <1>3, <2>1
<1>4. CASE R!Sign(u, x)
  <2>1. CASE ~R!InRoom(u) \/ room.stage \notin R!Open
    BY <1>1, <1>4, <2>1 DEF R!Sign
  <2>2. CASE R!InRoom(u) /\ room.stage \in R!Open
    <3> DEFINE r == [room EXCEPT !.members[u].signed = x]
               e == <<"signed", u, x>>
    <3>1. R!Change({u}, {}, r, e)
      BY <1>4, <2>2 DEF R!Sign
    <3>2. r.stage = room.stage /\ \A v \in Pages \ {u} : r.members[v] = room.members[v]
      BY <1>0 DEF R!Rooms, R!Entries
    <3> HIDE DEF r, e
    <3> QED BY <1>3, <3>1, <3>2
  <2> QED BY <2>1, <2>2
<1>5. CASE R!EditMember(u, x)
  <2>1. CASE ~R!InRoom(u)
    BY <1>1, <1>5, <2>1 DEF R!EditMember
  <2>2. CASE R!InRoom(u)
    <3> DEFINE r == [room EXCEPT !.members[u].can = x]
               e == <<"edit", u, x>>
    <3>1. R!Change({u}, {u} \ up, r, e)
      BY <1>5, <2>2 DEF R!EditMember
    <3>2. r.stage = room.stage /\ \A v \in Pages \ {u} : r.members[v] = room.members[v]
      BY <1>0 DEF R!Rooms, R!Entries
    <3>3. {u} \in SUBSET Pages /\ {u} \ up \in SUBSET Pages
      OBVIOUS
    <3> HIDE DEF r, e
    <3> QED BY <1>3, <3>1, <3>2, <3>3
  <2> QED BY <2>1, <2>2
<1>6. CASE R!Edited
  <2> DEFINE signs == \E v \in Pages : R!InRoom(v) /\ R!Signs(room.members[v])
  <2>1. CASE room.stage \notin R!Open \/ ~signs
    BY <1>1, <1>6, <2>1 DEF R!Edited
  <2>2. CASE room.stage \in R!Open /\ signs
    <3> DEFINE r == [room EXCEPT !.members = ResetMembers]
               e == <<"reset">>
               changed == {v \in Pages : R!InRoom(v)}
    <3>1. R!Change(changed, {}, r, e)
      BY <1>6, <2>2 DEF R!Edited, ResetMembers
    <3>2. r.stage = room.stage /\ \A v \in Pages \ changed : r.members[v] = room.members[v]
      BY <1>0 DEF R!Rooms, R!Entries, ResetMembers, R!InRoom
    <3>3. changed \in SUBSET Pages /\ {} \in SUBSET Pages
      OBVIOUS
    <3> HIDE DEF r, e, changed
    <3> QED BY <1>3, <3>1, <3>2, <3>3
  <2> QED BY <2>1, <2>2
<1>7. CASE R!EditAll(x)
  <2>1. CASE room.stage = "closed"
    BY <1>1, <1>7, <2>1 DEF R!EditAll
  <2>2. CASE room.stage # "closed"
    <3> DEFINE r == [room EXCEPT !.members = EditMembers(x)]
               e == <<"edit_all", x>>
               changed == {v \in Pages : R!InRoom(v)}
    <3>1. R!Change(changed, {}, r, e)
      BY <1>7, <2>2 DEF R!EditAll, EditMembers
    <3>2. r.stage = room.stage /\ \A v \in Pages \ changed : r.members[v] = room.members[v]
      BY <1>0 DEF R!Rooms, R!Entries, EditMembers
    <3>3. changed \in SUBSET Pages /\ {} \in SUBSET Pages
      OBVIOUS
    <3> HIDE DEF r, e, changed
    <3> QED BY <1>3, <3>1, <3>2, <3>3
  <2> QED BY <2>1, <2>2
<1>8. CASE R!Kick(u)
  <2>1. /\ room' = R!Put(u, None) /\ up' = up \ {u} /\ UNCHANGED <<viewer, shaking, copy, late>>
        /\ R!Mislead({u}, IF u \in up THEN {} ELSE {u})
    BY <1>8 DEF R!Kick, R!shakes
  <2>2. room'.stage = room.stage /\ \A v \in Pages \ {u} : room'.members[v] = room.members[v]
    BY <1>0, <2>1, EntryPut
  <2>3. {u} \in SUBSET Pages /\ (IF u \in up THEN {} ELSE {u}) \in SUBSET Pages
    OBVIOUS
  <2> QED BY <1>2, <2>1, <2>2, <2>3
<1> QED BY <1>4, <1>5, <1>6, <1>7, <1>8 DEF Served

LEMMA PageStart == R!Init => PageInv
<1> SUFFICES ASSUME R!Init PROVE PageInv
  OBVIOUS
<1>1. room \in R!Rooms /\ store \in Stores /\ viewer \in Pages
  BY PageGiven DEF R!Init, R!NoStore, Stores, R!Rooms, R!Entries, R!Entry, R!Stages, R!NoOneAssumption
<1>2. PageTypes
  <2>1. shaking \in [Pages -> R!PCs] /\ copy \in [Pages -> R!Rooms \cup {None}]
        /\ \A u \in Pages : (shaking[u] = "idle") = (copy[u] = None)
    BY DEF R!Init, R!PCs
  <2>2. calls \in 0..MaxCalls
    BY PageGiven DEF R!Init, R!NoOneAssumption
  <2>3. incoming \in Seq(PageEvents)
    BY DEF R!Init
  <2>4. store.phase \in R!Stages \cup {None} /\ store.members \in R!Entries
    BY <1>1 DEF Stores
  <2> QED BY <1>1, <2>1, <2>2, <2>3, <2>4 DEF R!Init, PageTypes, R!RoomPageTypeOK
<1> QED BY <1>1, <1>2 DEF R!Init, PageInv, CopiesHold, PhaseHolds, OnTheWay

\* The store, the room and the network of a step that is none of the handshake's.
LEMMA PageStep ==
  ASSUME PageInv, [R!Next]_(R!page)
  PROVE  PageInv'
<1>0. /\ room \in R!Rooms /\ incoming \in Seq(PageEvents) /\ misled \subseteq Pages /\ up \subseteq Pages
      /\ viewer \in Pages /\ shaking \in [Pages -> R!PCs] /\ copy \in [Pages -> R!Rooms \cup {None}]
      /\ store \in Stores /\ late \in BOOLEAN
  BY PageGiven DEF PageInv, PageTypes, R!RoomPageTypeOK, R!NoOneAssumption
<1>t. PageTypes'
  BY EventTypes DEF PageInv
<1> DEFINE Rest == CopiesHold' /\ PhaseHolds' /\ OnTheWay'
<1> SUFFICES Rest
  BY <1>t DEF PageInv
<1>p. PageTypes /\ CopiesHold /\ PhaseHolds /\ OnTheWay
  BY DEF PageInv
<1>1. ASSUME NEW u \in Pages, R!Connect(u) PROVE Rest
  <2>1. /\ shaking[u] = "idle" /\ u \notin up /\ UNCHANGED <<viewer, room, up, incoming>>
        /\ u # viewer => store' = store
    BY <1>1 DEF R!Connect, R!network, R!browser
  <2>2. CASE UNCHANGED <<R!shakes, R!history>>
    <3>1. UNCHANGED <<shaking, copy, misled, late>>
      BY <2>2 DEF R!shakes, R!history
    <3>2. ASSUME NEW st \in Stores, Shows(st) PROVE Shows(st)'
      BY <2>1, <3>1, <3>2 DEF Shows, ShowsOf, R!Signs
    <3>3. OnTheWay'
      <4>1. CASE u = viewer
        BY <2>1, <4>1 DEF OnTheWay
      <4>2. CASE u # viewer
        BY <1>p, <2>1, <3>1, <3>2, <4>2, Untold
      <4> QED BY <4>1, <4>2
    <3> QED BY <1>p, <2>1, <3>1, <3>3, CopiesKept, PhaseKept
  <2>3. CASE /\ shaking' = [shaking EXCEPT ![u] = "read"] /\ copy' = [copy EXCEPT ![u] = room]
             /\ IF u = viewer THEN misled' = {v \in misled : shaking[v] # "idle"} /\ late' = FALSE
                ELSE UNCHANGED R!history
    <3>1. /\ shaking'[u] = "read" /\ copy'[u] = room
          /\ \A v \in Pages \ {u} : shaking'[v] = shaking[v] /\ copy'[v] = copy[v]
      BY <1>0, <2>3
    <3>2. CASE u = viewer
      <4>1. CopiesHold'
        BY <1>0, <1>p, <2>1, <2>3, <3>1, <3>2 DEF CopiesHold, R!InRoom
      <4>2. PhaseHolds' /\ OnTheWay'
        BY <2>1, <3>1, <3>2 DEF PhaseHolds, OnTheWay
      <4> QED BY <4>1, <4>2
    <3>3. CASE u # viewer
      <4>1. misled' = misled /\ late' = late
        BY <2>3, <3>3 DEF R!history
      <4>2. CopiesHold' /\ PhaseHolds'
        BY <1>0, <1>p, <2>1, <3>1, <3>3, <4>1 DEF CopiesHold, R!InRoom, PhaseHolds
      <4>3. ASSUME NEW st \in Stores, Shows(st) PROVE Shows(st)'
        BY <2>1, <3>1, <4>1, <4>3 DEF Shows, ShowsOf, R!Signs
      <4>4. OnTheWay'
        BY <1>0, <1>p, <2>1, <3>1, <3>3, <4>3, Untold
      <4> QED BY <4>2, <4>4
    <3> QED BY <3>2, <3>3
  <2> QED BY <1>1, <2>2, <2>3 DEF R!Connect
<1>2. ASSUME NEW u \in Pages, R!ConnectMember(u) PROVE Rest
  <2>1. /\ shaking[u] = "read" /\ UNCHANGED <<viewer, room, up, incoming, misled, late>>
        /\ u # viewer => store' = store
    BY <1>2 DEF R!ConnectMember, R!network, R!browser, R!history
  <2>2. u \notin up
    BY <1>p, <2>1 DEF CopiesHold
  <2>3. \/ R!InRoom(u) /\ shaking' = [shaking EXCEPT ![u] = "valid"] /\ copy' = copy
        \/ shaking' = [shaking EXCEPT ![u] = "idle"] /\ copy' = [copy EXCEPT ![u] = None]
    BY <1>2 DEF R!ConnectMember
  <2>4. /\ \A v \in Pages \ {u} : shaking'[v] = shaking[v] /\ copy'[v] = copy[v]
        /\ (R!InRoom(u) /\ shaking'[u] = "valid" /\ copy'[u] = copy[u]) \/ shaking'[u] = "idle"
    BY <1>0, <2>3
  <2>5. CopiesHold' /\ PhaseHolds'
    BY <1>0, <1>p, <2>1, <2>2, <2>4 DEF CopiesHold, R!InRoom, PhaseHolds
  <2>6. OnTheWay'
    <3>1. CASE u = viewer
      BY <2>1, <2>2, <3>1 DEF OnTheWay
    <3>2. CASE u # viewer
      <4>1. ASSUME NEW st \in Stores, Shows(st) PROVE Shows(st)'
        BY <2>1, <2>2, <2>4, <4>1 DEF Shows, ShowsOf, R!Signs
      <4> QED BY <1>0, <1>p, <2>1, <2>4, <3>2, <4>1, Untold
    <3> QED BY <3>1, <3>2
  <2> QED BY <2>5, <2>6
<1>3. ASSUME NEW u \in Pages, R!ConnectJoin(u) PROVE Rest
  <2>1. /\ shaking[u] = "valid" /\ UNCHANGED <<viewer, room, incoming, misled, late, copy, store>> /\ up' = up \cup {u}
        /\ shaking' = [shaking EXCEPT ![u] = "joined"]
    BY <1>3 DEF R!ConnectJoin, R!browser, R!history
  <2>2. shaking'[u] = "joined" /\ \A v \in Pages \ {u} : shaking'[v] = shaking[v]
    BY <1>0, <2>1
  <2>3. CopiesHold' /\ PhaseHolds'
    BY <1>0, <1>p, <2>1, <2>2 DEF CopiesHold, R!InRoom, PhaseHolds
  <2>4. OnTheWay'
    <3>1. CASE u = viewer
      BY <2>1, <2>2, <3>1 DEF OnTheWay
    <3>2. CASE u # viewer
      <4>1. ASSUME NEW st \in Stores, Shows(st) PROVE Shows(st)'
        BY <2>1, <2>2, <4>1 DEF Shows, ShowsOf, R!Signs
      <4> QED BY <1>0, <1>p, <2>1, <2>2, <3>2, <4>1, Untold
    <3> QED BY <3>1, <3>2
  <2> QED BY <2>3, <2>4
<1>4. ASSUME NEW u \in Pages, R!Announce(u) PROVE Rest
  <2> DEFINE updated == IF room.stage = "lobby" THEN [room EXCEPT !.stage = "contract"] ELSE room
  <2>1. /\ shaking[u] = "joined" /\ UNCHANGED <<viewer, up>> /\ room' = updated
        /\ shaking' = [shaking EXCEPT ![u] = "idle"] /\ copy' = [copy EXCEPT ![u] = None]
        /\ late' = (late \/ (room.stage = "lobby" /\ shaking[viewer] # "idle" /\ u # viewer))
    BY <1>4 DEF R!Announce
  <2>2. \A v \in Pages : v \notin misled' /\ v # u => v \notin misled \/ (u = viewer /\ shaking[v] = "idle")
    BY <1>4 DEF R!Announce
  <2>3. /\ updated.members = room.members
        /\ updated.stage = IF room.stage = "lobby" THEN "contract" ELSE room.stage
    BY <1>0, Restaged DEF R!Stages
  <2>4. shaking'[u] = "idle" /\ \A v \in Pages \ {u} : shaking'[v] = shaking[v] /\ copy'[v] = copy[v]
    BY <1>0, <2>1
  <2> HIDE DEF updated
  <2>5. CopiesHold'
    <3>1. CASE u = viewer
      BY <1>0, <1>p, <2>1, <2>2, <2>3, <2>4, <3>1 DEF CopiesHold, R!InRoom
    <3>2. CASE u # viewer
      <4>1. misled' = misled
        BY <1>4, <3>2 DEF R!Announce
      <4> QED BY <1>0, <1>p, <2>1, <2>3, <2>4, <3>2, <4>1 DEF CopiesHold, R!InRoom
    <3> QED BY <3>1, <3>2
  <2>6. PhaseHolds'
    BY <1>0, <1>p, <2>1, <2>3, <2>4 DEF PhaseHolds
  <2>7. OnTheWay'
    BY <1>p, <1>4, AnnounceKeeps
  <2> QED BY <2>5, <2>6, <2>7
<1>5. ASSUME NEW u \in Pages, R!Disconnect(u) PROVE Rest
  <2>1. UNCHANGED <<viewer, room, shaking, copy, misled, late>> /\ up' \subseteq up
    BY <1>5 DEF R!Disconnect, R!shakes, R!history
  <2> QED BY <1>p, <1>5, <2>1, CopiesKept, PhaseKept, DisconnectKeeps
<1>6. ASSUME NEW u \in Pages, R!Leave(u) PROVE Rest
  <2>1. UNCHANGED <<viewer, shaking, copy, late>> /\ up' \subseteq up /\ room' = R!Put(u, None) /\ R!Mislead({u}, {})
    BY <1>6 DEF R!Leave, R!shakes
  <2>2. room'.stage = room.stage /\ \A v \in Pages \ {u} : room'.members[v] = room.members[v]
    BY <1>0, <2>1, EntryPut
  <2>3. misled \subseteq misled' /\ (shaking[u] # "idle" \/ shaking[viewer] # "idle" => u \in misled')
    BY <2>1 DEF R!Mislead
  <2> QED BY <1>p, <1>6, <2>1, <2>2, <2>3, CopiesKept, PhaseKept, LeaveKeeps
<1>7. ASSUME NEW u \in Pages, R!Join(u) PROVE Rest
  <2> DEFINE new == [signed |-> None, can |-> u = Host]
  <2>1. UNCHANGED <<viewer, shaking, copy, late, up>> /\ room' = R!Put(u, new) /\ misled \subseteq misled'
        /\ (shaking[u] # "idle" \/ shaking[viewer] # "idle" => u \in misled')
    BY <1>7 DEF R!Join, R!shakes, R!network, R!Mislead
  <2>2. new \in R!Entry \cup {None}
    BY DEF R!Entry
  <2> HIDE DEF new
  <2>3. room'.stage = room.stage /\ \A v \in Pages \ {u} : room'.members[v] = room.members[v]
    BY <1>0, <2>1, <2>2, EntryPut
  <2> QED BY <1>p, <1>7, <2>1, <2>3, CopiesKept, PhaseKept, JoinKeeps
<1>8. ASSUME NEW u \in up, NEW x \in BOOLEAN, R!Sign(u, x) PROVE Rest
  <2>1. u \in Pages /\ Served(u, x)
    BY <1>0, <1>8 DEF Served
  <2> QED BY <1>p, <1>8, <2>1, ServedKeeps, SignKeeps
<1>9. ASSUME NEW u \in Pages, NEW x \in BOOLEAN, R!EditMember(u, x) \/ R!Edited \/ R!EditAll(x) \/ R!Kick(u) PROVE Rest
  <2>1. Served(u, x)
    BY <1>9 DEF Served
  <2>2. OnTheWay'
    BY <1>p, <1>9, EditKeeps, ResetKeeps, EditAllKeeps, KickKeeps
  <2> QED BY <1>p, <2>1, <2>2, ServedKeeps
<1>10. ASSUME R!FromOthers PROVE Rest
  <2>1. \/ \E u \in up : \E x \in BOOLEAN : R!Sign(u, x)
        \/ \E u \in Pages, x \in BOOLEAN : R!EditMember(u, x) \/ R!Edited \/ R!EditAll(x) \/ R!Kick(u)
    BY <1>0, <1>10 DEF R!FromOthers
  <2> QED BY <1>8, <1>9, <2>1
<1>11. ASSUME R!Close PROVE Rest
  <2>1. up' = {} /\ late' = TRUE /\ R!Mislead(Pages, {}) /\ UNCHANGED <<viewer, shaking, copy>>
    BY <1>11 DEF R!Close, R!shakes
  <2>2. misled \subseteq misled' /\ \A u \in Pages : shaking[u] # "idle" \/ shaking[viewer] # "idle" => u \in misled'
    BY <2>1 DEF R!Mislead
  <2>3. CopiesHold'
    BY <1>p, <2>1, <2>2, CopiesKept
  <2> QED BY <2>1, <2>3 DEF PhaseHolds, OnTheWay
<1>12. ASSUME R!Begin \/ R!Finish PROVE Rest
  <2>1. /\ UNCHANGED <<viewer, shaking, copy, up, misled>> /\ late' = (late \/ shaking[viewer] # "idle")
        /\ room' = [room EXCEPT !.stage = "timer"] \/ room' = [room EXCEPT !.stage = "result"]
    BY <1>12 DEF R!Begin, R!Finish, R!shakes
  <2>2. room'.members = room.members /\ room'.stage # "lobby"
    BY <1>0, <2>1, Restaged DEF R!Stages
  <2>3. CopiesHold'
    BY <1>p, <2>1, <2>2, CopiesKept
  <2>4. PhaseHolds'
    BY <2>1, <2>2 DEF PhaseHolds
  <2> QED BY <1>p, <1>12, <2>3, <2>4, StageKeeps
<1>13. ASSUME UNCHANGED <<viewer, room, shaking, copy, up, incoming, store, misled, late>> PROVE Rest
  <2>1. ASSUME NEW st \in Stores, Shows(st) PROVE Shows(st)'
    BY <1>13, <2>1 DEF Shows, ShowsOf, R!Signs
  <2> QED BY <1>p, <1>13, <2>1, CopiesKept, PhaseKept, Untold
<1>14. ASSUME R!SignToggle \/ R!Manage \/ R!SendLost \/ UNCHANGED R!page PROVE Rest
  <2>1. UNCHANGED <<viewer, room, shaking, copy, up, incoming, store, misled, late>>
    BY <1>14 DEF R!SignToggle, R!Manage, R!SendLost, R!Send, R!page, R!shakes, R!network, R!browser, R!history
  <2> QED BY <1>13, <2>1
<1>15. ASSUME R!Serve PROVE Rest
  <2>1. \/ \E x \in BOOLEAN : R!Sign(viewer, x)
        \/ \E u \in Pages, x \in BOOLEAN : R!EditMember(u, x) \/ R!Edited \/ R!EditAll(x) \/ R!Kick(u)
    <3>1. outgoing \in Messages
      BY <1>p, <1>15 DEF R!Serve, PageTypes
    <3>2. CASE outgoing \in {"sign"} \X {viewer} \X BOOLEAN
      BY <1>15, <3>2 DEF R!Serve
    <3>3. CASE outgoing \in {"edit"} \X Pages \X BOOLEAN
      BY <1>15, <3>3 DEF R!Serve
    <3>4. CASE outgoing \in {"edit_all"} \X BOOLEAN
      BY <1>0, <1>15, <3>4 DEF R!Serve
    <3>5. CASE outgoing \in {"kick"} \X Pages
      BY <1>15, <3>5 DEF R!Serve
    <3> QED BY <3>1, <3>2, <3>3, <3>4, <3>5 DEF Messages
  <2>2. viewer \in up
    BY <1>15 DEF R!Serve
  <2> QED BY <1>8, <1>9, <2>1, <2>2
<1>16. ASSUME R!Receive PROVE Rest
  <2>1. UNCHANGED <<viewer, room, shaking, copy, misled, late>> /\ up' \subseteq up /\ incoming # <<>>
    BY <1>16 DEF R!Receive, R!shakes, R!history
  <2>2. OnTheWay'
    <3>1. CASE Head(incoming)[1] \in {"closed", "kicked"}
      <4>1. viewer' \notin up'
        BY <1>16, <2>1, <3>1 DEF R!Receive
      <4> QED BY <4>1 DEF OnTheWay
    <3>2. CASE Head(incoming)[1] \notin {"closed", "kicked"}
      <4>1. store' = R!Applied(Head(incoming)) /\ incoming' = Tail(incoming) /\ up' = up
        BY <1>16, <3>2 DEF R!Receive
      <4>2. Head(incoming) \in PageEvents
        BY <1>0, <2>1
      <4>3. R!Applied(Head(incoming)) = ApplyTo(store, Head(incoming))
        BY <1>0, <3>2, <4>2, AppliedIs
      <4> QED BY <1>0, <1>p, <2>1, <4>1, <4>3, Heard
    <3> QED BY <3>1, <3>2
  <2> QED BY <1>p, <2>1, <2>2, CopiesKept, PhaseKept
<1> QED BY <1>1, <1>2, <1>3, <1>4, <1>5, <1>6, <1>7, <1>10, <1>11, <1>12, <1>14, <1>15, <1>16 DEF R!Next

LEMMA PageSettled == PageInv => R!PageAgrees
<1> SUFFICES ASSUME PageInv, R!Settled PROVE Shows(store)
  <2>1. Shows(store) => /\ \A u \in Pages \ misled : ShowsOf(store, u)
                        /\ ~late => store.phase = room.stage
    BY DEF Shows
  <2> QED BY <2>1 DEF R!PageAgrees, ShowsOf
<1> DEFINE f == [i \in 0..0 |-> store]
<1>1. f \in [0..Len(incoming) -> Stores] /\ f[Len(incoming)] = store /\ f[0] = store /\ Len(incoming) = 0
  BY DEF PageInv, PageTypes, R!Settled
<1>2. Runs(f, store, incoming)
  BY <1>1 DEF Runs
<1> QED BY <1>1, <1>2 DEF PageInv, OnTheWay, R!Settled

\* Once the events under way have come, the page shows of every member whether they
\* are in the room, have signed and may edit, unless an overlapping handshake hides
\* them (misled), and the phase of the room, unless it changed while the page was
\* connecting (late) (SocketContext, useRoomStore, RoomGateway).
THEOREM PageShowsRoom == R!Spec => []R!PageAgrees
<1>1. R!Init => PageInv
  BY PageStart
<1>2. PageInv /\ [R!Next]_(R!page) => PageInv'
  BY PageStep
<1>3. PageInv => R!PageAgrees
  BY PageSettled
<1> QED BY <1>1, <1>2, <1>3, PTL DEF R!Spec

-----------------------------------------------------------------------------
(* Accounts and seats *)

\* The ids are told apart.
IdsDistinct == Ids \cap Guests = {} /\ None \notin A!Anyone \cup {Friend} /\ Friend \notin A!Anyone

Requests == [pc : A!Busy \cup {"rest"}, as : A!Anyone \cup {None}, code : Codes \cup {None}]

AccountTypes ==
  /\ device \in [Tabs -> Devices] /\ user \in [Ids -> {"none", "live", "deleted"}]
  /\ cookie \in [Devices -> A!Anyone \cup {None}]
  /\ host \in [Codes -> Ids \cup {Friend, None}] /\ phase \in [Codes -> {"open", "timer", "over"}]
  /\ seat \in [Codes -> [A!Anyone -> {"no", "in", "out"}]]
  /\ task \in [Tabs -> Requests]

\* Who may be at which await, and in which room.
Placed(k) ==
  /\ k.pc \in {"create", "insert", "delete", "anonymise"} => k.as \in Ids
  /\ k.pc \in {"join", "upsert"} => k.as \in A!Anyone /\ k.code \in Codes /\ host[k.code] # None
  /\ k.pc = "active" => k.as \in A!Anyone
  /\ k.pc = "cleanup" => k.as \in Guests
  /\ k.pc = "rest" => k.as = None

\* A room that is not made is empty.
Unmade == \A c \in Codes : host[c] = None => phase[c] = "open" /\ \A i \in A!Anyone : seat[c][i] = "no"

SeatsTyped == AccountTypes /\ Unmade /\ \A t \in Tabs : Placed(task[t])

\* The rooms that stand in the way of a creation.
Standing(i) == {c \in A!Hosted(i) : seat[c][i] # "out"}

\* One room stands in the way of a creation, or none if one is about to be made.
Hosting ==
  \A i \in Ids : <<"create", i>> \notin excused =>
    /\ \A c, d \in Standing(i) : c = d
    /\ \A t \in Tabs : A!At(t, "insert") /\ task[t].as = i =>
         Standing(i) = {} /\ ~ A!Others(t, i, {"insert"})

\* Whoever is about to take a seat serves nowhere, and does not in that room.
Entering ==
  \A t \in Tabs : A!At(t, "upsert") /\ task[t].as \in Ids /\ <<"join", task[t].as>> \notin excused =>
    A!Serving(task[t].as) = {} /\ phase[task[t].code] # "timer"

\* A deleted account has no room, no seat, no request and no cookie.
Deleting ==
  \A i \in Ids : <<"delete", i>> \notin excused =>
    /\ user[i] = "deleted" =>
         /\ A!Hosted(i) \cup A!Seated(i) = {}
         /\ \A t \in Tabs : task[t].as # i
         /\ \A d \in Devices : cookie[d] # i
    /\ \A t \in Tabs : A!At(t, "anonymise") /\ task[t].as = i => A!Hosted(i) \cup A!Seated(i) = {}

Joins(g) == \E t \in Tabs : task[t].pc \in {"join", "upsert"} /\ task[t].as = g

\* A guest with a seat has a cookie somewhere.
Tokens ==
  \A g \in Guests : <<"token", g>> \notin excused =>
    /\ Joins(g) \/ A!Seated(g) # {} => \E d \in Devices : cookie[d] = g
    /\ \A t \in Tabs : A!At(t, "cleanup") /\ task[t].as = g => A!Seated(g) = {}

\* The inductive invariant.
SeatsInv == SeatsTyped /\ Hosting /\ Entering /\ Deleting /\ Tokens

-----------------------------------------------------------------------------
(* Types *)

LEMMA RestType == A!Rest \in Requests
BY DEF A!Rest, Requests

LEMMA GoType ==
  ASSUME AccountTypes, NEW t \in Tabs, NEW pc \in A!Busy, NEW as \in A!Anyone \cup {None},
         NEW code \in Codes \cup {None}, A!Go(t, pc, as, code)
  PROVE  /\ task' \in [Tabs -> Requests]
         /\ task'[t].pc = pc /\ task'[t].as = as /\ task'[t].code = code
         /\ \A u \in Tabs \ {t} : task'[u] = task[u]
BY DEF AccountTypes, A!Go, Requests

LEMMA DoneType ==
  ASSUME AccountTypes, NEW t \in Tabs, A!Done(t)
  PROVE  /\ task' \in [Tabs -> Requests] /\ task'[t] = A!Rest
         /\ \A u \in Tabs \ {t} : task'[u] = task[u]
BY RestType DEF AccountTypes, A!Done

LEMMA TokenType ==
  ASSUME AccountTypes, NEW t \in Tabs, NEW i \in A!Anyone \cup {None}, A!Token(t, i)
  PROVE  /\ cookie' \in [Devices -> A!Anyone \cup {None}] /\ cookie'[device[t]] = i
         /\ \A d \in Devices \ {device[t]} : cookie'[d] = cookie[d]
BY DEF AccountTypes, A!Token

LEMMA TaskFacts ==
  ASSUME AccountTypes, NEW t \in Tabs
  PROVE  /\ task[t].pc \in A!Busy \cup {"rest"} /\ task[t].as \in A!Anyone \cup {None}
         /\ task[t].code \in Codes \cup {None} /\ A!Me(t) \in A!Anyone \cup {None}
         /\ device[t] \in Devices
BY DEF AccountTypes, Requests, A!Me

-----------------------------------------------------------------------------
(* A request goes on, and nothing else changes: what its next await asks.   *)

LEMMA TaskStep ==
  ASSUME IdsDistinct, SeatsInv, NEW t \in Tabs, NEW k \in Requests, task' \in [Tabs -> Requests], task'[t] = k,
         \A u \in Tabs \ {t} : task'[u] = task[u],
         UNCHANGED <<device, A!who, A!rooms>>, excused \subseteq excused', Placed(k),
         k.pc = "insert" => \/ <<"create", k.as>> \in excused'
                            \/ Standing(k.as) = {} /\ ~ A!Others(t, k.as, {"insert"}),
         k.pc = "upsert" /\ k.as \in Ids => A!Serving(k.as) = {} /\ phase[k.code] # "timer",
         k.as \in {task[t].as, A!Me(t), None},
         k.pc = "anonymise" => A!Hosted(k.as) \cup A!Seated(k.as) = {},
         k.pc \in {"join", "upsert"} /\ k.as \in Guests =>
           Joins(k.as) \/ \E d \in Devices : cookie[d] = k.as,
         k.pc = "cleanup" => \/ <<"token", k.as>> \in excused' \/ A!Seated(k.as) = {}
  PROVE  SeatsInv'
<1>1. SeatsTyped'
  <2>1. AccountTypes'
    BY DEF SeatsInv, SeatsTyped, AccountTypes, A!who, A!rooms
  <2>2. Unmade'
    BY DEF SeatsInv, SeatsTyped, Unmade, A!rooms
  <2>3. ASSUME NEW u \in Tabs PROVE Placed(task'[u])
    BY DEF SeatsInv, SeatsTyped
  <2>4. \A u \in Tabs : Placed(task[u])'
    BY <2>3 DEF Placed, A!rooms
  <2> QED BY <2>1, <2>2, <2>4 DEF SeatsTyped
<1>2. \A i : /\ A!Hosted(i)' = A!Hosted(i) /\ A!Seated(i)' = A!Seated(i) /\ A!Serving(i)' = A!Serving(i)
             /\ Standing(i)' = Standing(i)
  BY DEF A!rooms, A!Hosted, A!Seated, A!Serving, Standing, A!Open
<1>3. Hosting'
  <2> SUFFICES ASSUME NEW i \in Ids, <<"create", i>> \notin excused'
               PROVE  /\ \A c, d \in Standing(i)' : c = d
                      /\ \A u \in Tabs : task'[u].pc = "insert" /\ task'[u].as = i =>
                           Standing(i)' = {} /\ ~ A!Others(u, i, {"insert"})'
    BY DEF Hosting, A!At
  <2>1. \A c, d \in Standing(i)' : c = d
    BY <1>2 DEF SeatsInv, Hosting
  <2>2. ASSUME NEW u \in Tabs, task'[u].pc = "insert", task'[u].as = i
        PROVE  Standing(i)' = {} /\ ~ A!Others(u, i, {"insert"})'
    <3>1. CASE k.pc = "insert" /\ k.as = i
      BY <1>2, <2>2, <3>1 DEF SeatsInv, Hosting, A!At, A!Others
    <3>2. CASE ~ (k.pc = "insert" /\ k.as = i)
      BY <1>2, <2>2, <3>2 DEF SeatsInv, Hosting, A!At, A!Others
    <3> QED BY <3>1, <3>2
  <2> QED BY <2>1, <2>2
<1>4. Entering'
  <2>1. ASSUME NEW u \in Tabs, NEW i \in Ids, task'[u].pc = "upsert", task'[u].as = i,
               <<"join", i>> \notin excused'
        PROVE  {c \in Codes : phase[c] = "timer" /\ seat[c][i] = "in"} = {}
               /\ phase[task'[u].code] # "timer"
    BY <2>1 DEF SeatsInv, Entering, A!At, A!Serving
  <2>2. phase' = phase /\ seat' = seat
    BY DEF A!rooms
  <2> QED BY <2>1, <2>2 DEF Entering, A!At, A!Serving
<1>5. Deleting'
  <2> SUFFICES ASSUME NEW i \in Ids, <<"delete", i>> \notin excused'
               PROVE  /\ user'[i] = "deleted" =>
                           /\ A!Hosted(i)' \cup A!Seated(i)' = {}
                           /\ \A u \in Tabs : task'[u].as # i
                           /\ \A d \in Devices : cookie'[d] # i
                      /\ \A u \in Tabs : task'[u].pc = "anonymise" /\ task'[u].as = i =>
                           A!Hosted(i)' \cup A!Seated(i)' = {}
    BY DEF Deleting, A!At
  <2>1. ASSUME user'[i] = "deleted"
        PROVE  /\ A!Hosted(i)' \cup A!Seated(i)' = {}
               /\ \A u \in Tabs : task'[u].as # i
               /\ \A d \in Devices : cookie'[d] # i
    <3>1. /\ user[i] = "deleted" /\ <<"delete", i>> \notin excused
          /\ \A d \in Devices : cookie'[d] = cookie[d]
      BY <2>1 DEF A!who
    <3>2. i # None
      BY DEF IdsDistinct, A!Anyone
    <3>3. \A d \in Devices : cookie[d] # i
      BY <3>1 DEF SeatsInv, Deleting
    <3>4. A!Me(t) # i /\ \A u \in Tabs : task[u].as # i
      BY <3>1, <3>3, TaskFacts DEF SeatsInv, SeatsTyped, Deleting, A!Me
    <3>5. \A u \in Tabs : task'[u].as # i
      BY <3>2, <3>4
    <3>6. A!Hosted(i) \cup A!Seated(i) = {}
      BY <3>1 DEF SeatsInv, Deleting
    <3> QED BY <1>2, <3>1, <3>3, <3>5, <3>6
  <2>2. ASSUME NEW u \in Tabs, task'[u].pc = "anonymise", task'[u].as = i
        PROVE  A!Hosted(i)' \cup A!Seated(i)' = {}
    BY <1>2, <2>2 DEF SeatsInv, Deleting, A!At
  <2> QED BY <2>1, <2>2
<1>6. Tokens'
  <2> SUFFICES ASSUME NEW x \in Guests, <<"token", x>> \notin excused'
               PROVE  /\ Joins(x)' \/ A!Seated(x)' # {} => \E d \in Devices : cookie'[d] = x
                      /\ \A u \in Tabs : task'[u].pc = "cleanup" /\ task'[u].as = x => A!Seated(x)' = {}
    BY DEF Tokens, A!At
  <2>1. Joins(x)' => Joins(x) \/ \E d \in Devices : cookie[d] = x
    BY DEF Joins
  <2>2. cookie' = cookie
    BY DEF A!who
  <2>3. <<"token", x>> \notin excused
    OBVIOUS
  <2>4. Joins(x)' \/ A!Seated(x)' # {} => \E d \in Devices : cookie'[d] = x
    BY <1>2, <2>1, <2>2, <2>3 DEF SeatsInv, Tokens
  <2>5. ASSUME NEW u \in Tabs, task'[u].pc = "cleanup", task'[u].as = x PROVE A!Seated(x)' = {}
    BY <1>2, <2>3, <2>5 DEF SeatsInv, Tokens, A!At
  <2> QED BY <2>4, <2>5
<1> QED BY <1>1, <1>3, <1>4, <1>5, <1>6 DEF SeatsInv

-----------------------------------------------------------------------------
(* A cookie is set or dropped; a guest who loses it is excused or unseated. *)

LEMMA CookieStep ==
  ASSUME IdsDistinct, SeatsInv, NEW t \in Tabs, NEW i \in A!Anyone \cup {None}, A!Token(t, i),
         task' \in [Tabs -> Requests], \A u \in Tabs : task'[u] = task[u] \/ task'[u] = A!Rest,
         UNCHANGED <<device, A!rooms>>, excused \subseteq excused',
         user' \in [Ids -> {"none", "live", "deleted"}],
         \A j \in Ids : user'[j] = "deleted" => user[j] = "deleted",
         i \in Ids => user'[i] = "live",
         \A g \in Guests \ {i} : cookie[device[t]] = g =>
           <<"token", g>> \in excused' \/ (A!Seated(g) = {} /\ ~ Joins(g)')
  PROVE  SeatsInv'
<1>1. /\ cookie' \in [Devices -> A!Anyone \cup {None}] /\ cookie'[device[t]] = i
      /\ \A d \in Devices \ {device[t]} : cookie'[d] = cookie[d]
  BY TokenType DEF SeatsInv, SeatsTyped
<1>2. \A j : /\ A!Hosted(j)' = A!Hosted(j) /\ A!Seated(j)' = A!Seated(j) /\ Standing(j)' = Standing(j)
  BY DEF A!rooms, A!Hosted, A!Seated, Standing, A!Open
<1>3. \A u \in Tabs : task'[u].pc # "rest" => task'[u] = task[u]
  BY DEF A!Rest
<1>4. SeatsTyped'
  <2>1. AccountTypes'
    BY <1>1 DEF SeatsInv, SeatsTyped, AccountTypes, A!rooms
  <2>2. Unmade'
    BY DEF SeatsInv, SeatsTyped, Unmade, A!rooms
  <2>3. \A u \in Tabs : Placed(task[u])'
    BY <1>3 DEF SeatsInv, SeatsTyped, Placed, A!rooms, A!Rest
  <2> QED BY <2>1, <2>2, <2>3 DEF SeatsTyped
<1>5. Hosting'
  BY <1>2, <1>3 DEF SeatsInv, Hosting, A!At, A!Others
<1>6. Entering'
  BY <1>3 DEF SeatsInv, Entering, A!At, A!Serving, A!rooms
<1>7. Deleting'
  <2> SUFFICES ASSUME NEW j \in Ids, <<"delete", j>> \notin excused'
               PROVE  /\ user'[j] = "deleted" =>
                           /\ A!Hosted(j)' \cup A!Seated(j)' = {}
                           /\ \A u \in Tabs : task'[u].as # j
                           /\ \A d \in Devices : cookie'[d] # j
                      /\ \A u \in Tabs : task'[u].pc = "anonymise" /\ task'[u].as = j =>
                           A!Hosted(j)' \cup A!Seated(j)' = {}
    BY DEF Deleting, A!At
  <2>1. ASSUME user'[j] = "deleted"
        PROVE  /\ A!Hosted(j)' \cup A!Seated(j)' = {}
               /\ \A u \in Tabs : task'[u].as # j
               /\ \A d \in Devices : cookie'[d] # j
    <3>1. user[j] = "deleted" /\ <<"delete", j>> \notin excused /\ i # j
      BY <2>1
    <3>2. j # None
      BY DEF IdsDistinct, A!Anyone
    <3>3. \A u \in Tabs : task'[u].as # j
      BY <3>1, <3>2 DEF SeatsInv, Deleting, A!Rest
    <3> QED BY <1>1, <1>2, <3>1, <3>3 DEF SeatsInv, Deleting
  <2>2. ASSUME NEW u \in Tabs, task'[u].pc = "anonymise", task'[u].as = j
        PROVE  A!Hosted(j)' \cup A!Seated(j)' = {}
    BY <1>2, <1>3, <2>2 DEF SeatsInv, Deleting, A!At
  <2> QED BY <2>1, <2>2
<1>8. Tokens'
  <2> SUFFICES ASSUME NEW x \in Guests, <<"token", x>> \notin excused'
               PROVE  /\ Joins(x)' \/ A!Seated(x)' # {} => \E d \in Devices : cookie'[d] = x
                      /\ \A u \in Tabs : task'[u].pc = "cleanup" /\ task'[u].as = x => A!Seated(x)' = {}
    BY DEF Tokens, A!At
  <2>1. Joins(x)' => Joins(x)
    BY <1>3 DEF Joins
  <2>2. ASSUME Joins(x)' \/ A!Seated(x)' # {} PROVE \E d \in Devices : cookie'[d] = x
    <3>1. PICK d \in Devices : cookie[d] = x
      BY <1>2, <2>1, <2>2 DEF SeatsInv, Tokens
    <3>2. CASE d = device[t]
      <4>1. i = x
        BY <1>2, <2>2, <3>1, <3>2
      <4> QED BY <1>1, <3>2, <4>1
    <3>3. CASE d # device[t]
      BY <1>1, <3>1, <3>3
    <3> QED BY <3>2, <3>3
  <2>3. ASSUME NEW u \in Tabs, task'[u].pc = "cleanup", task'[u].as = x PROVE A!Seated(x)' = {}
    BY <1>2, <1>3, <2>3 DEF SeatsInv, Tokens, A!At
  <2> QED BY <2>2, <2>3
<1> QED BY <1>4, <1>5, <1>6, <1>7, <1>8 DEF SeatsInv

-----------------------------------------------------------------------------
(* The rooms *)

\* A room is over, or a seat is given up or left.
LEMMA RoomStep ==
  ASSUME SeatsInv, UNCHANGED <<device, A!who, task, host>>, excused \subseteq excused',
         phase' \in [Codes -> {"open", "timer", "over"}],
         seat' \in [Codes -> [A!Anyone -> {"no", "in", "out"}]],
         \A c \in Codes : host[c] = None => phase'[c] = phase[c] /\ seat'[c] = seat[c],
         \A c \in Codes : phase[c] = "over" => phase'[c] = "over",
         \A c \in Codes : phase'[c] = "timer" /\ phase[c] # "timer" =>
           \A t \in Tabs : A!At(t, "upsert") => <<"join", task[t].as>> \in excused',
         \A c \in Codes, i \in A!Anyone : seat'[c][i] = "in" => seat[c][i] = "in",
         \A c \in Codes, i \in Ids :
           host[c] = i /\ seat[c][i] = "out" /\ phase'[c] # "over" => seat'[c][i] = "out"
  PROVE  SeatsInv'
<1>1. SeatsTyped'
  <2>1. AccountTypes'
    BY DEF SeatsInv, SeatsTyped, AccountTypes, A!who
  <2>2. Unmade'
    BY DEF SeatsInv, SeatsTyped, Unmade
  <2>3. \A u \in Tabs : Placed(task[u])'
    BY DEF SeatsInv, SeatsTyped, Placed
  <2> QED BY <2>1, <2>2, <2>3 DEF SeatsTyped
<1>2. ASSUME NEW i \in A!Anyone
      PROVE  /\ A!Hosted(i)' \subseteq A!Hosted(i) /\ A!Seated(i)' \subseteq A!Seated(i)
  BY DEF A!Hosted, A!Seated, A!Open
<1>3. \A i \in Ids : Standing(i)' \subseteq Standing(i)
  <2> SUFFICES ASSUME NEW i \in Ids, NEW c \in Standing(i)' PROVE c \in Standing(i)
    OBVIOUS
  <2>1. i \in A!Anyone
    BY DEF A!Anyone
  <2>2. c \in Codes /\ host[c] = i /\ phase'[c] # "over" /\ c \in A!Hosted(i) /\ seat'[c][i] # "out"
    BY <1>2, <2>1 DEF Standing, A!Hosted, A!Open
  <2> QED BY <2>2 DEF Standing
<1>4. Hosting'
  BY <1>3 DEF SeatsInv, Hosting, A!At, A!Others
<1>5. Entering'
  <2>1. ASSUME NEW u \in Tabs, NEW i \in Ids, task[u].pc = "upsert", task[u].as = i,
               <<"join", i>> \notin excused'
        PROVE  {c \in Codes : phase'[c] = "timer" /\ seat'[c][i] = "in"} = {}
               /\ phase'[task[u].code] # "timer"
    <3>1. /\ {c \in Codes : phase[c] = "timer" /\ seat[c][i] = "in"} = {}
          /\ phase[task[u].code] # "timer" /\ task[u].code \in Codes
      BY <2>1 DEF SeatsInv, Entering, A!At, A!Serving, SeatsTyped, Placed
    <3>2. \A c \in Codes : phase'[c] = "timer" => phase[c] = "timer"
      BY <2>1 DEF A!At
    <3> QED BY <3>1, <3>2 DEF A!Anyone
  <2> QED BY <2>1 DEF Entering, A!At, A!Serving
<1>6. Deleting'
  BY <1>2 DEF SeatsInv, Deleting, A!At, A!who, A!Anyone
<1>7. Tokens'
  BY <1>2 DEF SeatsInv, Tokens, Joins, A!At, A!who, A!Anyone
<1> QED BY <1>1, <1>4, <1>5, <1>6, <1>7 DEF SeatsInv

\* A room is made; it had no seats.
LEMMA InsertStep ==
  ASSUME IdsDistinct, SeatsInv, NEW t \in Tabs, A!CreateInsert(t)
  PROVE  SeatsInv'
<1>a. PICK me \in Ids : me = task[t].as
  BY DEF A!CreateInsert, A!At, SeatsInv, SeatsTyped, Placed
<1>0. me \in A!Anyone /\ me # None /\ me # Friend
  BY DEF IdsDistinct, A!Anyone
<1>1. PICK c \in Codes : host[c] = None /\ host' = [host EXCEPT ![c] = me]
  BY <1>a DEF A!CreateInsert
<1>2. /\ task' \in [Tabs -> Requests] /\ task'[t] = A!Rest /\ \A u \in Tabs \ {t} : task'[u] = task[u]
      /\ UNCHANGED <<device, A!who, phase, seat>> /\ excused \subseteq excused'
  BY DoneType DEF A!CreateInsert, A!ExcuseRow, SeatsInv, SeatsTyped
<1>3. /\ host' \in [Codes -> Ids \cup {Friend, None}] /\ host'[c] = me
      /\ \A d \in Codes \ {c} : host'[d] = host[d]
      /\ phase[c] = "open" /\ \A i \in A!Anyone : seat[c][i] = "no"
  BY <1>0, <1>1 DEF SeatsInv, SeatsTyped, AccountTypes, Unmade
<1>4. SeatsTyped'
  <2>1. AccountTypes'
    BY <1>2, <1>3 DEF SeatsInv, SeatsTyped, AccountTypes, A!who
  <2>2. Unmade'
    BY <1>0, <1>2, <1>3 DEF SeatsInv, SeatsTyped, Unmade
  <2>3. \A u \in Tabs : Placed(task'[u])
    BY <1>2 DEF SeatsInv, SeatsTyped, Placed, A!Rest
  <2>4. \A d \in Codes : host[d] # None => host'[d] # None
    BY <1>0, <1>3
  <2>5. \A u \in Tabs : Placed(task[u])'
    BY <2>3, <2>4 DEF Placed
  <2> QED BY <2>1, <2>2, <2>5 DEF SeatsTyped
<1>5. /\ \A i \in Ids \ {me} : A!Hosted(i)' = A!Hosted(i) /\ Standing(i)' = Standing(i)
      /\ Standing(me)' = Standing(me) \cup {c}
  <2>1. \A d \in Codes : host'[d] # None <=> (host[d] # None \/ d = c)
    BY <1>0, <1>1, <1>3
  <2> QED BY <1>0, <1>1, <1>2, <1>3, <2>1 DEF A!Hosted, Standing, A!Open
<1>6. \A i \in A!Anyone : A!Seated(i)' = A!Seated(i)
  <2>1. \A d \in Codes \ {c} : host'[d] = host[d]
    BY <1>3
  <2> QED BY <1>2, <1>3, <2>1 DEF A!Seated, A!Open
<1>7. Hosting'
  <2> SUFFICES ASSUME NEW i \in Ids, <<"create", i>> \notin excused'
               PROVE  /\ \A d, e \in Standing(i)' : d = e
                      /\ \A u \in Tabs : task'[u].pc = "insert" /\ task'[u].as = i =>
                           Standing(i)' = {} /\ ~ A!Others(u, i, {"insert"})'
    BY DEF Hosting, A!At
  <2>1. CASE i = me
    <3>1. Standing(i) = {} /\ ~ A!Others(t, i, {"insert"})
      BY <1>2, <1>a, <2>1 DEF A!CreateInsert, A!At, SeatsInv, Hosting
    <3>2. \A u \in Tabs : ~ (task'[u].pc = "insert" /\ task'[u].as = i)
      BY <1>2, <3>1 DEF A!Others, A!Rest
    <3> QED BY <1>5, <2>1, <3>1, <3>2
  <2>2. CASE i # me
    <3>1. Standing(i)' = Standing(i)
      BY <1>5, <2>2
    <3>2. \A u \in Tabs : A!Others(u, i, {"insert"})' => A!Others(u, i, {"insert"})
      BY <1>2 DEF A!Others, A!Rest
    <3>3. \A u \in Tabs : task'[u].pc = "insert" => task'[u] = task[u]
      BY <1>2 DEF A!Rest
    <3> QED BY <1>2, <3>1, <3>2, <3>3 DEF SeatsInv, Hosting, A!At
  <2> QED BY <2>1, <2>2
<1>8. Entering'
  <2>1. \A u \in Tabs : task'[u].pc = "upsert" => task'[u] = task[u]
    BY <1>2 DEF A!Rest
  <2> QED BY <1>2, <2>1 DEF SeatsInv, Entering, A!At, A!Serving
<1>9. Deleting'
  <2> SUFFICES ASSUME NEW i \in Ids, <<"delete", i>> \notin excused'
               PROVE  /\ user'[i] = "deleted" =>
                           /\ A!Hosted(i)' \cup A!Seated(i)' = {}
                           /\ \A u \in Tabs : task'[u].as # i
                           /\ \A d \in Devices : cookie'[d] # i
                      /\ \A u \in Tabs : task'[u].pc = "anonymise" /\ task'[u].as = i =>
                           A!Hosted(i)' \cup A!Seated(i)' = {}
    BY DEF Deleting, A!At
  <2>0. i # None /\ i \in A!Anyone /\ user' = user /\ cookie' = cookie
    BY <1>2 DEF IdsDistinct, A!Anyone, A!who
  <2>1. CASE i = me
    <3>1. user[i] # "deleted"
      BY <1>2, <1>a, <2>1 DEF SeatsInv, Deleting
    <3>2. ~ A!Others(t, i, {"anonymise"})
      BY <1>a, <2>1 DEF A!CreateInsert, A!ExcuseRow
    <3>3. \A u \in Tabs : ~ (task'[u].pc = "anonymise" /\ task'[u].as = i)
      BY <1>2, <3>2 DEF A!Others, A!Rest
    <3> QED BY <2>0, <3>1, <3>3
  <2>2. CASE i # me
    <3>1. A!Hosted(i)' = A!Hosted(i) /\ A!Seated(i)' = A!Seated(i)
      BY <1>5, <1>6, <2>0, <2>2
    <3>2. \A u \in Tabs : task'[u] = task[u] \/ (task'[u].as = None /\ task'[u].pc = "rest")
      BY <1>2 DEF A!Rest
    <3> QED BY <1>2, <2>0, <3>1, <3>2 DEF SeatsInv, Deleting, A!At
  <2> QED BY <2>1, <2>2
<1>10. Tokens'
  <2>1. \A x \in Guests : Joins(x)' => Joins(x)
    BY <1>2 DEF Joins, A!Rest
  <2>2. \A u \in Tabs : task'[u].pc = "cleanup" => task'[u] = task[u]
    BY <1>2 DEF A!Rest
  <2>3. cookie' = cookie /\ \A x \in Guests : A!Seated(x)' = A!Seated(x)
    BY <1>2, <1>6 DEF A!who, A!Anyone
  <2> QED BY <1>2, <2>1, <2>2, <2>3 DEF SeatsInv, Tokens, A!At
<1> QED BY <1>4, <1>7, <1>8, <1>9, <1>10 DEF SeatsInv

\* A seat is taken.
LEMMA UpsertStep ==
  ASSUME IdsDistinct, SeatsInv, NEW t \in Tabs, A!JoinUpsert(t)
  PROVE  SeatsInv'
<1>a. PICK i \in A!Anyone, c \in Codes : i = task[t].as /\ c = task[t].code /\ host[c] # None
  BY DEF A!JoinUpsert, A!At, SeatsInv, SeatsTyped, Placed
<1>1. /\ task' \in [Tabs -> Requests] /\ task'[t] = A!Rest /\ \A u \in Tabs \ {t} : task'[u] = task[u]
      /\ UNCHANGED <<device, A!who, host, phase>> /\ excused \subseteq excused'
  BY DoneType DEF A!JoinUpsert, A!ExcuseRow, SeatsInv, SeatsTyped
<1>2. /\ seat' \in [Codes -> [A!Anyone -> {"no", "in", "out"}]]
      /\ \A d \in Codes, j \in A!Anyone :
           seat'[d][j] = IF d = c /\ j = i /\ seat[d][j] = "no" THEN "in" ELSE seat[d][j]
  BY <1>a DEF A!JoinUpsert, SeatsInv, SeatsTyped, AccountTypes
<1>3. \A u \in Tabs : task'[u] = task[u] \/ (task'[u].as = None /\ task'[u].pc = "rest")
  BY <1>1 DEF A!Rest
<1>4. SeatsTyped'
  <2>1. AccountTypes'
    BY <1>1, <1>2 DEF SeatsInv, SeatsTyped, AccountTypes, A!who
  <2>2. Unmade'
    BY <1>a, <1>1, <1>2 DEF SeatsInv, SeatsTyped, Unmade
  <2>3. \A u \in Tabs : Placed(task[u])'
    BY <1>1, <1>3 DEF SeatsInv, SeatsTyped, Placed
  <2> QED BY <2>1, <2>2, <2>3 DEF SeatsTyped
<1>5. \A j \in Ids : A!Hosted(j)' = A!Hosted(j) /\ Standing(j)' = Standing(j)
  <2>1. \A d \in Codes, j \in Ids : seat'[d][j] = "out" <=> seat[d][j] = "out"
    BY <1>2 DEF A!Anyone
  <2> QED BY <1>1, <2>1 DEF A!Hosted, Standing, A!Open
<1>6. \A j \in A!Anyone \ {i} : A!Seated(j)' = A!Seated(j)
  BY <1>1, <1>2 DEF A!Seated, A!Open
<1>7. Hosting'
  <2>1. \A u \in Tabs : \A j : A!Others(u, j, {"insert"})' => A!Others(u, j, {"insert"})
    BY <1>1, <1>3 DEF A!Others
  <2> QED BY <1>1, <1>3, <1>5, <2>1 DEF SeatsInv, Hosting, A!At
<1>8. Entering'
  <2>1. ASSUME NEW u \in Tabs, NEW j \in Ids, task'[u].pc = "upsert", task'[u].as = j,
               <<"join", j>> \notin excused'
        PROVE  {d \in Codes : phase[d] = "timer" /\ seat'[d][j] = "in"} = {}
               /\ phase[task'[u].code] # "timer"
    <3>1. task'[u] = task[u] /\ <<"join", j>> \notin excused /\ j \in A!Anyone
      BY <1>1, <1>3, <2>1 DEF A!Anyone
    <3>2. {d \in Codes : phase[d] = "timer" /\ seat[d][j] = "in"} = {} /\ phase[task[u].code] # "timer"
      BY <2>1, <3>1 DEF SeatsInv, Entering, A!At, A!Serving
    <3>3. j = i => phase[c] # "timer"
      BY <1>a, <3>1 DEF A!JoinUpsert, SeatsInv, Entering, A!At
    <3> QED BY <1>2, <3>1, <3>2, <3>3
  <2> QED BY <1>1, <2>1 DEF Entering, A!At, A!Serving
<1>9. Deleting'
  <2> SUFFICES ASSUME NEW j \in Ids, <<"delete", j>> \notin excused'
               PROVE  /\ user'[j] = "deleted" =>
                           /\ A!Hosted(j)' \cup A!Seated(j)' = {}
                           /\ \A u \in Tabs : task'[u].as # j
                           /\ \A d \in Devices : cookie'[d] # j
                      /\ \A u \in Tabs : task'[u].pc = "anonymise" /\ task'[u].as = j =>
                           A!Hosted(j)' \cup A!Seated(j)' = {}
    BY DEF Deleting, A!At
  <2>0. j # None /\ j \in A!Anyone /\ user' = user /\ cookie' = cookie
    BY <1>1 DEF IdsDistinct, A!Anyone, A!who
  <2>1. CASE j = i
    <3>1. user[j] # "deleted"
      BY <1>1, <1>a, <2>1 DEF SeatsInv, Deleting
    <3>2. ~ A!Others(t, j, {"anonymise"})
      BY <1>a, <2>1 DEF A!JoinUpsert, A!ExcuseRow
    <3>3. \A u \in Tabs : ~ (task'[u].pc = "anonymise" /\ task'[u].as = j)
      BY <1>1, <3>2 DEF A!Others, A!Rest
    <3> QED BY <2>0, <3>1, <3>3
  <2>2. CASE j # i
    <3>1. A!Hosted(j)' = A!Hosted(j) /\ A!Seated(j)' = A!Seated(j)
      BY <1>5, <1>6, <2>0, <2>2
    <3> QED BY <1>1, <1>3, <2>0, <3>1 DEF SeatsInv, Deleting, A!At
  <2> QED BY <2>1, <2>2
<1>10. Tokens'
  <2> SUFFICES ASSUME NEW x \in Guests, <<"token", x>> \notin excused'
               PROVE  /\ Joins(x)' \/ A!Seated(x)' # {} => \E d \in Devices : cookie'[d] = x
                      /\ \A u \in Tabs : task'[u].pc = "cleanup" /\ task'[u].as = x => A!Seated(x)' = {}
    BY DEF Tokens, A!At
  <2>0. x \in A!Anyone /\ cookie' = cookie /\ <<"token", x>> \notin excused
    BY <1>1 DEF A!Anyone, A!who
  <2>1. CASE x = i
    <3>1. Joins(x)
      BY <1>a, <2>1 DEF A!JoinUpsert, A!At, Joins
    <3>2. ~ A!Others(t, x, {"cleanup"})
      BY <1>a, <2>1 DEF A!JoinUpsert, A!ExcuseRow
    <3>3. \A u \in Tabs : ~ (task'[u].pc = "cleanup" /\ task'[u].as = x)
      BY <1>1, <3>2 DEF A!Others, A!Rest
    <3> QED BY <2>0, <3>1, <3>3 DEF SeatsInv, Tokens
  <2>2. CASE x # i
    <3>1. A!Seated(x)' = A!Seated(x) /\ (Joins(x)' => Joins(x))
      BY <1>3, <1>6, <2>0, <2>2 DEF Joins
    <3> QED BY <1>3, <2>0, <3>1 DEF SeatsInv, Tokens, A!At
  <2> QED BY <2>1, <2>2
<1> QED BY <1>4, <1>7, <1>8, <1>9, <1>10 DEF SeatsInv

\* The account is anonymised.
LEMMA DeleteStep ==
  ASSUME IdsDistinct, SeatsInv, NEW t \in Tabs, A!DeleteCommit(t)
  PROVE  SeatsInv'
<1>a. PICK i \in Ids : i = task[t].as
  BY DEF A!DeleteCommit, A!At, SeatsInv, SeatsTyped, Placed
<1>0. i \in A!Anyone /\ i \notin Guests /\ None \in A!Anyone \cup {None}
  BY DEF IdsDistinct, A!Anyone
<1>1. /\ task' \in [Tabs -> Requests] /\ task'[t] = A!Rest /\ \A u \in Tabs \ {t} : task'[u] = task[u]
      /\ UNCHANGED <<device, A!rooms>> /\ excused \subseteq excused'
  BY DoneType DEF A!DeleteCommit, SeatsInv, SeatsTyped
<1>2. /\ cookie' \in [Devices -> A!Anyone \cup {None}] /\ cookie'[device[t]] = None
      /\ \A d \in Devices \ {device[t]} : cookie'[d] = cookie[d]
  BY <1>0, TokenType DEF A!DeleteCommit, SeatsInv, SeatsTyped
<1>3. /\ user' \in [Ids -> {"none", "live", "deleted"}]
      /\ \A j \in Ids \ {i} : user'[j] = user[j]
  BY <1>a DEF A!DeleteCommit, SeatsInv, SeatsTyped, AccountTypes
<1>4. \A u \in Tabs : task'[u] = task[u] \/ (task'[u].as = None /\ task'[u].pc = "rest")
  BY <1>1 DEF A!Rest
<1>5. \A j : /\ A!Hosted(j)' = A!Hosted(j) /\ A!Seated(j)' = A!Seated(j) /\ Standing(j)' = Standing(j)
  BY <1>1 DEF A!rooms, A!Hosted, A!Seated, Standing, A!Open
<1>6. SeatsTyped'
  <2>1. AccountTypes'
    BY <1>1, <1>2, <1>3 DEF SeatsInv, SeatsTyped, AccountTypes, A!rooms
  <2>2. Unmade'
    BY <1>1 DEF SeatsInv, SeatsTyped, Unmade, A!rooms
  <2>3. \A u \in Tabs : Placed(task[u])'
    BY <1>1, <1>4 DEF SeatsInv, SeatsTyped, Placed, A!rooms
  <2> QED BY <2>1, <2>2, <2>3 DEF SeatsTyped
<1>7. Hosting'
  <2>1. \A u \in Tabs : \A j : A!Others(u, j, {"insert"})' => A!Others(u, j, {"insert"})
    BY <1>1, <1>4 DEF A!Others
  <2> QED BY <1>1, <1>4, <1>5, <2>1 DEF SeatsInv, Hosting, A!At
<1>8. Entering'
  BY <1>1, <1>4 DEF SeatsInv, Entering, A!At, A!Serving, A!rooms
<1>9. Deleting'
  <2> SUFFICES ASSUME NEW j \in Ids, <<"delete", j>> \notin excused'
               PROVE  /\ user'[j] = "deleted" =>
                           /\ A!Hosted(j)' \cup A!Seated(j)' = {}
                           /\ \A u \in Tabs : task'[u].as # j
                           /\ \A d \in Devices : cookie'[d] # j
                      /\ \A u \in Tabs : task'[u].pc = "anonymise" /\ task'[u].as = j =>
                           A!Hosted(j)' \cup A!Seated(j)' = {}
    BY DEF Deleting, A!At
  <2>0. j # None /\ j \in A!Anyone /\ <<"delete", j>> \notin excused
    BY <1>1 DEF IdsDistinct, A!Anyone
  <2>1. CASE j = i
    <3>1. ~ A!Others(t, j, A!Busy) /\ \A d \in Devices \ {device[t]} : cookie[d] # j
      BY <1>a, <2>1 DEF A!DeleteCommit
    <3>2. A!Hosted(j) \cup A!Seated(j) = {}
      BY <1>a, <2>0, <2>1 DEF A!DeleteCommit, SeatsInv, Deleting, A!At
    <3>3. \A u \in Tabs \ {t} : task[u].as # j
      <4>1. \A u \in Tabs \ {t} : task[u].as = j => task[u].pc \notin A!Busy
        BY <3>1 DEF A!Others
      <4> QED BY <2>0, <4>1, TaskFacts DEF SeatsInv, SeatsTyped, Placed
    <3>4. \A u \in Tabs : task'[u].as # j
      BY <1>1, <2>0, <3>3 DEF A!Rest
    <3>5. \A d \in Devices : cookie'[d] # j
      BY <1>2, <2>0, <3>1
    <3> QED BY <1>5, <3>2, <3>4, <3>5
  <2>2. CASE j # i
    BY <1>1, <1>2, <1>3, <1>4, <1>5, <2>0, <2>2 DEF SeatsInv, Deleting, A!At
  <2> QED BY <2>1, <2>2
<1>10. Tokens'
  <2> SUFFICES ASSUME NEW x \in Guests, <<"token", x>> \notin excused'
               PROVE  /\ Joins(x)' \/ A!Seated(x)' # {} => \E d \in Devices : cookie'[d] = x
                      /\ \A u \in Tabs : task'[u].pc = "cleanup" /\ task'[u].as = x => A!Seated(x)' = {}
    BY DEF Tokens, A!At
  <2>1. A!Seated(x)' = A!Seated(x) /\ (Joins(x)' => Joins(x)) /\ <<"token", x>> \notin excused
    BY <1>1, <1>4, <1>5 DEF Joins
  <2>2. cookie[device[t]] # x
    BY <1>0, <1>a DEF A!DeleteCommit, A!Replaced, A!Me
  <2>3. (\E d \in Devices : cookie[d] = x) => \E d \in Devices : cookie'[d] = x
    BY <1>2, <2>2
  <2> QED BY <1>4, <2>1, <2>3 DEF SeatsInv, Tokens, A!At
<1> QED BY <1>6, <1>7, <1>8, <1>9, <1>10 DEF SeatsInv

-----------------------------------------------------------------------------
(* Every action *)

LEMMA SendStep ==
  ASSUME IdsDistinct, SeatsInv, NEW t \in Tabs, NEW pc \in {"create", "delete", "join", "active"},
         NEW code \in Codes \cup {None}, A!Send(t, pc, code),
         pc \in {"create", "delete"} => A!Me(t) \in Ids,
         pc = "join" => code \in Codes /\ host[code] # None
  PROVE  SeatsInv'
<1>1. PICK me \in A!Anyone : me = A!Me(t)
  BY TaskFacts DEF A!Send, SeatsInv, SeatsTyped
<1>2. pc \in A!Busy /\ A!Go(t, pc, me, code)
      /\ UNCHANGED <<device, A!who, A!rooms>> /\ excused \subseteq excused'
  BY <1>1 DEF A!Send, A!Busy
<1> DEFINE k == [pc |-> pc, as |-> me, code |-> code]
<1>3. k \in Requests /\ k.pc = pc /\ k.as = me /\ k.code = code
  BY <1>1, <1>2 DEF Requests
<1>4. /\ task' \in [Tabs -> Requests] /\ task'[t] = k /\ \A u \in Tabs \ {t} : task'[u] = task[u]
  BY <1>2, <1>3 DEF SeatsInv, SeatsTyped, AccountTypes, A!Go
<1>5. \E d \in Devices : cookie[d] = me
  BY <1>1, TaskFacts DEF A!Me, SeatsInv, SeatsTyped
<1> HIDE DEF k
<1>6. Placed(k)
  BY <1>1, <1>3 DEF Placed
<1> QED BY <1>1, <1>2, <1>3, <1>4, <1>5, <1>6, TaskStep

LEMMA AskStep ==
  ASSUME IdsDistinct, SeatsInv, NEW t \in Tabs, A!Ask(t)
  PROVE  SeatsInv'
<1>0. None \in Codes \cup {None} /\ None \in A!Anyone \cup {None} /\ None \notin Ids \cup Guests
  BY DEF IdsDistinct, A!Anyone
<1>1. ASSUME NEW pc \in {"login", "guest"}, A!Go(t, pc, None, None),
             UNCHANGED <<device, A!who, A!rooms, excused>>
      PROVE  SeatsInv'
  <2> DEFINE k == [pc |-> pc, as |-> None, code |-> None]
  <2>1. k \in Requests /\ k.pc = pc /\ k.as = None
    BY DEF Requests, A!Busy
  <2>2. task' \in [Tabs -> Requests] /\ task'[t] = k /\ \A u \in Tabs \ {t} : task'[u] = task[u]
    BY <1>1, <2>1 DEF SeatsInv, SeatsTyped, AccountTypes, A!Go
  <2> HIDE DEF k
  <2>3. Placed(k)
    BY <1>0, <2>1 DEF Placed
  <2> QED BY <1>0, <1>1, <2>1, <2>2, <2>3, TaskStep
<1>2. ASSUME A!Token(t, None), UNCHANGED <<device, user, A!rooms, task>>, A!Me(t) \in Guests => <<"token", A!Me(t)>> \in excused',
             excused \subseteq excused'
      PROVE  SeatsInv'
  <2>1. \A x \in Guests : cookie[device[t]] = x => <<"token", x>> \in excused'
    BY <1>2 DEF A!Me
  <2>2. user' \in [Ids -> {"none", "live", "deleted"}] /\ task' \in [Tabs -> Requests]
    BY <1>2 DEF SeatsInv, SeatsTyped, AccountTypes
  <2> QED BY <1>0, <1>2, <2>1, <2>2, CookieStep
<1>3. CASE A!Login(t)
  BY <1>1, <1>3 DEF A!Login
<1>4. CASE A!GuestStart(t)
  BY <1>1, <1>4 DEF A!GuestStart
<1>5. CASE A!Logout(t)
  BY <1>2, <1>5 DEF A!Logout, A!Excuse
<1>6. CASE A!Doubled(t)
  BY <1>2, <1>6 DEF A!Doubled, A!Excuse
<1>7. CASE A!Send(t, "active", None)
  BY <1>0, <1>7, SendStep
<1>8. ASSUME NEW what \in {"create", "delete"}, A!Me(t) \in Ids, A!Send(t, what, None) PROVE SeatsInv'
  BY <1>0, <1>8, SendStep
<1>9. ASSUME NEW c \in Codes, host[c] # None, A!Send(t, "join", c) PROVE SeatsInv'
  BY <1>9, SendStep
<1>10. ASSUME NEW c \in Codes, A!Leave(t, c) PROVE SeatsInv'
  <2>1. host[c] # None /\ UNCHANGED <<device, A!who, task, host, excused>> /\ phase[c] = "open"
    BY <1>10 DEF A!Leave
  <2>2. PICK me \in A!Anyone : me = A!Me(t)
    BY <1>10, TaskFacts DEF A!Leave, SeatsInv, SeatsTyped
  <2>3. CASE host[c] = me
    <3>1. phase' = [phase EXCEPT ![c] = "over"] /\ seat' = seat
      BY <1>10, <2>2, <2>3 DEF A!Leave
    <3>2. /\ phase' \in [Codes -> {"open", "timer", "over"}]
          /\ \A d \in Codes : phase'[d] = IF d = c THEN "over" ELSE phase[d]
      BY <3>1 DEF SeatsInv, SeatsTyped, AccountTypes
    <3>3. seat' \in [Codes -> [A!Anyone -> {"no", "in", "out"}]]
      BY <3>1 DEF SeatsInv, SeatsTyped, AccountTypes
    <3> QED BY <2>1, <3>1, <3>2, <3>3, RoomStep
  <2>4. CASE host[c] # me
    <3>1. phase' = phase /\ seat' = [seat EXCEPT ![c][me] = "no"]
      BY <1>10, <2>2, <2>4 DEF A!Leave
    <3>2. /\ seat' \in [Codes -> [A!Anyone -> {"no", "in", "out"}]]
          /\ \A d \in Codes, i \in A!Anyone :
               seat'[d][i] = IF d = c /\ i = me THEN "no" ELSE seat[d][i]
          /\ \A d \in Codes \ {c} : seat'[d] = seat[d]
      BY <3>1 DEF SeatsInv, SeatsTyped, AccountTypes
    <3>3. phase' \in [Codes -> {"open", "timer", "over"}]
      BY <3>1 DEF SeatsInv, SeatsTyped, AccountTypes
    <3>4. \A d \in Codes, i \in Ids : host[d] = i /\ seat[d][i] = "out" => seat'[d][i] = "out"
      BY <2>4, <3>2 DEF A!Anyone
    <3>5. /\ \A d \in Codes, i \in A!Anyone : seat'[d][i] = "in" => seat[d][i] = "in"
          /\ \A d \in Codes : host[d] = None => seat'[d] = seat[d]
      BY <2>1, <3>2
    <3> QED BY <2>1, <3>1, <3>2, <3>3, <3>4, <3>5, RoomStep
  <2> QED BY <2>3, <2>4
<1>11. ASSUME NEW c \in Codes, A!GiveUp(t, c) PROVE SeatsInv'
  <2>1. UNCHANGED <<device, A!who, task, host, phase, excused>> /\ phase[c] = "timer"
    BY <1>11 DEF A!GiveUp, A!Serving
  <2>2. PICK me \in A!Anyone : me = A!Me(t)
    BY <1>11, TaskFacts DEF A!GiveUp, SeatsInv, SeatsTyped
  <2>3. seat' = [seat EXCEPT ![c][me] = "out"] /\ host[c] # None
    BY <1>11, <2>1, <2>2 DEF A!GiveUp, SeatsInv, SeatsTyped, Unmade
  <2>4. /\ seat' \in [Codes -> [A!Anyone -> {"no", "in", "out"}]]
        /\ \A d \in Codes, i \in A!Anyone :
             seat'[d][i] = IF d = c /\ i = me THEN "out" ELSE seat[d][i]
        /\ \A d \in Codes \ {c} : seat'[d] = seat[d]
    BY <2>3 DEF SeatsInv, SeatsTyped, AccountTypes
  <2>5. phase' \in [Codes -> {"open", "timer", "over"}]
    BY <2>1 DEF SeatsInv, SeatsTyped, AccountTypes
  <2> QED BY <2>1, <2>3, <2>4, <2>5, RoomStep DEF A!Anyone
<1> QED BY <1>3, <1>4, <1>5, <1>6, <1>7, <1>8, <1>9, <1>10, <1>11 DEF A!Ask

LEMMA SignedStep ==
  ASSUME IdsDistinct, SeatsInv, NEW t \in Tabs, NEW i \in Ids, A!Signed(t, i),
         UNCHANGED <<device, A!rooms>>, user' \in [Ids -> {"none", "live", "deleted"}],
         \A j \in Ids : user'[j] = "deleted" => user[j] = "deleted", user'[i] = "live"
  PROVE  SeatsInv'
<1>1. A!Token(t, i) /\ A!Done(t) /\ excused' = excused \cup ({"token"} \X A!Replaced(t, i))
  BY DEF A!Signed, A!Excuse
<1>2. /\ task' \in [Tabs -> Requests] /\ \A u \in Tabs : task'[u] = task[u] \/ task'[u] = A!Rest
  BY <1>1, DoneType DEF SeatsInv, SeatsTyped
<1>3. \A x \in Guests \ {i} : cookie[device[t]] = x => <<"token", x>> \in excused'
  BY <1>1 DEF A!Replaced, A!Me
<1>4. i \in A!Anyone \cup {None} /\ excused \subseteq excused'
  BY <1>1 DEF A!Anyone
<1> QED BY <1>1, <1>2, <1>3, <1>4, CookieStep

\* A request that ends, or goes on, with nothing else done.
LEMMA GoStep ==
  ASSUME IdsDistinct, SeatsInv, NEW t \in Tabs, NEW pc \in A!Busy, NEW as \in A!Anyone \cup {None},
         NEW code \in Codes \cup {None}, A!Go(t, pc, as, code), as = task[t].as \/ as = None,
         UNCHANGED <<device, A!who, A!rooms>>, excused \subseteq excused',
         Placed([pc |-> pc, as |-> as, code |-> code]),
         pc = "insert" => <<"create", as>> \in excused'
                          \/ (Standing(as) = {} /\ ~ A!Others(t, as, {"insert"})),
         pc = "upsert" /\ as \in Ids => A!Serving(as) = {} /\ phase[code] # "timer",
         pc = "anonymise" => A!Hosted(as) \cup A!Seated(as) = {},
         pc \in {"join", "upsert"} => Joins(as),
         pc = "cleanup" => <<"token", as>> \in excused' \/ A!Seated(as) = {}
  PROVE  SeatsInv'
<1> DEFINE k == [pc |-> pc, as |-> as, code |-> code]
<1>1. k \in Requests /\ k.pc = pc /\ k.as = as /\ k.code = code /\ Placed(k)
  BY DEF Requests
<1>2. task' \in [Tabs -> Requests] /\ task'[t] = k /\ \A u \in Tabs \ {t} : task'[u] = task[u]
  BY <1>1 DEF SeatsInv, SeatsTyped, AccountTypes, A!Go
<1> HIDE DEF k
<1>3. /\ k.pc = "insert" => \/ <<"create", k.as>> \in excused'
                            \/ Standing(k.as) = {} /\ ~ A!Others(t, k.as, {"insert"})
      /\ k.pc = "upsert" /\ k.as \in Ids => A!Serving(k.as) = {} /\ phase[k.code] # "timer"
      /\ k.as \in {task[t].as, A!Me(t), None}
  BY <1>1
<1>4. /\ k.pc = "anonymise" => A!Hosted(k.as) \cup A!Seated(k.as) = {}
      /\ k.pc \in {"join", "upsert"} /\ k.as \in Guests => Joins(k.as) \/ \E d \in Devices : cookie[d] = k.as
      /\ k.pc = "cleanup" => \/ <<"token", k.as>> \in excused' \/ A!Seated(k.as) = {}
  BY <1>1
<1>5. k \in Requests /\ Placed(k)
  BY <1>1
<1> QED BY <1>2, <1>3, <1>4, <1>5, TaskStep, ZenonT(60)

LEMMA EndStep ==
  ASSUME IdsDistinct, SeatsInv, NEW t \in Tabs, A!Done(t), UNCHANGED <<device, A!who, A!rooms>>,
         excused \subseteq excused'
  PROVE  SeatsInv'
<1>1. /\ task' \in [Tabs -> Requests] /\ task'[t] = A!Rest /\ \A u \in Tabs \ {t} : task'[u] = task[u]
  BY DoneType DEF SeatsInv, SeatsTyped
<1>2. A!Rest \in Requests /\ Placed(A!Rest) /\ A!Rest.pc = "rest" /\ A!Rest.as = None
  BY RestType DEF Placed, A!Rest
<1> QED BY <1>1, <1>2, TaskStep

LEMMA AnswerStep ==
  ASSUME IdsDistinct, SeatsInv, NEW t \in Tabs, A!Answer(t)
  PROVE  SeatsInv'
<1>0. None \in Codes \cup {None} /\ None \in A!Anyone \cup {None} /\ None \notin Ids \cup Guests
      /\ A!Busy = {"login", "signup", "guest", "create", "insert", "join", "upsert",
                 "delete", "anonymise", "active", "cleanup"}
  BY DEF IdsDistinct, A!Anyone, A!Busy
<1>1. CASE A!Find(t)
  <2>1. CASE \E i \in A!Live : A!Signed(t, i)
    <3>1. PICK i \in Ids : user[i] = "live" /\ A!Signed(t, i)
      BY <2>1 DEF A!Live
    <3>2. UNCHANGED <<device, A!rooms, user>> /\ user' \in [Ids -> {"none", "live", "deleted"}]
      BY <1>1 DEF A!Find, SeatsInv, SeatsTyped, AccountTypes
    <3> QED BY <3>1, <3>2, SignedStep
  <2>2. CASE A!Go(t, "signup", None, None) /\ UNCHANGED <<cookie, excused>>
    <3>1. UNCHANGED <<device, A!who, A!rooms, excused>> /\ Placed([pc |-> "signup", as |-> None, code |-> None])
      BY <1>1, <2>2 DEF A!Find, A!who, Placed
    <3> QED BY <1>0, <2>2, <3>1, GoStep
  <2> QED BY <1>1, <2>1, <2>2 DEF A!Find
<1>2. CASE A!SignUp(t)
  <2>1. CASE A!Live # {} /\ A!Done(t) /\ UNCHANGED <<user, cookie, excused>>
    BY <1>2, <2>1, EndStep DEF A!SignUp, A!who
  <2>2. ASSUME NEW i \in Ids, user[i] = "none", user' = [user EXCEPT ![i] = "live"], A!Signed(t, i)
        PROVE  SeatsInv'
    <3>1. UNCHANGED <<device, A!rooms>> /\ user' \in [Ids -> {"none", "live", "deleted"}]
          /\ user'[i] = "live" /\ \A j \in Ids : user'[j] = "deleted" => user[j] = "deleted"
      BY <1>2, <2>2 DEF A!SignUp, SeatsInv, SeatsTyped, AccountTypes
    <3> QED BY <2>2, <3>1, SignedStep
  <2> QED BY <1>2, <2>1, <2>2 DEF A!SignUp
<1>3. CASE A!GuestToken(t)
  <2>1. A!Done(t) /\ UNCHANGED <<device, user, A!rooms>>
    BY <1>3 DEF A!GuestToken
  <2>2. ASSUME NEW x \in Guests, A!Token(t, x), A!Excuse("token", A!Replaced(t, x)) PROVE SeatsInv'
    <3>1. /\ task' \in [Tabs -> Requests] /\ \A u \in Tabs : task'[u] = task[u] \/ task'[u] = A!Rest
      BY <2>1, DoneType DEF SeatsInv, SeatsTyped
    <3>2. \A y \in Guests \ {x} : cookie[device[t]] = y => <<"token", y>> \in excused'
      BY <2>2 DEF A!Excuse, A!Replaced, A!Me
    <3>3. /\ x \in A!Anyone \cup {None} /\ excused \subseteq excused' /\ x \notin Ids
          /\ user' \in [Ids -> {"none", "live", "deleted"}]
      BY <2>1, <2>2 DEF A!Excuse, A!Anyone, IdsDistinct, SeatsInv, SeatsTyped, AccountTypes
    <3> QED BY <2>1, <2>2, <3>1, <3>2, <3>3, CookieStep
  <2>3. CASE UNCHANGED <<issued, cookie, excused>>
    BY <2>1, <2>3, EndStep DEF A!who
  <2> QED BY <1>3, <2>2, <2>3 DEF A!GuestToken
<1>4. CASE A!CreateFind(t)
  <2>1. PICK me \in Ids : me = task[t].as
    BY <1>4 DEF A!CreateFind, A!At, SeatsInv, SeatsTyped, Placed
  <2>2. UNCHANGED <<device, A!who, A!rooms>> /\ excused \subseteq excused' /\ me \in A!Anyone \cup {None}
    BY <1>4 DEF A!CreateFind, A!Excuse, A!Anyone
  <2>3. CASE A!Done(t)
    BY <2>2, <2>3, EndStep
  <2>4. ASSUME A!Go(t, "insert", me, None), NEW c, A!Hosted(me) \subseteq {c},
               c \in A!Hosted(me) => seat[c][me] = "out", ~ A!Others(t, me, {"insert"})
        PROVE  SeatsInv'
    <3>1. Standing(me) = {}
      BY <2>4 DEF Standing
    <3>2. Placed([pc |-> "insert", as |-> me, code |-> None])
      BY DEF Placed
    <3> QED BY <1>0, <2>1, <2>2, <2>4, <3>1, <3>2, GoStep
  <2>5. ASSUME A!Go(t, "insert", me, None), <<"create", me>> \in excused' PROVE SeatsInv'
    <3>1. Placed([pc |-> "insert", as |-> me, code |-> None])
      BY DEF Placed
    <3> QED BY <1>0, <2>1, <2>2, <2>5, <3>1, GoStep
  <2>6. CASE A!Hosted(me) = {} /\ A!Go(t, "insert", me, None)
             /\ A!Excuse("create", IF A!Others(t, me, {"insert"}) THEN {me} ELSE {})
    <3>1. CASE A!Others(t, me, {"insert"})
      BY <2>5, <2>6, <3>1 DEF A!Excuse
    <3>2. CASE ~ A!Others(t, me, {"insert"})
      BY <2>4, <2>6, <3>2
    <3> QED BY <3>1, <3>2
  <2>7. ASSUME NEW c \in A!Hosted(me), seat[c][me] = "out", A!Go(t, "insert", me, None),
               A!Excuse("create", IF A!Hosted(me) # {c} \/ A!Others(t, me, {"insert"}) THEN {me} ELSE {})
        PROVE  SeatsInv'
    <3>1. CASE A!Hosted(me) # {c} \/ A!Others(t, me, {"insert"})
      BY <2>5, <2>7, <3>1 DEF A!Excuse
    <3>2. CASE ~ (A!Hosted(me) # {c} \/ A!Others(t, me, {"insert"}))
      BY <2>4, <2>7, <3>2
    <3> QED BY <3>1, <3>2
  <2> QED BY <1>4, <2>1, <2>3, <2>6, <2>7 DEF A!CreateFind
<1>5. CASE A!JoinFind(t)
  <2>1. PICK me \in A!Anyone, c \in Codes : me = task[t].as /\ c = task[t].code /\ host[c] # None
    BY <1>5 DEF A!JoinFind, A!At, SeatsInv, SeatsTyped, Placed
  <2>2. UNCHANGED <<device, A!who, A!rooms, excused>> /\ task[t].pc = "join"
    BY <1>5 DEF A!JoinFind, A!At
  <2>3. CASE A!Done(t)
    BY <2>2, <2>3, EndStep
  <2>4. CASE A!Go(t, "upsert", me, c) /\ (me \in Ids => A!Serving(me) = {})
             /\ (phase[c] = "timer" => seat[c][me] = "in")
    <3>1. me \in Ids => phase[c] # "timer"
      BY <2>4 DEF A!Serving
    <3>2. Placed([pc |-> "upsert", as |-> me, code |-> c]) /\ Joins(me)
      BY <2>1, <2>2 DEF Placed, Joins
    <3> QED BY <1>0, <2>1, <2>2, <2>4, <3>1, <3>2, GoStep
  <2> QED BY <1>5, <2>1, <2>3, <2>4 DEF A!JoinFind
<1>6. CASE A!DeleteFind(t)
  <2>1. PICK me \in Ids : me = task[t].as
    BY <1>6 DEF A!DeleteFind, A!At, SeatsInv, SeatsTyped, Placed
  <2>2. UNCHANGED <<device, A!who, A!rooms, excused>> /\ me \in A!Anyone \cup {None}
    BY <1>6 DEF A!DeleteFind, A!Anyone
  <2>3. CASE A!Done(t)
    BY <2>2, <2>3, EndStep
  <2>4. CASE A!Go(t, "anonymise", me, None)
             /\ \A c \in Codes : A!Open(c) => host[c] # me /\ seat[c][me] = "no"
    <3>1. A!Hosted(me) \cup A!Seated(me) = {}
      BY <2>4 DEF A!Hosted, A!Seated
    <3>2. Placed([pc |-> "anonymise", as |-> me, code |-> None])
      BY DEF Placed
    <3> QED BY <1>0, <2>1, <2>2, <2>4, <3>1, <3>2, GoStep
  <2> QED BY <1>6, <2>1, <2>3, <2>4 DEF A!DeleteFind
<1>7. ASSUME NEW error \in BOOLEAN, A!ActiveFind(t, error) PROVE SeatsInv'
  <2>1. PICK me \in A!Anyone : me = task[t].as
    BY <1>7 DEF A!ActiveFind, A!At, SeatsInv, SeatsTyped, Placed
  <2>2. UNCHANGED <<device, A!who, A!rooms>> /\ excused \subseteq excused'
    BY <1>7 DEF A!ActiveFind, A!Excuse
  <2>3. CASE A!Done(t)
    BY <2>2, <2>3, EndStep
  <2>4. CASE /\ me \in Guests /\ (error \/ A!Seated(me) = {}) /\ A!Go(t, "cleanup", me, None)
             /\ A!Excuse("token", IF error \/ A!Others(t, me, {"join", "upsert"}) THEN {me} ELSE {})
    <3>1. <<"token", me>> \in excused' \/ A!Seated(me) = {}
      BY <2>4 DEF A!Excuse
    <3>2. Placed([pc |-> "cleanup", as |-> me, code |-> None])
      BY <2>4 DEF Placed
    <3> QED BY <1>0, <2>1, <2>2, <2>4, <3>1, <3>2, GoStep
  <2> QED BY <1>7, <2>1, <2>3, <2>4 DEF A!ActiveFind
<1>8. CASE A!Cleanup(t)
  <2>1. task[t].pc = "cleanup" /\ A!Done(t) /\ UNCHANGED <<device, user, issued, A!rooms>>
        /\ excused \subseteq excused'
    BY <1>8 DEF A!Cleanup, A!At, A!Excuse
  <2>2. CASE A!Me(t) \notin Guests
    <3>1. cookie' = cookie
      BY <1>8, <2>2, TaskFacts DEF A!Cleanup, A!Me, SeatsInv, SeatsTyped, AccountTypes
    <3> QED BY <2>1, <3>1, EndStep DEF A!who
  <2>3. CASE A!Me(t) \in Guests
    <3>1. A!Token(t, None)
      BY <1>8, <2>3 DEF A!Cleanup, A!Token, A!Me
    <3>2. /\ task' \in [Tabs -> Requests] /\ task'[t] = A!Rest /\ \A u \in Tabs \ {t} : task'[u] = task[u]
      BY <2>1, DoneType DEF SeatsInv, SeatsTyped
    <3>3. ASSUME NEW x \in Guests, cookie[device[t]] = x, <<"token", x>> \notin excused'
          PROVE  A!Seated(x) = {} /\ ~ Joins(x)'
      <4>1. task[t].as = x /\ ~ A!Others(t, x, {"join", "upsert"})
        BY <1>8, <3>3 DEF A!Cleanup, A!Excuse, A!Me
      <4>2. A!Seated(x) = {}
        BY <2>1, <3>3, <4>1 DEF SeatsInv, Tokens, A!At
      <4>3. ~ Joins(x)'
        BY <3>2, <4>1 DEF Joins, A!Others, A!Rest
      <4> QED BY <4>2, <4>3
    <3>4. user' \in [Ids -> {"none", "live", "deleted"}]
      BY <2>1 DEF SeatsInv, SeatsTyped, AccountTypes
    <3>5. \A u \in Tabs : task'[u] = task[u] \/ task'[u] = A!Rest
      BY <3>2
    <3> QED BY <1>0, <2>1, <3>1, <3>2, <3>3, <3>4, <3>5, CookieStep
  <2> QED BY <2>2, <2>3
<1> QED
  BY <1>1, <1>2, <1>3, <1>4, <1>5, <1>6, <1>7, <1>8, InsertStep, UpsertStep, DeleteStep DEF A!Answer

LEMMA SeatsStep == IdsDistinct /\ SeatsInv /\ [A!Next]_(A!all) => SeatsInv'
<1> SUFFICES ASSUME IdsDistinct, SeatsInv, [A!Next]_(A!all) PROVE SeatsInv'
  OBVIOUS
<1>1. ASSUME NEW c \in Codes, A!Start(c) PROVE SeatsInv'
  <2>1. /\ UNCHANGED <<device, A!who, task, host, seat>> /\ excused \subseteq excused'
        /\ host[c] # None /\ phase[c] = "open" /\ phase' = [phase EXCEPT ![c] = "timer"]
    BY <1>1 DEF A!Start, A!Excuse
  <2>2. /\ phase' \in [Codes -> {"open", "timer", "over"}]
        /\ \A d \in Codes : phase'[d] = IF d = c THEN "timer" ELSE phase[d]
        /\ seat' \in [Codes -> [A!Anyone -> {"no", "in", "out"}]]
    BY <2>1 DEF SeatsInv, SeatsTyped, AccountTypes
  <2>3. \A t \in Tabs : A!At(t, "upsert") => <<"join", task[t].as>> \in excused'
    BY <1>1 DEF A!Start, A!Excuse, SeatsInv, SeatsTyped, Placed, A!At
  <2> QED BY <2>1, <2>2, <2>3, RoomStep
<1>2. ASSUME NEW c \in Codes, A!Finish(c) PROVE SeatsInv'
  <2>1. /\ UNCHANGED <<device, A!who, task, host, seat, excused>>
        /\ host[c] # None /\ phase' = [phase EXCEPT ![c] = "over"]
    BY <1>2 DEF A!Finish, A!Open
  <2>2. /\ phase' \in [Codes -> {"open", "timer", "over"}]
        /\ \A d \in Codes : phase'[d] = IF d = c THEN "over" ELSE phase[d]
        /\ seat' \in [Codes -> [A!Anyone -> {"no", "in", "out"}]]
    BY <2>1 DEF SeatsInv, SeatsTyped, AccountTypes
  <2> QED BY <2>1, <2>2, RoomStep
<1>3. CASE UNCHANGED A!all
  <2>1. UNCHANGED <<device, A!who, task, host, phase, seat, excused>>
    BY <1>3 DEF A!all, A!rooms
  <2>2. phase' \in [Codes -> {"open", "timer", "over"}]
        /\ seat' \in [Codes -> [A!Anyone -> {"no", "in", "out"}]]
    BY <2>1 DEF SeatsInv, SeatsTyped, AccountTypes
  <2> QED BY <2>1, <2>2, RoomStep
<1> QED BY <1>1, <1>2, <1>3, AskStep, AnswerStep DEF A!Next

LEMMA SeatsStart == IdsDistinct /\ A!Init => SeatsInv
<1> SUFFICES ASSUME IdsDistinct, A!Init PROVE SeatsInv
  OBVIOUS
<1>0. \A t \in Tabs : task[t] = A!Rest /\ task[t].pc = "rest" /\ task[t].as = None
  BY DEF A!Init, A!Rest
<1>1. SeatsTyped
  <2>1. AccountTypes
    BY RestType DEF A!Init, AccountTypes, A!Anyone
  <2>2. \A t \in Tabs : Placed(task[t])
    BY <1>0 DEF Placed
  <2> QED BY <2>1, <2>2 DEF SeatsTyped, A!Init, Unmade
<1>2. \A i \in A!Anyone : A!Hosted(i) = {} /\ A!Seated(i) = {}
  BY DEF A!Init, A!Hosted, A!Seated, IdsDistinct
<1>3. Hosting
  BY <1>0, <1>2 DEF Hosting, Standing, A!At, A!Anyone
<1>4. Entering /\ Deleting /\ Tokens
  BY <1>0, <1>2 DEF Entering, Deleting, Tokens, A!At, Joins, A!Init, IdsDistinct, A!Anyone
<1> QED BY <1>1, <1>3, <1>4 DEF SeatsInv

-----------------------------------------------------------------------------
(* Theorems *)

\* Types, for any number of tabs, devices, accounts, guests and rooms.
THEOREM AccountsTypeCorrect == ASSUME IdsDistinct PROVE A!Spec => []SeatsTyped
<1>1. SeatsInv => SeatsTyped
  BY DEF SeatsInv
<1> QED BY <1>1, SeatsStart, SeatsStep, PTL DEF A!Spec

\* Whatever requests of whatever tabs interleave: an account hosts one room, and
\* a seat in an unfinished room has an owner who can come back to it, but for the
\* overlaps that excused names one by one (create, join, deleteMe, useActiveRoom).
THEOREM SeatsAreHeld == ASSUME IdsDistinct PROVE A!Spec => []A!SeatsHold
<1>1. SeatsInv => A!HostsOne
  <2> SUFFICES ASSUME SeatsInv, NEW i \in Ids, <<"create", i>> \notin excused
               PROVE  Cardinality({c \in A!Hosted(i) : seat[c][i] # "out"}) < 2
    BY DEF A!HostsOne, A!Cardinality, Cardinality
  <2>1. \A c, d \in Standing(i) : c = d
    BY DEF SeatsInv, Hosting
  <2>2. CASE Standing(i) = {}
    BY <2>2, FS_EmptySet DEF Standing
  <2>3. ASSUME NEW c \in Standing(i) PROVE Cardinality(Standing(i)) = 1
    <3>1. Standing(i) = {c}
      BY <2>1
    <3> QED BY <3>1, FS_Singleton
  <2>4. Cardinality(Standing(i)) \in {0, 1}
    BY <2>3, FS_EmptySet
  <2> QED BY <2>4 DEF Standing
<1>2. IdsDistinct /\ SeatsInv => A!NobodyStranded
  <2> SUFFICES ASSUME SeatsInv PROVE A!NobodyStranded
    OBVIOUS
  <2>1. \A i \in Ids : A!Hosted(i) \cup A!Seated(i) # {} /\ user[i] = "deleted" => <<"delete", i>> \in excused
    BY DEF SeatsInv, Deleting
  <2>2. \A g \in Guests : A!Seated(g) # {} /\ (\A d \in Devices : cookie[d] # g) => <<"token", g>> \in excused
    BY DEF SeatsInv, Tokens
  <2> QED BY <2>1, <2>2 DEF A!NobodyStranded
<1> QED BY <1>1, <1>2, SeatsStart, SeatsStep, PTL DEF A!Spec, A!SeatsHold

\* An account that serves in a running session takes no seat elsewhere, unless
\* the session began while it was joining (findMemberInTimerRoom).
THEOREM EntersNoOther == ASSUME IdsDistinct PROVE A!Spec => A!EntersOne
<1>1. IdsDistinct /\ SeatsInv /\ [A!Next]_(A!all) =>
        [\A i \in Ids : \A c \in Codes :
           (seat[c][i] = "no" /\ seat'[c][i] = "in" /\ A!Serving(i) # {}) => <<"join", i>> \in excused]_(A!all)
  <2> SUFFICES ASSUME SeatsInv, [A!Next]_(A!all), NEW i \in Ids, NEW c \in Codes, seat[c][i] = "no",
                      seat'[c][i] = "in", A!Serving(i) # {}
               PROVE  <<"join", i>> \in excused
    OBVIOUS
  <2>1. PICK t \in Tabs : A!JoinUpsert(t) /\ task[t].as = i
    <3>0. seat \in [Codes -> [A!Anyone -> {"no", "in", "out"}]] /\ i \in A!Anyone
      BY DEF SeatsInv, SeatsTyped, AccountTypes, A!Anyone
    <3>1. ASSUME NEW t \in Tabs, A!JoinUpsert(t), task[t].as # i PROVE FALSE
      BY <3>0, <3>1 DEF A!JoinUpsert
    <3>2. ASSUME NEW t \in Tabs, A!Answer(t) PROVE A!JoinUpsert(t)
      BY <3>2 DEF A!Answer, A!Find, A!SignUp, A!GuestToken, A!CreateFind, A!CreateInsert, A!JoinFind, A!DeleteFind,
         A!DeleteCommit, A!ActiveFind, A!Cleanup, A!rooms
    <3>3. ASSUME NEW t \in Tabs, A!Ask(t) PROVE FALSE
      <4>1. ASSUME NEW d \in Codes, A!Leave(t, d) PROVE FALSE
        BY <3>0, <4>1 DEF A!Leave
      <4>2. ASSUME NEW d \in Codes, A!GiveUp(t, d) PROVE FALSE
        BY <3>0, <4>2 DEF A!GiveUp
      <4> QED BY <3>3, <4>1, <4>2 DEF A!Ask, A!Login, A!Send, A!GuestStart, A!Logout, A!Doubled, A!rooms
    <3>4. CASE (\E d \in Codes : A!Start(d) \/ A!Finish(d)) \/ UNCHANGED A!all
      BY <3>4 DEF A!Start, A!Finish, A!all, A!rooms
    <3> QED BY <3>1, <3>2, <3>3, <3>4 DEF A!Next
  <2> QED BY <2>1 DEF A!JoinUpsert, SeatsInv, Entering, A!At
<1> QED BY <1>1, SeatsStart, SeatsStep, PTL DEF A!Spec, A!EntersOne

-----------------------------------------------------------------------------
(* Saved contracts *)

RuleSteps == {"idle", "save_find", "save_create", "update_find", "update_twin", "update_clear",
        "update_write", "delete_find", "delete_row", "done", "refused"}
\* The awaits at which a row of this title is known.
Updating == {"update_find", "update_twin", "update_clear", "update_write"}

AnyRow  == [title : Titles, settings : Nat, penalties : SUBSET Nat]
AnyTask == [pc : RuleSteps, title : Titles, row : Nat, save : Nat, seen : SUBSET Nat]

\* A table of rows that have been made.
Table(f) == f \in [DOMAIN f -> AnyRow] /\ DOMAIN f \subseteq 1..made

Shapes ==
  /\ made \in Nat /\ saves \in Nat /\ Table(rules)
  /\ asking \in [Tabs -> AnyTask] /\ \A t \in Tabs : asking[t].row <= made
  /\ saved = [t \in Tabs |-> saved[t]] /\ \A t \in Tabs : Table(saved[t])
  /\ stale \subseteq Tabs /\ behind \subseteq Tabs /\ opened = [t \in Tabs |-> opened[t]]

\* A row keeps its title, so that what lists and requests say of it stays true ...
TitlesKept ==
  \A t \in Tabs :
    /\ \A i \in DOMAIN saved[t] \cap DOMAIN rules : saved[t][i].title = rules[i].title
    /\ asking[t].pc \in Updating /\ asking[t].row \in DOMAIN rules =>
         rules[asking[t].row].title = asking[t].title

\* ... and two rows never share one.
TitlesDistinct == \A i, j \in DOMAIN rules : rules[i].title = rules[j].title => i = j

\* A transaction has removed what the row has, unless another one writes the row too.
Writers ==
  \A t \in Tabs : asking[t].pc = "update_write" =>
    /\ asking[t].row \in DOMAIN rules \ blended => asking[t].seen = rules[asking[t].row].penalties
    /\ \A u \in Tabs \ {t} :
         asking[u].pc = "update_write" /\ asking[u].row = asking[t].row => asking[t].row \in blended

\* A list that is not stale lacks at most what its tab has just done.
Lists == \A t \in Tabs \ (stale \cup behind) : asking[t].pc # "done" => saved[t] = rules

\* The inductive invariant.
SavedInv == Shapes /\ TitlesKept /\ TitlesDistinct /\ Writers /\ S!KeptWhole /\ Lists

-----------------------------------------------------------------------------
(* Its start *)

LEMMA RulesStart == Titles # {} /\ S!Init => SavedInv
<1> SUFFICES ASSUME Titles # {}, S!Init PROVE SavedInv
  OBVIOUS
<1>1. S!NoTask \in AnyTask /\ S!NoTask.pc = "idle" /\ S!NoTask.row = 0
  BY DEF S!NoTask, AnyTask, RuleSteps
<1>2. PICK x \in Titles : rules = [i \in {1} |-> S!Saved(x, 1)]
  BY DEF S!Init
<1>3. DOMAIN rules = {1} /\ rules[1] = S!Saved(x, 1) /\ S!Saved(x, 1) \in AnyRow
  BY <1>2 DEF S!Saved, AnyRow
<1>4. Shapes
  <2>1. Table(rules)
    BY <1>2, <1>3 DEF Table, S!Init
  <2>2. Table(S!Empty)
    BY DEF Table, S!Empty
  <2> QED BY <1>1, <2>1, <2>2 DEF S!Init, Shapes
<1>5. TitlesKept
  BY <1>1 DEF S!Init, TitlesKept, S!Empty, Updating
<1>6. TitlesDistinct /\ S!KeptWhole
  BY <1>3 DEF TitlesDistinct, S!KeptWhole, S!Saved
<1>7. Writers /\ Lists
  BY <1>1 DEF S!Init, Writers, Lists
<1> QED BY <1>4, <1>5, <1>6, <1>7 DEF SavedInv

-----------------------------------------------------------------------------
(* The tab *)

\* What changes neither rows nor requests.
LEMMA ViewKeeps ==
  ASSUME SavedInv, NEW t \in Tabs,
         (\E w \in {"save", "load"} : S!Open(t, w)) \/ S!Look(t) \/ S!Age(t) \/ S!Close(t)
  PROVE  SavedInv'
<1> USE DEF SavedInv
<1>1. UNCHANGED <<rules, asking, made, saves, blended>>
  BY DEF S!Open, S!Look, S!Age, S!Close
<1>2. saved' = saved \/ (saved' = [saved EXCEPT ![t] = rules] /\ stale' = stale \ {t} /\ behind' = behind \ {t})
  BY DEF S!Open, S!Look, S!Age, S!Close
<1>3. saved' = saved => (stale \subseteq stale' /\ behind' = behind) \/ S!Look(t)
  BY DEF S!Open, S!Look, S!Age, S!Close
<1>4. Shapes'
  <2>1. stale' \subseteq Tabs /\ behind' \subseteq Tabs /\ opened' = [u \in Tabs |-> opened'[u]]
    BY DEF S!Open, S!Look, S!Age, S!Close, Shapes
  <2>2. \A u \in Tabs : saved'[u] = saved[u] \/ saved'[u] = rules
    BY <1>2 DEF Shapes
  <2>3. saved' = [u \in Tabs |-> saved'[u]]
    BY <1>2 DEF Shapes
  <2> QED BY <1>1, <2>1, <2>2, <2>3 DEF Shapes, Table
<1>5. TitlesKept'
  BY <1>1, <1>2 DEF TitlesKept, Shapes
<1>6. TitlesDistinct' /\ Writers' /\ S!KeptWhole'
  BY <1>1 DEF TitlesDistinct, Writers, S!KeptWhole
<1>7. Lists'
  <2>1. CASE S!Look(t)
    BY <2>1, <1>1 DEF Lists, S!Look, Shapes
  <2>2. CASE ~S!Look(t)
    BY <2>2, <1>1 DEF Lists, S!Open, S!Age, S!Close
  <2> QED BY <2>1, <2>2
<1> QED BY <1>4, <1>5, <1>6, <1>7

\* A request leaves, or moves on without a change.
Moves(t, pc) == asking' = [asking EXCEPT ![t].pc = pc] /\ UNCHANGED <<rules, blended, made>>

LEMMA AskKeeps ==
  ASSUME SavedInv, NEW t \in Tabs, (\E x \in Titles : S!Save(t, x)) \/ (\E i \in S!Numbers : S!Delete(t, i))
  PROVE  SavedInv'
<1> USE DEF SavedInv
<1>1. PICK pc \in {"save_find", "update_find", "delete_find"}, x \in Titles, i \in Nat, n \in Nat :
        /\ S!Ask(t, pc, x, i, n) /\ i <= made
        /\ pc = "update_find" /\ i \in DOMAIN rules => rules[i].title = x
  <2>1. CASE \E i \in S!Numbers : S!Delete(t, i)
    <3>1. PICK i \in S!Numbers : S!Delete(t, i)
      BY <2>1
    <3>2. saved[t][i].title \in Titles /\ i \in 1..made
      BY <3>1 DEF S!Delete, Shapes, Table, AnyRow
    <3> QED BY <3>1, <3>2 DEF S!Delete
  <2>2. CASE \E x \in Titles : S!Save(t, x)
    <3>1. PICK x \in Titles : S!Save(t, x)
      BY <2>2
    <3>2. saves' \in Nat /\ made \in Nat
      BY <3>1 DEF S!Save, Shapes
    <3>3. CASE S!Titled(saved[t], x) = {}
      <4>1. S!Ask(t, "save_find", x, 0, saves')
        BY <3>1, <3>3 DEF S!Save
      <4> QED BY <3>2, <4>1
    <3>4. CASE S!Titled(saved[t], x) # {}
      <4> DEFINE i == CHOOSE i \in S!Titled(saved[t], x) : TRUE
      <4>1. i \in S!Titled(saved[t], x)
        BY <3>4
      <4>2. i \in 1..made /\ saved[t][i].title = x /\ i \in DOMAIN saved[t]
        BY <4>1 DEF S!Titled, Shapes, Table
      <4>3. S!Ask(t, "update_find", x, i, saves')
        BY <3>1, <3>4 DEF S!Save
      <4>4. i \in DOMAIN rules => rules[i].title = x
        BY <4>2 DEF TitlesKept
      <4> HIDE DEF i
      <4> QED BY <3>2, <4>2, <4>3, <4>4
    <3> QED BY <3>3, <3>4
  <2> QED BY <2>1, <2>2
<1>2. asking[t].pc = "idle" /\ UNCHANGED <<rules, saved, stale, opened, behind, blended, made>>
  BY <1>1 DEF S!Ask, S!tab
<1>3. asking' = [asking EXCEPT ![t] = [pc |-> pc, title |-> x, row |-> i, save |-> n, seen |-> {}]]
  BY <1>1 DEF S!Ask
<1>4. /\ asking'[t] = [pc |-> pc, title |-> x, row |-> i, save |-> n, seen |-> {}]
      /\ \A u \in Tabs \ {t} : asking'[u] = asking[u]
  BY <1>3 DEF Shapes
<1>5. Shapes'
  <2>1. [pc |-> pc, title |-> x, row |-> i, save |-> n, seen |-> {}] \in AnyTask
    BY DEF AnyTask, RuleSteps
  <2>2. asking' \in [Tabs -> AnyTask] /\ \A u \in Tabs : asking'[u].row <= made
    BY <1>1, <1>3, <1>4, <2>1 DEF Shapes
  <2>3. saves' \in Nat
    <3>1. saves' = saves + 1 \/ saves' = saves
      BY DEF S!Save, S!Delete
    <3> QED BY <3>1 DEF Shapes
  <2> QED BY <1>2, <2>2, <2>3 DEF Shapes, Table
<1>6. TitlesKept'
  BY <1>1, <1>2, <1>4 DEF TitlesKept, Updating
<1>7. TitlesDistinct' /\ S!KeptWhole'
  BY <1>2 DEF TitlesDistinct, S!KeptWhole
<1>8. Writers' /\ Lists'
  BY <1>1, <1>2, <1>4 DEF Writers, Lists
<1> QED BY <1>5, <1>6, <1>7, <1>8

LEMMA AnsweredKeeps == ASSUME SavedInv, NEW t \in Tabs, S!Answered(t) PROVE SavedInv'
<1> USE DEF SavedInv
<1>1. UNCHANGED <<rules, saved, behind, blended, made, saves>>
  BY DEF S!Answered
<1>2. asking'[t] = S!NoTask /\ \A u \in Tabs \ {t} : asking'[u] = asking[u]
  BY DEF S!Answered, Shapes
<1>3. stale' = (IF asking[t].pc = "done" THEN stale \cup {t} ELSE stale) /\ asking[t].pc \in {"done", "refused"}
  BY DEF S!Answered
<1>4. Shapes'
  <2>1. S!NoTask \in AnyTask /\ S!NoTask.row = 0
    <3>1. Titles # {}
      BY DEF Shapes, AnyTask
    <3> QED BY <3>1 DEF S!NoTask, AnyTask, RuleSteps
  <2>2. asking' \in [Tabs -> AnyTask]
    BY <2>1 DEF S!Answered, Shapes
  <2>3. \A u \in Tabs : asking'[u].row <= made
    BY <1>2, <2>1 DEF Shapes
  <2>4. opened' = [u \in Tabs |-> opened'[u]]
    BY DEF S!Answered, Shapes
  <2> QED BY <1>1, <1>3, <2>2, <2>3, <2>4 DEF Shapes, Table
<1>5. TitlesKept'
  BY <1>1, <1>2 DEF TitlesKept, S!NoTask, Updating
<1>6. TitlesDistinct' /\ S!KeptWhole'
  BY <1>1 DEF TitlesDistinct, S!KeptWhole
<1>7. Writers' /\ Lists'
  BY <1>1, <1>2, <1>3 DEF Writers, Lists, S!NoTask
<1> QED BY <1>4, <1>5, <1>6, <1>7

-----------------------------------------------------------------------------
(* The server *)

LEMMA MovesKeep ==
  ASSUME SavedInv, NEW t \in Tabs, NEW pc \in RuleSteps \ {"idle", "update_write", "done"},
         Moves(t, pc), pc \in Updating => asking[t].pc \in Updating,
         UNCHANGED <<saved, stale, opened, saves>>,
         behind' = behind \/ (behind' = behind \cup {t}), asking[t].pc = "done" => behind' = behind \cup {t}
  PROVE  SavedInv'
<1> USE DEF SavedInv, Moves
<1>1. /\ asking'[t] = [asking[t] EXCEPT !.pc = pc] /\ asking'[t] \in AnyTask
      /\ asking'[t].pc = pc /\ asking'[t].row = asking[t].row /\ asking'[t].title = asking[t].title
      /\ \A u \in Tabs \ {t} : asking'[u] = asking[u]
  BY DEF Shapes, AnyTask
<1>2. Shapes'
  <2>1. asking' \in [Tabs -> AnyTask]
    BY <1>1 DEF Shapes
  <2>2. \A u \in Tabs : asking'[u].row <= made
    BY <1>1 DEF Shapes
  <2> QED BY <2>1, <2>2 DEF Shapes, Table
<1>3. TitlesKept'
  BY <1>1 DEF TitlesKept
<1>4. TitlesDistinct' /\ S!KeptWhole'
  BY DEF TitlesDistinct, S!KeptWhole
<1>5. Writers'
  BY <1>1 DEF Writers
<1>6. Lists'
  BY <1>1 DEF Lists
<1> QED BY <1>2, <1>3, <1>4, <1>5, <1>6

\* Steps that change no row.
ReadStep(t) ==
  \/ S!SaveFind(t) \/ S!UpdateFind(t) \/ S!UpdateTwin(t) \/ S!DeleteFind(t) \/ S!Lose(t)
  \/ S!SaveCreate(t) /\ S!Titled(rules, asking[t].title) # {}
  \/ S!UpdateWrite(t) /\ asking[t].row \notin DOMAIN rules
  \/ S!DeleteRow(t) /\ asking[t].row \notin DOMAIN rules

LEMMA ReadsKeep == ASSUME SavedInv, NEW t \in Tabs, ReadStep(t) PROVE SavedInv'
<1>1. ASSUME NEW from \in RuleSteps \ {"done"}, NEW pc \in RuleSteps \ {"idle", "update_write", "done"},
             S!To(t, from, pc), S!Reads, pc \in Updating => from \in Updating
      PROVE  SavedInv'
  BY <1>1, MovesKeep DEF S!To, S!Reads, Moves, S!tab
<1>2. CASE S!SaveFind(t)
  BY <1>1, <1>2 DEF S!SaveFind, RuleSteps, Updating
<1>3. CASE S!UpdateFind(t)
  BY <1>1, <1>3 DEF S!UpdateFind, RuleSteps, Updating
<1>4. CASE S!UpdateTwin(t)
  BY <1>1, <1>4 DEF S!UpdateTwin, RuleSteps, Updating
<1>5. CASE S!DeleteFind(t)
  BY <1>1, <1>5 DEF S!DeleteFind, RuleSteps, Updating
<1>6. CASE S!Lose(t)
  BY <1>6, MovesKeep DEF S!Lose, Moves, RuleSteps, Updating, S!tab
<1>7. CASE S!SaveCreate(t) /\ S!Titled(rules, asking[t].title) # {}
  BY <1>1, <1>7 DEF S!SaveCreate, RuleSteps, Updating
<1>8. CASE S!UpdateWrite(t) /\ asking[t].row \notin DOMAIN rules
  BY <1>1, <1>8 DEF S!UpdateWrite, RuleSteps, Updating
<1>9. CASE S!DeleteRow(t) /\ asking[t].row \notin DOMAIN rules
  BY <1>1, <1>9 DEF S!DeleteRow, RuleSteps, Updating
<1> QED BY <1>2, <1>3, <1>4, <1>5, <1>6, <1>7, <1>8, <1>9 DEF ReadStep

\* A tab whose request is done knows what it changed, the others do not.
LEMMA ChangesKeepLists ==
  ASSUME SavedInv, NEW t \in Tabs, S!Changes(t), asking' = [asking EXCEPT ![t].pc = "done"]
  PROVE  Lists'
<1>1. asking'[t].pc = "done"
  BY DEF SavedInv, Shapes, AnyTask
<1> QED BY <1>1 DEF S!Changes, Lists

LEMMA SaveCreateKeeps ==
  ASSUME SavedInv, NEW t \in Tabs, S!SaveCreate(t), S!Titled(rules, asking[t].title) = {}
  PROVE  SavedInv'
<1> USE DEF SavedInv
<1>1. /\ S!To(t, "save_create", "done") /\ made' = made + 1 /\ S!Changes(t) /\ UNCHANGED blended
      /\ rules' = [i \in DOMAIN rules \cup {made'} |->
                     IF i = made' THEN S!Saved(asking[t].title, asking[t].save) ELSE rules[i]]
  BY DEF S!SaveCreate
<1> DEFINE new == S!Saved(asking[t].title, asking[t].save)
<1>2. made \in Nat /\ made' \notin DOMAIN rules /\ \A u \in Tabs : made' \notin DOMAIN saved[u] /\ made' # asking[u].row
  BY <1>1 DEF Shapes, Table
<1>3. /\ DOMAIN rules' = DOMAIN rules \cup {made'} /\ rules'[made'] = new
      /\ \A i \in DOMAIN rules : rules'[i] = rules[i]
  BY <1>1, <1>2
<1>4. /\ asking' = [asking EXCEPT ![t].pc = "done"] /\ asking'[t].pc = "done" /\ asking'[t].row = asking[t].row
      /\ \A u \in Tabs \ {t} : asking'[u] = asking[u]
  BY <1>1 DEF S!To, Shapes, AnyTask
<1>5. new \in AnyRow /\ new.title = asking[t].title /\ new.penalties = {new.settings}
  BY DEF S!Saved, AnyRow, Shapes, AnyTask
<1>6. Shapes'
  <2>1. asking' \in [Tabs -> AnyTask]
    BY <1>4 DEF Shapes, AnyTask, RuleSteps
  <2>2. \A u \in Tabs : asking'[u].row \in Nat /\ asking'[u].row <= made'
    BY <1>1, <1>2, <1>4, <2>1 DEF Shapes, AnyTask
  <2>3. rules' \in [DOMAIN rules' -> AnyRow]
    <3> HIDE DEF new
    <3> QED BY <1>1, <1>3, <1>5 DEF Shapes, Table
  <2>4. 1..made \subseteq 1..made' /\ made' \in 1..made' /\ made' \in Nat
    BY <1>1, <1>2
  <2>5. DOMAIN rules' \subseteq 1..made'
    BY <1>3, <2>4 DEF Shapes, Table
  <2>6. UNCHANGED <<saved, stale, opened, saves>> /\ behind' \subseteq Tabs
    BY <1>1 DEF S!Changes, S!tab, Shapes
  <2>7. \A u \in Tabs : saved[u] \in [DOMAIN saved[u] -> AnyRow] /\ DOMAIN saved[u] \subseteq 1..made'
    BY <2>4 DEF Shapes, Table
  <2> QED BY <2>1, <2>2, <2>3, <2>4, <2>5, <2>6, <2>7 DEF Shapes, Table
<1>7. TitlesKept'
  <2>1. saved' = saved
    BY <1>1 DEF S!Changes, S!tab
  <2> QED BY <1>2, <1>3, <1>4, <2>1 DEF TitlesKept, Updating
<1>8. TitlesDistinct'
  <2>1. \A i \in DOMAIN rules : rules[i].title # asking[t].title
    BY DEF S!Titled
  <2> HIDE DEF new
  <2> QED BY <1>2, <1>3, <1>5, <2>1 DEF TitlesDistinct
<1>9. S!KeptWhole'
  <2> HIDE DEF new
  <2> QED BY <1>1, <1>2, <1>3, <1>5 DEF S!KeptWhole
<1>10. Writers'
  BY <1>1, <1>2, <1>3, <1>4 DEF Writers
<1>11. Lists'
  BY <1>1, <1>4, ChangesKeepLists
<1> QED BY <1>6, <1>7, <1>8, <1>9, <1>10, <1>11

LEMMA UpdateClearKeeps == ASSUME SavedInv, NEW t \in Tabs, S!UpdateClear(t) PROVE SavedInv'
<1> USE DEF SavedInv
<1> DEFINE i == asking[t].row
           twins == {u \in Tabs \ {t} : asking[u].pc = "update_write" /\ asking[u].row = i}
           found == IF i \in DOMAIN rules THEN rules[i].penalties ELSE {}
<1>1. /\ asking[t].pc = "update_clear" /\ UNCHANGED <<rules, saved, stale, opened, behind, made, saves>>
      /\ asking' = [asking EXCEPT ![t].pc = "update_write", ![t].seen = found]
      /\ blended' = IF twins = {} THEN blended ELSE blended \cup {i}
  BY DEF S!UpdateClear, S!tab
<1>2. found \in SUBSET Nat
  BY DEF Shapes, Table, AnyRow
<1> HIDE DEF found
<1>3. /\ asking'[t].pc = "update_write" /\ asking'[t].row = i /\ asking'[t].title = asking[t].title
      /\ asking'[t].seen = found /\ \A u \in Tabs \ {t} : asking'[u] = asking[u]
  BY <1>1 DEF Shapes, AnyTask
<1>4. Shapes'
  <2>1. [asking[t] EXCEPT !.pc = "update_write", !.seen = found] \in AnyTask
    BY <1>2 DEF Shapes, AnyTask, RuleSteps
  <2>2. asking' = [asking EXCEPT ![t] = [asking[t] EXCEPT !.pc = "update_write", !.seen = found]]
    BY <1>1
  <2>3. asking' \in [Tabs -> AnyTask]
    BY <2>1, <2>2 DEF Shapes
  <2>4. \A u \in Tabs : asking'[u].row <= made
    BY <1>3 DEF Shapes
  <2> QED BY <1>1, <2>3, <2>4 DEF Shapes, Table
<1>5. TitlesKept'
  <2>1. asking[t].pc \in Updating
    BY <1>1 DEF Updating
  <2>2. \A u \in Tabs : asking'[u].pc \in Updating => asking[u].pc \in Updating
    BY <1>3, <2>1
  <2>3. \A u \in Tabs : asking'[u].row = asking[u].row /\ asking'[u].title = asking[u].title
    BY <1>3
  <2> HIDE DEF twins
  <2> QED BY <1>1, <2>2, <2>3 DEF TitlesKept
<1>6. TitlesDistinct' /\ S!KeptWhole'
  BY <1>1 DEF TitlesDistinct, S!KeptWhole
<1>7. Writers'
  <2>1. blended \subseteq blended' /\ (twins # {} => i \in blended')
    BY <1>1
  <2>2. ASSUME NEW u \in Tabs, asking'[u].pc = "update_write", asking'[u].row \in DOMAIN rules' \ blended'
        PROVE  asking'[u].seen = rules'[asking'[u].row].penalties
    <3>1. CASE u = t
      BY <1>1, <1>3, <2>2, <3>1 DEF found
    <3>2. CASE u # t
      <4>1. asking'[u] = asking[u] /\ rules' = rules
        BY <1>1, <1>3, <3>2
      <4>2. asking[u].pc = "update_write" /\ asking[u].row \in DOMAIN rules \ blended
        BY <2>1, <2>2, <4>1
      <4>3. asking[u].seen = rules[asking[u].row].penalties
        BY <4>2 DEF Writers
      <4> QED BY <4>1, <4>3
    <3> QED BY <3>1, <3>2
  <2>3. ASSUME NEW u \in Tabs, NEW v \in Tabs \ {u}, asking'[u].pc = "update_write",
               asking'[v].pc = "update_write", asking'[v].row = asking'[u].row
        PROVE  asking'[u].row \in blended'
    <3>1. CASE u = t
      <4>1. v \in twins
        BY <1>3, <2>3, <3>1
      <4> QED BY <1>3, <2>1, <3>1, <4>1
    <3>2. CASE v = t
      <4>1. u \in twins
        BY <1>3, <2>3, <3>2
      <4> QED BY <1>3, <2>1, <2>3, <3>2, <4>1
    <3>3. CASE u # t /\ v # t
      BY <1>3, <2>1, <2>3, <3>3 DEF Writers
    <3> QED BY <3>1, <3>2, <3>3
  <2> QED BY <2>2, <2>3 DEF Writers
<1>8. Lists'
  BY <1>1, <1>3 DEF Lists
<1> QED BY <1>4, <1>5, <1>6, <1>7, <1>8

LEMMA UpdateWriteKeeps ==
  ASSUME SavedInv, NEW t \in Tabs, S!UpdateWrite(t), asking[t].row \in DOMAIN rules
  PROVE  SavedInv'
<1> USE DEF SavedInv
<1> DEFINE i == asking[t].row
           written == [title |-> asking[t].title, settings |-> asking[t].save,
                       penalties |-> (rules[i].penalties \ asking[t].seen) \cup {asking[t].save}]
<1>1. /\ S!To(t, "update_write", "done") /\ S!Changes(t) /\ UNCHANGED <<blended, made>>
      /\ rules' = [rules EXCEPT ![i] = written]
  BY DEF S!UpdateWrite
<1>2. /\ asking[t].pc = "update_write" /\ asking' = [asking EXCEPT ![t].pc = "done"] /\ asking'[t].pc = "done"
      /\ asking'[t].row = i /\ \A u \in Tabs \ {t} : asking'[u] = asking[u]
  BY <1>1 DEF S!To, Shapes, AnyTask
<1>3. /\ DOMAIN rules' = DOMAIN rules /\ rules'[i] = written
      /\ \A j \in DOMAIN rules \ {i} : rules'[j] = rules[j]
  BY <1>1
<1>4. written \in AnyRow
  BY DEF AnyRow, AnyTask, Shapes, Table
<1>5. written.title = rules[i].title
  BY <1>2 DEF TitlesKept, Updating
<1>6. i \in blended \/ written.penalties = {written.settings}
  BY <1>2 DEF Writers
<1> HIDE DEF written
<1>7. Shapes'
  <2>1. asking' \in [Tabs -> AnyTask]
    BY <1>2 DEF Shapes, AnyTask, RuleSteps
  <2>2. \A u \in Tabs : asking'[u].row <= made
    BY <1>2 DEF Shapes
  <2>3. rules' \in [DOMAIN rules' -> AnyRow] /\ DOMAIN rules' \subseteq 1..made
    BY <1>1, <1>3, <1>4 DEF Shapes, Table
  <2>4. UNCHANGED <<saved, stale, opened, saves>> /\ behind' \subseteq Tabs
    BY <1>1 DEF S!Changes, S!tab, Shapes
  <2> QED BY <1>1, <2>1, <2>2, <2>3, <2>4 DEF Shapes, Table
<1>8. \A j \in DOMAIN rules : rules'[j].title = rules[j].title
  BY <1>3, <1>5
<1>9. TitlesKept'
  <2>1. saved' = saved
    BY <1>1 DEF S!Changes, S!tab
  <2> QED BY <1>2, <1>3, <1>8, <2>1 DEF TitlesKept, Updating
<1>10. TitlesDistinct'
  BY <1>3, <1>8 DEF TitlesDistinct
<1>11. S!KeptWhole'
  BY <1>1, <1>3, <1>6 DEF S!KeptWhole
<1>12. Writers'
  BY <1>1, <1>2, <1>3 DEF Writers
<1>13. Lists'
  BY <1>1, <1>2, ChangesKeepLists
<1> QED BY <1>7, <1>9, <1>10, <1>11, <1>12, <1>13

LEMMA DeleteRowKeeps ==
  ASSUME SavedInv, NEW t \in Tabs, S!DeleteRow(t), asking[t].row \in DOMAIN rules
  PROVE  SavedInv'
<1> USE DEF SavedInv
<1>1. /\ S!To(t, "delete_row", "done") /\ S!Changes(t) /\ UNCHANGED <<blended, made>>
      /\ rules' = [i \in DOMAIN rules \ {asking[t].row} |-> rules[i]]
  BY DEF S!DeleteRow
<1>2. /\ asking' = [asking EXCEPT ![t].pc = "done"] /\ asking'[t].pc = "done" /\ asking'[t].row = asking[t].row
      /\ \A u \in Tabs \ {t} : asking'[u] = asking[u]
  BY <1>1 DEF S!To, Shapes, AnyTask
<1>3. DOMAIN rules' \subseteq DOMAIN rules /\ \A i \in DOMAIN rules' : rules'[i] = rules[i]
  BY <1>1
<1>4. Shapes'
  <2>1. asking' \in [Tabs -> AnyTask]
    BY <1>2 DEF Shapes, AnyTask, RuleSteps
  <2>2. \A u \in Tabs : asking'[u].row <= made
    BY <1>2 DEF Shapes
  <2>3. rules' \in [DOMAIN rules' -> AnyRow] /\ DOMAIN rules' \subseteq 1..made
    BY <1>1, <1>3 DEF Shapes, Table
  <2>4. UNCHANGED <<saved, stale, opened, saves>> /\ behind' \subseteq Tabs
    BY <1>1 DEF S!Changes, S!tab, Shapes
  <2> QED BY <1>1, <2>1, <2>2, <2>3, <2>4 DEF Shapes, Table
<1>5. TitlesKept'
  <2>1. saved' = saved
    BY <1>1 DEF S!Changes, S!tab
  <2> QED BY <1>2, <1>3, <2>1 DEF TitlesKept, Updating
<1>6. TitlesDistinct' /\ S!KeptWhole'
  BY <1>1, <1>3 DEF TitlesDistinct, S!KeptWhole
<1>7. Writers'
  BY <1>1, <1>2, <1>3 DEF Writers
<1>8. Lists'
  BY <1>1, <1>2, ChangesKeepLists
<1> QED BY <1>4, <1>5, <1>6, <1>7, <1>8

LEMMA RulesStep == SavedInv /\ [S!RulesNext]_(S!vars) => SavedInv'
<1> SUFFICES ASSUME SavedInv, [S!RulesNext]_(S!vars) PROVE SavedInv'
  OBVIOUS
<1>1. CASE UNCHANGED S!vars
  BY <1>1 DEF S!vars, SavedInv, Shapes, Table, TitlesKept, TitlesDistinct, Writers, S!KeptWhole, Lists
<1>2. CASE S!RulesNext
  <2>1. PICK t \in Tabs :
          \/ S!Open(t, "save") \/ S!Open(t, "load") \/ S!Look(t) \/ S!Age(t) \/ S!Close(t)
          \/ \E x \in Titles : S!Save(t, x)
          \/ \E i \in S!Numbers : S!Delete(t, i)
          \/ S!SaveFind(t) \/ S!SaveCreate(t) \/ S!UpdateFind(t) \/ S!UpdateTwin(t) \/ S!UpdateClear(t)
          \/ S!UpdateWrite(t) \/ S!DeleteFind(t) \/ S!DeleteRow(t) \/ S!Lose(t) \/ S!Answered(t)
    BY <1>2 DEF S!RulesNext
  <2>2. CASE ReadStep(t)
    BY <2>2, ReadsKeep
  <2>3. CASE ~ReadStep(t) /\ (S!SaveCreate(t) \/ S!UpdateClear(t) \/ S!UpdateWrite(t) \/ S!DeleteRow(t))
    BY <2>3, SaveCreateKeeps, UpdateClearKeeps, UpdateWriteKeeps, DeleteRowKeeps DEF ReadStep
  <2>4. CASE (\E x \in Titles : S!Save(t, x)) \/ (\E i \in S!Numbers : S!Delete(t, i))
    BY <2>4, AskKeeps
  <2>5. CASE S!Answered(t)
    BY <2>5, AnsweredKeeps
  <2>6. CASE S!Open(t, "save") \/ S!Open(t, "load") \/ S!Look(t) \/ S!Age(t) \/ S!Close(t)
    BY <2>6, ViewKeeps
  <2> QED BY <2>1, <2>2, <2>3, <2>4, <2>5, <2>6 DEF ReadStep
<1> QED BY <1>1, <1>2

LEMMA SavedHolds == ASSUME Titles # {} PROVE S!RulesSpec => []SavedInv
BY RulesStart, RulesStep, PTL DEF S!RulesSpec

\* A title names one saved contract, its penalties are those of the save its
\* settings are from unless two overwrites of it overlapped, and a list that a tab
\* takes for current lacks nothing the tab can know of (saveRuleTemplate,
\* updateRuleTemplate, handleSave).
THEOREM SavesAreMeant == ASSUME Titles # {} PROVE S!RulesSpec => []S!SavedAsMeant
<1>1. SavedInv => S!SavedAsMeant
  <2> SUFFICES ASSUME SavedInv PROVE S!SavedAsMeant
    OBVIOUS
  <2>1. ASSUME NEW x \in Titles PROVE Cardinality(S!Titled(rules, x)) <= 1
    <3>1. CASE S!Titled(rules, x) = {}
      BY <3>1, FS_EmptySet
    <3>2. CASE S!Titled(rules, x) # {}
      <4>1. PICK i \in S!Titled(rules, x) : TRUE
        BY <3>2
      <4>2. S!Titled(rules, x) = {i}
        BY <4>1 DEF SavedInv, TitlesDistinct, S!Titled
      <4>3. Cardinality({i}) = 1
        BY FS_Singleton
      <4> QED BY <4>2, <4>3
    <3> QED BY <3>1, <3>2
  <2>2. S!ListCurrent
    BY DEF SavedInv, Lists, S!ListCurrent
  <2> QED BY <2>1, <2>2 DEF S!SavedAsMeant, S!OneByTitle, SavedInv, S!Cardinality, Cardinality
<1> QED BY <1>1, SavedHolds, PTL

=============================================================================
