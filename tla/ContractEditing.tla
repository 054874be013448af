---------------------------- MODULE ContractEditing ----------------------------
(***************************************************************************)
(* The contract a room writes together before its session: a shared Yjs    *)
(* document, the pages that edit their own replica of it (useYjsContract   *)
(* and the cards of ContractForm), the signatures that an edit withdraws,  *)
(* and the rule the host's page sends when the session starts.             *)
(*                                                                         *)
(* The document travels over one connection, the contract:edited and       *)
(* member:sign events over another: nothing orders one after the other.    *)
(* The list of a document is a sequence of items; an edit deletes items    *)
(* and inserts new ones, and replicas merge by items.  subject names the   *)
(* part of the contract a behaviour edits: the tiers, the timer fields or  *)
(* the penalties.                                                          *)
(***************************************************************************)
EXTENDS Integers, Sequences, FiniteSets, FiniteSetsExt, Functions

CONSTANTS
  Pages,      \* the members' pages
  Host,       \* the host's page
  Trials,     \* what a behaviour may be: <<the part of the contract it edits,
              \* who has canEdit, and (bounds) edits, who signs, reloads>>
  Limit,      \* MAX_TOTAL_MIN
  Pcts,       \* bound: the percentages typed into a tier
  Typed,      \* bound: the numbers typed into a timer field
  SavedTiers, \* bound: the tiers of a saved contract, <<[min, max, count]>>
  SavedFields,\* bound: its timer fields
  MaxTiers,   \* bound: the length of a list
  NoPct,      \* null, the upper end of the last tier
  None        \* null

ASSUME EditingAssumption ==
  /\ Host \in Pages /\ IsFiniteSet(Pages)
  /\ Trials \subseteq {"tiers", "fields", "penalties"} \X (SUBSET Pages) \X Nat \X (SUBSET Pages) \X Nat
  /\ Limit \in Nat /\ Pcts \subseteq 0..99 /\ Typed \subseteq Nat
  /\ MaxTiers \in Nat
  /\ NoPct \notin Int

Keys      == <<"focusMin", "breakMin", "rounds">>
Tiers     == [min : 0..99, max : 0..99 \cup {NoPct}, count : Nat]
Field     == [key : {"focusMin", "breakMin", "rounds"}, n : Nat]
Penalties == {"blank", "text"}
Values(s) == CASE s = "tiers" -> Tiers [] s = "fields" -> Field [] OTHER -> Penalties

\* validateTiers: every tier ends where the next one begins.
Joined(tiers) == \A i \in 1..(Len(tiers) - 1) : tiers[i].max = tiers[i + 1].min
\* The ranges of CreateRoomRuleDto, and the length of the session.
Total(f)   == f[1].n * f[3].n + f[2].n * Max({0, f[3].n - 1})
InRange(f) == f[2].n \in 1..120 /\ f[3].n \in 1..20 /\ f[1].n >= 1 /\ Total(f) <= Limit

\* Tier 1 of a new contract; the fields a page shows before any are set.
DefaultTier   == [min |-> 0, max |-> NoPct, count |-> 0]
Fields(f)     == [k \in 1..3 |-> [key |-> Keys[k], n |-> f[k]]]
DefaultFields == Fields(<<25, 5, 4>>)

\* Saving checks that the tiers are joined and that each field is in its range
\* (saveRuleTemplate), but adds nothing up: that a saved timer fits the limit is
\* assumed of the page that saved it, and so of one that no other had overtaken.
ASSUME SavedAssumption ==
  /\ \A t \in SavedTiers : t \in Seq(Tiers) /\ Joined(t)
  /\ \A f \in SavedFields : f \in Seq(Nat) /\ Len(f) = 3 /\ InRange(Fields(f))
  /\ InRange(DefaultFields)

VARIABLES
  subject, \* the part of the contract that is edited
  editors, \* the pages whose member has canEdit
  signers, \* bound: the members who ever sign
  local,   \* the Y.Doc of every page: [items, dead]
  server,  \* the Y.Doc of the server
  synced,  \* the pages whose provider has reported its first sync
  wire,    \* Socket.IO: every page's events on their way to the server
  signed,  \* Redis isSigned
  dto,     \* handleStartFocus: the rule on its way to createRoomRule
  forced,  \* the host asked for forceStartTimer
  template,\* the room's template, once createRoomRule has stored it
  started, \* the members the session started with, or None
  fresh,   \* the next item id
  edits, reloads, \* bounds: those that may still come
  crossed, \* history: two replicas changed before they met
  approved,\* history: what every member's page showed when they signed
  raced    \* history: a signature, an edit, a reload or a start overtook another

docs    == <<local, server, synced, fresh>>
events  == <<wire, signed>>
start   == <<dto, forced, template, started>>
bounds  == <<edits, reloads>>
history == <<crossed, approved, raced>>
trial   == <<subject, editors, signers>>
vars    == <<trial, docs, events, start, bounds, history>>

Items == [id : Nat, v : Values(subject)]
Docs  == [items : Seq(Items), dead : SUBSET Nat]

TypeOK ==
  /\ subject \in {"tiers", "fields", "penalties"} /\ editors \cup signers \subseteq Pages
  /\ local \in [Pages -> Docs] /\ server \in Docs
  /\ synced \subseteq Pages /\ signed \subseteq Pages
  /\ wire \in [Pages -> Seq({"edited", "sign"})]
  /\ dto \in Seq(Values(subject)) \cup {None} /\ template \in Seq(Values(subject)) \cup {None}
  /\ forced \in BOOLEAN /\ started \in (SUBSET Pages) \cup {None}
  /\ fresh \in Nat /\ edits \in Nat /\ reloads \in Nat
  /\ crossed \in BOOLEAN /\ raced \in BOOLEAN
  /\ approved \in [Pages -> Seq(Values(subject)) \cup {None}]

\* The fields of a new document stand for their defaults from the start.
Empty(s) == [items |-> IF s = "fields" THEN [k \in 1..3 |-> [id |-> k, v |-> DefaultFields[k]]]
                       ELSE <<>>,
             dead |-> {}]

Init ==
  /\ \E r \in Trials : /\ subject = r[1] /\ editors = r[2] /\ edits = r[3]
                      /\ signers = r[4] /\ reloads = r[5]
  /\ local = [p \in Pages |-> Empty(subject)] /\ server = Empty(subject)
  /\ synced = {} /\ fresh = 4
  /\ wire = [p \in Pages |-> <<>>] /\ signed = {}
  /\ dto = None /\ forced = FALSE /\ template = None /\ started = None
  /\ crossed = FALSE /\ approved = [p \in Pages |-> None] /\ raced = FALSE

-----------------------------------------------------------------------------
(* The document *)

Shown(d)  == [i \in 1..Len(d.items) |-> d.items[i].v]
\* What a replica has seen made, and seen deleted.
Made(d)   == {d.items[i].id : i \in 1..Len(d.items)} \cup d.dead
Knows(d)  == (Made(d) \X {"made"}) \cup (d.dead \X {"gone"})

\* The timer fields a page shows, as a record.
Timer(d) == [focusMin |-> d.items[1].v.n, breakMin |-> d.items[2].v.n, rounds |-> d.items[3].v.n]

\* Items of s that are in l come in the same order.
Keeps(l, s) ==
  \A i, j \in DOMAIN s, m, n \in DOMAIN l : i < j /\ l[m] = s[i] /\ l[n] = s[j] => m < n

\* Yjs: both deletions hold; the items that are left keep the order of
\* either side, and of two values of one key one wins.
Merge(a, b) ==
  IF Knows(a) \subseteq Knows(b) THEN {b}
  ELSE IF Knows(b) \subseteq Knows(a) THEN {a}
  ELSE LET left == {i \in Range(a.items) \cup Range(b.items) : i.id \notin a.dead \cup b.dead}
           Lists == IF subject = "fields"
                    THEN {l \in [1..3 -> left] : \A k \in 1..3 : l[k].v.key = Keys[k]}
                    ELSE {l \in Bijection(1..Cardinality(left), left) :
                            Keeps(l, a.items) /\ Keeps(l, b.items)}
       IN {[items |-> l, dead |-> (Made(a) \cup Made(b)) \ {i.id : i \in Range(l)}] : l \in Lists}

\* y-websocket: the server takes over what page p has changed.
Push(p) ==
  /\ started = None
  /\ server # local[p] /\ ~(Knows(local[p]) \subseteq Knows(server))
  /\ p \in synced
  /\ server' \in Merge(local[p], server)
  /\ crossed' = (crossed \/ ~(Knows(server) \subseteq Knows(local[p])))
  /\ UNCHANGED <<trial, local, synced, fresh, events, start, bounds, approved, raced>>

\* n values become new items.
New(vs) == [i \in 1..Len(vs) |-> [id |-> fresh + i - 1, v |-> vs[i]]]

\* A transaction of page p: items from..to of the list give way to vs; the
\* observer reports a local change to the server (contract:edited).
Splice(d, from, to, vs) ==
  [items |-> SubSeq(d.items, 1, from - 1) \o New(vs) \o SubSeq(d.items, to + 1, Len(d.items)),
   dead |-> d.dead \cup {d.items[i].id : i \in from..to}]
Transact(p, d, from, to, vs) ==
  /\ local' = [local EXCEPT ![p] = Splice(d, from, to, vs)]
  /\ fresh' = fresh + Len(vs)
  /\ wire' = [wire EXCEPT ![p] = Append(@, "edited")]
  /\ raced' = (raced \/ \E q \in Pages \ {p} : "sign" \in Range(wire[q]))

\* Page p takes over what the server has.  The first time the host's page,
\* once it knows that it is the host's, seeds an empty list of tiers.
Pull(p) ==
  /\ started = None
  /\ p \notin synced \/ ~(Knows(server) \subseteq Knows(local[p]))
  /\ synced' = synced \cup {p}
  /\ crossed' = (crossed \/ (~(Knows(local[p]) \subseteq Knows(server))
                              /\ ~(Knows(server) \subseteq Knows(local[p]))))
  /\ \E d \in Merge(local[p], server) :
       \/ /\ local' = [local EXCEPT ![p] = d]
          /\ UNCHANGED <<fresh, wire, raced>>
       \/ /\ p \notin synced /\ p = Host /\ subject = "tiers" /\ d.items = <<>>
          /\ Transact(p, d, 1, 0, <<DefaultTier>>)
  /\ UNCHANGED <<trial, server, signed, start, bounds, approved>>

-----------------------------------------------------------------------------
(* Edits *)

\* Bound: nobody edits after two replicas have crossed.
MayEdit(p, s) ==
  /\ subject = s /\ p \in editors /\ started = None
  /\ ~crossed /\ edits > 0
Edit(p, from, to, vs) ==
  /\ Transact(p, local[p], from, to, vs)
  /\ edits' = edits - 1
  /\ UNCHANGED <<trial, server, synced, signed, start, reloads, crossed, approved>>

CanAddTier(tiers) == tiers # <<>> => tiers[Len(tiers)].min < 99

\* addTier.  A list that is only displayed becomes real.
AddTier(p) ==
  LET d == local[p]
      last == IF d.items = <<>> THEN DefaultTier ELSE d.items[Len(d.items)].v
      at == IF last.max = NoPct THEN last.min + 1 ELSE last.max IN
  /\ MayEdit(p, "tiers") /\ Len(d.items) < MaxTiers /\ CanAddTier(Shown(d))
  /\ Edit(p, IF d.items = <<>> THEN 1 ELSE Len(d.items), Len(d.items),
          <<[last EXCEPT !.max = at], [min |-> at, max |-> NoPct, count |-> 1]>>)

\* Mutant: the tiers behind the one that moved keep where they begin.
SetTierBoundaryAlone(p, i) ==
  LET tiers == Shown(local[p]) IN
  /\ MayEdit(p, "tiers") /\ i < Len(tiers)
  /\ \E pct \in Pcts :
       pct > tiers[i].min /\ Edit(p, 1, Len(tiers), [tiers EXCEPT ![i].max = pct])

\* What the input commits, while typing or on leaving it: a number above the
\* tier's start, or the old end when the field is left empty.
TierPctInput(tier) ==
  {n \in Pcts : n > tier.min} \cup {IF tier.max # NoPct THEN tier.max ELSE Min({99, tier.min + 1})}

\* The tiers once tier i ends at pct: those behind are moved along.
Moved(tiers, i, pct) ==
  LET new[j \in 1..Len(tiers)] ==
        IF j < i THEN tiers[j]
        ELSE IF j = i THEN [tiers[j] EXCEPT !.max = pct]
        ELSE LET from == IF new[j-1].max = NoPct THEN 0 ELSE new[j-1].max
                 to == tiers[j].max IN
             [tiers[j] EXCEPT
                !.min = from,
                !.max = IF j = Len(tiers) THEN NoPct
                        ELSE IF to = NoPct \/ (to # NoPct /\ to <= from)
                        THEN Min({99, from + 1}) ELSE to]
  IN new

\* setTierBoundary
SetTierBoundary(p, i) ==
  LET tiers == Shown(local[p]) IN
  /\ MayEdit(p, "tiers") /\ i < Len(tiers)
  /\ \E pct \in TierPctInput(tiers[i]) : Edit(p, 1, Len(tiers), Moved(tiers, i, pct))

\* removeTier: every tier but the first; the next one begins where the one
\* before ends, and the end of the last one stays what it was.
RemoveTier(p, i) ==
  LET tiers == Shown(local[p])
      left == [j \in 1..(Len(tiers) - 1) |-> IF j < i THEN tiers[j] ELSE tiers[j + 1]]
      End(j) == IF left[j].max = NoPct THEN 0 ELSE left[j].max IN
  /\ MayEdit(p, "tiers") /\ i > 1
  /\ Edit(p, 1, Len(tiers),
          [j \in 1..Len(left) |-> [left[j] EXCEPT !.min = IF j = 1 THEN 0 ELSE End(j - 1)]])

\* What the input commits: a number, or the old one when nothing was typed.
PenaltyCountInput(tier) == {2, tier.count}

\* updateTier
UpdateTier(p, i) ==
  LET d == local[p]
      tier == IF d.items = <<>> THEN DefaultTier ELSE d.items[i].v IN
  /\ MayEdit(p, "tiers")
  /\ \E n \in PenaltyCountInput(tier) :
       Edit(p, i, IF d.items = <<>> THEN 0 ELSE i, <<[tier EXCEPT !.count = n]>>)

\* The most that TimerSettings lets into field k beside the other two.
Most(t, k) ==
  CASE k = 1 -> Min({120, Max({1, (Limit - t.breakMin * Max({0, t.rounds - 1})) \div t.rounds})})
    [] k = 2 -> IF t.rounds > 1
                THEN Min({120, Max({1, (Limit - t.focusMin * t.rounds) \div (t.rounds - 1)})})
                ELSE 59
    [] k = 3 -> Min({20, Max({1, Limit \div (t.focusMin + t.breakMin)})})

\* The input clamps what is typed, and on leaving it what it shows.
TimerNumberInput(old, most) == {Max({1, Min({most, n})}) : n \in Typed \cup {old}}

\* updateField.  Without a break its length cannot be typed.
UpdateField(p, k) ==
  LET t == Timer(local[p]) IN
  /\ MayEdit(p, "fields") /\ (k = 2 => t.rounds > 1)
  /\ \E n \in TimerNumberInput(t[Keys[k]], Most(t, k)) :
       Edit(p, k, k, <<[key |-> Keys[k], n |-> n]>>)

\* addPenalty, updatePenalty, removePenalty
AddPenalty(p) ==
  /\ MayEdit(p, "penalties") /\ Len(local[p].items) < MaxTiers
  /\ Edit(p, Len(local[p].items) + 1, Len(local[p].items), <<"blank">>)
UpdatePenalty(p, i, v) == MayEdit(p, "penalties") /\ Edit(p, i, i, <<v>>)
RemovePenalty(p, i)    == MayEdit(p, "penalties") /\ Edit(p, i, i, <<>>)

\* applyAll: a loaded list takes the place of what there is, or is added.
ApplyAll(p, values, mode) ==
  LET n == Len(local[p].items) IN
  IF mode = "append" THEN n < MaxTiers /\ Edit(p, n + 1, n, values)
  ELSE Edit(p, 1, n, values)

\* LoadContractDialog: the parts of a saved contract the user ticked.
LoadContract(p) ==
  \/ MayEdit(p, "tiers") /\ \E t \in SavedTiers : ApplyAll(p, t, "replace")
  \/ MayEdit(p, "fields") /\ \E f \in SavedFields :
       ApplyAll(p, Fields(f), "replace")
  \/ MayEdit(p, "penalties") /\ \E mode \in {"replace", "append"} : ApplyAll(p, <<"text">>, mode)

\* A page is loaded again: a new replica; what was not pushed is lost.
Reload(p) ==
  /\ started = None /\ reloads > 0 /\ reloads' = reloads - 1
  /\ local' = [local EXCEPT ![p] = Empty(subject)] /\ synced' = synced \ {p}
  /\ dto' = IF p = Host THEN None ELSE dto
  /\ raced' = (raced \/ ~(Knows(local[p]) \subseteq Knows(server)))
  /\ UNCHANGED <<trial, server, fresh, events, forced, template, started, edits, crossed, approved>>

-----------------------------------------------------------------------------
(* Signatures *)

\* toBackendFormat: penalties without a text are left out.
Texts(vs) ==
  LET f[i \in 0..Len(vs)] ==
        IF i = 0 THEN <<>> ELSE IF vs[i] = "blank" THEN f[i-1] ELSE Append(f[i-1], vs[i])
  IN f[Len(vs)]
Content(d) == IF subject = "penalties" THEN Texts(Shown(d)) ELSE Shown(d)

\* Some replica has an edit that d has not.
Behind(d) == \E q \in Pages : ~(Knows(local[q]) \subseteq Knows(d))

\* handleSignToggle
Sign(p) ==
  /\ started = None /\ p \in synced \cap signers /\ p \notin signed /\ "sign" \notin Range(wire[p])
  /\ wire' = [wire EXCEPT ![p] = Append(@, "sign")]
  /\ approved' = [approved EXCEPT ![p] = Content(local[p])]
  /\ raced' = (raced \/ Behind(local[p]) \/ ~(Knows(server) \subseteq Knows(local[p])) \/ dto # None)
  /\ UNCHANGED <<trial, docs, signed, start, bounds, crossed>>

\* Mutant: an edit takes back the signature of its author alone.
ReceiveOwn(p) ==
  /\ started = None /\ wire[p] # <<>>
  /\ wire' = [wire EXCEPT ![p] = Tail(@)]
  /\ signed' = IF Head(wire[p]) = "sign" THEN signed \cup {p} ELSE signed \ {p}
  /\ UNCHANGED <<trial, docs, start, bounds, history>>

\* handleSign; handleContractEdited resets every signature.
Receive(p) ==
  /\ started = None /\ wire[p] # <<>>
  /\ wire' = [wire EXCEPT ![p] = Tail(@)]
  /\ signed' = IF Head(wire[p]) = "sign" THEN signed \cup {p} ELSE {}
  /\ UNCHANGED <<trial, docs, start, bounds, history>>

-----------------------------------------------------------------------------
(* The start of the session *)

\* handleStartFocus, handleForceStartFocus: the rule is what the host's page
\* shows at the click.
StartFocus(force) ==
  /\ started = None /\ dto = None /\ Host \in synced /\ Host \in signed
  /\ dto' = Content(local[Host]) /\ forced' = force /\ template' = None
  /\ UNCHANGED <<trial, docs, events, started, bounds, history>>

\* The checks of createRoomRule and of its DTO.
Accepted(c) ==
  CASE subject = "tiers"  -> Joined(c)
    [] subject = "fields" -> InRange(c)
    [] OTHER              -> TRUE

\* createRoomRule: a rule that is refused ends the start.
CreateRoomRule ==
  /\ started = None /\ dto # None /\ template = None
  /\ IF Accepted(dto) THEN template' = dto /\ UNCHANGED dto
     ELSE dto' = None /\ UNCHANGED template
  /\ UNCHANGED <<trial, docs, events, forced, started, bounds, history>>

\* startTimer wants every signature; forceStartTimer the host's, and removes
\* whoever else has not signed.
StartTimer ==
  /\ started = None /\ dto # None /\ template # None
  /\ IF Host \in signed /\ (forced \/ signed = Pages)
     THEN started' = signed /\ UNCHANGED dto
     ELSE dto' = None /\ UNCHANGED started
  /\ raced' = (raced \/ \E p \in Pages : "edited" \in Range(wire[p]))
  /\ UNCHANGED <<trial, docs, events, forced, template, bounds, crossed, approved>>

-----------------------------------------------------------------------------
Next ==
  \/ \E p \in Pages :
       \/ Push(p) \/ Pull(p) \/ Reload(p) \/ Sign(p) \/ Receive(p)
       \/ AddTier(p) \/ AddPenalty(p) \/ LoadContract(p)
       \/ \E i \in 1..Len(local[p].items) :
            \/ SetTierBoundary(p, i) \/ RemoveTier(p, i) \/ RemovePenalty(p, i)
            \/ \E v \in Penalties : UpdatePenalty(p, i, v)
       \/ \E i \in 1..Max({1, Len(local[p].items)}) : UpdateTier(p, i)
       \/ \E k \in 1..3 : UpdateField(p, k)
  \/ \E force \in BOOLEAN : StartFocus(force)
  \/ CreateRoomRule \/ StartTimer

Spec == Init /\ [][Next]_vars

-----------------------------------------------------------------------------
(* Properties *)

\* A contract that one page at a time has edited is one that createRoomRule
\* takes: no sequence of edits in TierSettings and TimerSettings leads to an
\* error when the host starts.
Startable == ~crossed => \A p \in Pages : Accepted(Content(local[p]))

\* Everybody in a session signed the contract it runs by, as their own page
\* showed it, unless a signature, an edit, a reload or the start overtook one
\* another.
RunsAsSeen == started # None /\ ~raced => \A p \in started : approved[p] = template
=============================================================================
