------------------------ MODULE ContractEditingProofs ------------------------
(* That replicas agree on the items they share, that a contract edited by one *)
(* page at a time can be started, and that a session runs by what its members  *)
(* signed: for every set of pages, of trials and of saved contracts.           *)
EXTENDS ContractEditing, SequenceTheorems, FiniteSetTheorems, WellFoundedInduction, TLAPS

-----------------------------------------------------------------------------
(* Numbers and lists *)

\* A non-empty set of naturals has a least element.
LEMMA Least ==
  ASSUME NEW S, S \subseteq Nat, S # {}
  PROVE  \E x \in S : \A y \in S : x <= y
<1> DEFINE R == OpToRel(<, Nat)
<1>1. IsWellFoundedOn(R, Nat)
  BY NatLessThanWellFounded
<1>2. \E x \in S : \A y \in S : <<y, x>> \notin R
  <2> HIDE DEF R
  <2> QED BY <1>1, WFMin
<1>3. \A x, y \in Nat : <<y, x>> \notin R => x <= y
  BY DEF OpToRel
<1> QED BY <1>2, <1>3

\* Induction, for a set in place of a formula.
LEMMA Inductive ==
  ASSUME NEW T, 0 \in T, \A n \in T \cap Nat : n + 1 \in T
  PROVE  Nat \subseteq T
<1> SUFFICES ASSUME Nat \ T # {} PROVE FALSE
  OBVIOUS
<1>1. PICK x \in Nat \ T : \A y \in Nat \ T : x <= y
  BY Least
<1>2. x # 0 /\ x - 1 \in Nat /\ x - 1 \notin Nat \ T
  BY <1>1
<1>3. (x - 1) + 1 \in T
  BY <1>2
<1>4. (x - 1) + 1 = x
  BY <1>1
<1> QED BY <1>1, <1>3, <1>4

\* The lesser of two numbers, and the greater.
LEMMA TwoMin ==
  ASSUME NEW x \in Int, NEW y \in Int
  PROVE  /\ Min({x, y}) \in {x, y} /\ Min({x, y}) <= x /\ Min({x, y}) <= y
<1>1. \E m \in {x, y} : \A z \in {x, y} : m <= z
  <2>1. CASE x <= y
    BY <2>1
  <2>2. CASE y <= x
    BY <2>2
  <2> QED BY <2>1, <2>2
<1> QED BY <1>1 DEF Min

LEMMA TwoMax ==
  ASSUME NEW x \in Int, NEW y \in Int
  PROVE  /\ Max({x, y}) \in {x, y} /\ Max({x, y}) >= x /\ Max({x, y}) >= y
<1>1. \E m \in {x, y} : \A z \in {x, y} : m >= z
  <2>1. CASE x >= y
    BY <2>1
  <2>2. CASE y >= x
    BY <2>2
  <2> QED BY <2>1, <2>2
<1> QED BY <1>1 DEF Max

\* A replica knows what another one does when it has seen as much made, and as
\* much deleted.
LEMMA Inclusion ==
  ASSUME NEW a, NEW b
  PROVE  Knows(a) \subseteq Knows(b) <=> Made(a) \subseteq Made(b) /\ a.dead \subseteq b.dead
<1>1. ASSUME Knows(a) \subseteq Knows(b)
      PROVE  Made(a) \subseteq Made(b) /\ a.dead \subseteq b.dead
  <2>1. \A x \in Made(a) : <<x, "made">> \in Knows(b)
    BY <1>1 DEF Knows
  <2>2. \A x \in a.dead : <<x, "gone">> \in Knows(b)
    BY <1>1 DEF Knows
  <2> QED BY <2>1, <2>2 DEF Knows
<1> QED BY <1>1 DEF Knows

\* The items of three lists in a row.
LEMMA ThreeParts ==
  ASSUME NEW U, NEW a \in Seq(U), NEW b \in Seq(U), NEW c \in Seq(U)
  PROVE  LET t == (a \o b) \o c IN
         /\ t \in Seq(U) /\ Len(t) = Len(a) + Len(b) + Len(c)
         /\ \A i \in 1..Len(t) :
              t[i] = IF i <= Len(a) THEN a[i]
                     ELSE IF i <= Len(a) + Len(b) THEN b[i - Len(a)]
                     ELSE c[i - Len(a) - Len(b)]
OBVIOUS

\* t is s with b in the place of its items from..to.
Replaces(t, s, b, from, to) ==
  /\ Len(t) = Len(s) + Len(b) + from - to - 1
  /\ \A i \in 1..Len(t) :
       t[i] = IF i < from THEN s[i]
              ELSE IF i < from + Len(b) THEN b[i - from + 1]
              ELSE s[i - Len(b) + to + 1 - from]

\* A splice puts a list in the place of items from..to.
LEMMA Replaced ==
  ASSUME NEW U, NEW s \in Seq(U), NEW b \in Seq(U),
         NEW from \in Nat \ {0}, NEW to \in Nat, from <= to + 1, to <= Len(s)
  PROVE  /\ (SubSeq(s, 1, from - 1) \o b) \o SubSeq(s, to + 1, Len(s)) \in Seq(U)
         /\ Replaces((SubSeq(s, 1, from - 1) \o b) \o SubSeq(s, to + 1, Len(s)), s, b, from, to)
<1> DEFINE a == SubSeq(s, 1, from - 1)  c == SubSeq(s, to + 1, Len(s))
<1>0. Len(s) \in Nat /\ Len(b) \in Nat
  OBVIOUS
<1>1. a \in Seq(U) /\ Len(a) = from - 1 /\ \A i \in 1..(from - 1) : a[i] = s[i]
  <2>1. \A i \in 1..(from - 1) : s[i] \in U
    BY ElementOfSeq
  <2> QED BY <2>1, SubSeqProperties
<1>2. c \in Seq(U) /\ Len(c) = Len(s) - to /\ \A i \in 1..(Len(s) - to) : c[i] = s[to + i]
  <2>1. \A i \in (to + 1)..Len(s) : s[i] \in U
    BY ElementOfSeq
  <2> QED BY <2>1, SubSeqProperties
<1> HIDE DEF a, c
<1> DEFINE t == (a \o b) \o c
<1>3. /\ t \in Seq(U) /\ Len(t) = Len(a) + Len(b) + Len(c)
      /\ \A i \in 1..Len(t) :
           t[i] = IF i <= Len(a) THEN a[i]
                  ELSE IF i <= Len(a) + Len(b) THEN b[i - Len(a)]
                  ELSE c[i - Len(a) - Len(b)]
  <2>1. a \in Seq(U) /\ c \in Seq(U)
    BY <1>1, <1>2
  <2> QED BY <2>1, ThreeParts
<1>4. Len(t) = Len(s) + Len(b) + from - to - 1
  BY <1>0, <1>1, <1>2, <1>3
<1>5. ASSUME NEW i \in 1..Len(t)
      PROVE  t[i] = IF i < from THEN s[i]
                    ELSE IF i < from + Len(b) THEN b[i - from + 1]
                    ELSE s[i - Len(b) + to + 1 - from]
  <2> HIDE DEF t
  <2>1. CASE i < from
    BY <1>0, <1>1, <1>3, <2>1
  <2>2. CASE from <= i /\ i < from + Len(b)
    <3>1. t[i] = b[i - Len(a)]
      BY <1>0, <1>1, <1>3, <2>2
    <3>2. i - Len(a) = i - from + 1
      BY <1>1
    <3> QED BY <2>2, <3>1, <3>2
  <2>3. CASE from + Len(b) <= i
    <3>1. t[i] = c[i - Len(a) - Len(b)]
      <4>1. ~(i <= Len(a)) /\ ~(i <= Len(a) + Len(b))
        BY <1>0, <1>1, <2>3
      <4> QED BY <1>3, <4>1
    <3>2. i - Len(a) - Len(b) \in 1..(Len(s) - to)
          /\ to + (i - Len(a) - Len(b)) = i - Len(b) + to + 1 - from
      BY <1>0, <1>1, <1>4, <2>3
    <3>3. ~(i < from) /\ ~(i < from + Len(b))
      BY <1>0, <2>3
    <3> QED BY <1>2, <3>1, <3>2, <3>3
  <2>4. i \in Nat
    BY <1>0, <1>4
  <2> QED BY <1>0, <2>1, <2>2, <2>3, <2>4
<1> QED BY <1>3, <1>4, <1>5 DEF a, c, Replaces

-----------------------------------------------------------------------------
(* Documents *)

\* The items of a document are distinct and alive; fields stand in their places.
DocOK(d) ==
  /\ d \in Docs
  /\ \A i, j \in DOMAIN d.items : d.items[i].id = d.items[j].id => i = j
  /\ \A i \in DOMAIN d.items : d.items[i].id \notin d.dead
  /\ subject = "fields" => Len(d.items) = 3 /\ \A k \in 1..3 : d.items[k].v.key = Keys[k]

\* What two documents have in common is the same, in the same order.
Match(d, e) ==
  \A i \in DOMAIN d.items, m \in DOMAIN e.items : d.items[i].id = e.items[m].id =>
    /\ d.items[i] = e.items[m]
    /\ \A j \in DOMAIN d.items, n \in DOMAIN e.items :
         i < j /\ d.items[j].id = e.items[n].id => m < n

Known(d, n) == \A i \in Made(d) : i < n

\* A document matches itself; its ids are numbers, the dead ones among them.
LEMMA SelfMatch == ASSUME NEW d, DocOK(d) PROVE Match(d, d)
BY DEF DocOK, Match

LEMMA MadeNat == ASSUME NEW d, d \in Docs PROVE Made(d) \subseteq Nat /\ d.dead \subseteq Made(d)
<1>1. \A i \in 1..Len(d.items) : d.items[i] \in Items
  BY DEF Docs
<1>2. \A i \in 1..Len(d.items) : d.items[i].id \in Nat
  BY <1>1 DEF Items
<1> QED BY <1>2 DEF Docs, Made

\* The items of page p's document after a transaction.
LEMMA SpliceItems ==
  ASSUME NEW d, d \in Docs, NEW vs, vs \in Seq(Values(subject)), fresh \in Nat,
         NEW from \in Nat \ {0}, NEW to \in Nat, from <= to + 1, to <= Len(d.items)
  PROVE  LET s == d.items
             e == Splice(d, from, to, vs)
             t == e.items
             k == Len(vs) IN
         /\ e \in Docs
         /\ e.dead = d.dead \cup {s[i].id : i \in from..to}
         /\ Len(t) = Len(s) + k + from - to - 1
         /\ \A i \in 1..Len(t) :
              t[i] = IF i < from THEN s[i]
                     ELSE IF i < from + k THEN [id |-> fresh + i - from, v |-> vs[i - from + 1]]
                     ELSE s[i - k + to + 1 - from]
<1> DEFINE s == d.items  b == New(vs)  e == Splice(d, from, to, vs)
<1>0. Len(s) \in Nat /\ Len(vs) \in Nat /\ s \in Seq(Items) /\ d.dead \in SUBSET Nat
  BY DEF Docs
<1>1. b \in Seq(Items) /\ Len(b) = Len(vs)
      /\ \A i \in 1..Len(vs) : b[i] = [id |-> fresh + i - 1, v |-> vs[i]]
  BY DEF New, Items
<1>2. e.items = (SubSeq(s, 1, from - 1) \o b) \o SubSeq(s, to + 1, Len(s))
      /\ e.dead = d.dead \cup {s[i].id : i \in from..to}
      /\ e = [items |-> e.items, dead |-> e.dead]
  BY DEF Splice
<1> DEFINE t == (SubSeq(s, 1, from - 1) \o b) \o SubSeq(s, to + 1, Len(s))
<1>3. t \in Seq(Items) /\ Replaces(t, s, b, from, to)
  <2>1. s \in Seq(Items) /\ b \in Seq(Items) /\ to <= Len(s)
    BY <1>0, <1>1
  <2> HIDE DEF s, b
  <2> QED BY <2>1, Replaced
<1>4. e.dead \subseteq Nat
  <2>1. \A i \in from..to : s[i] \in Items
    BY <1>0
  <2>2. \A i \in from..to : s[i].id \in Nat
    BY <2>1 DEF Items
  <2> QED BY <1>0, <1>2, <2>2
<1>5. e \in Docs
  BY <1>2, <1>3, <1>4 DEF Docs
<1>6. ASSUME NEW i \in 1..Len(t)
      PROVE  t[i] = IF i < from THEN s[i]
                    ELSE IF i < from + Len(vs) THEN [id |-> fresh + i - from, v |-> vs[i - from + 1]]
                    ELSE s[i - Len(vs) + to + 1 - from]
  <2> HIDE DEF t
  <2>1. CASE from <= i /\ i < from + Len(vs)
    <3>1. t[i] = b[i - from + 1]
      BY <1>1, <1>3, <2>1 DEF Replaces
    <3>2. i - from + 1 \in 1..Len(vs) /\ fresh + (i - from + 1) - 1 = fresh + i - from
      BY <1>0, <2>1
    <3> HIDE DEF b
    <3> QED BY <1>0, <1>1, <2>1, <3>1, <3>2
  <2>2. CASE ~(from <= i /\ i < from + Len(vs))
    BY <1>0, <1>1, <1>3, <2>2 DEF Replaces
  <2> QED BY <2>1, <2>2
<1> HIDE DEF t, e, b
<1>7. e.items = t /\ Len(t) = Len(s) + Len(vs) + from - to - 1
  BY <1>1, <1>2, <1>3 DEF t, Replaces
<1> QED BY <1>2, <1>5, <1>6, <1>7 DEF e

\* The place in the old list of item i of the new one.
Place(i, from, to, k) == IF i < from THEN i ELSE i - k + to + 1 - from

\* A splice of a document is one, and matches what the old one matched: its new
\* items are nowhere else.
LEMMA SpliceOK ==
  ASSUME NEW d, DocOK(d), Known(d, fresh), fresh \in Nat,
         NEW vs, vs \in Seq(Values(subject)),
         NEW from \in Nat \ {0}, NEW to \in Nat, from <= to + 1, to <= Len(d.items),
         subject = "fields" => Len(vs) = to - from + 1 /\ \A i \in 1..Len(vs) : vs[i].key = Keys[from + i - 1]
  PROVE  LET e == Splice(d, from, to, vs) IN
         /\ DocOK(e)
         /\ Made(e) = Made(d) \cup (fresh..(fresh + Len(vs) - 1))
         /\ d.dead \subseteq e.dead
         /\ \A c : DocOK(c) /\ Known(c, fresh) /\ Match(d, c) /\ Match(c, d) => Match(e, c) /\ Match(c, e)
<1> DEFINE s == d.items  e == Splice(d, from, to, vs)  t == e.items  k == Len(vs)
           IsNew(i) == from <= i /\ i < from + k
           At(i) == Place(i, from, to, k)
<1>1. d \in Docs /\ Len(s) \in Nat /\ k \in Nat /\ s \in Seq(Items) /\ DOMAIN s = 1..Len(s)
  BY DEF DocOK, Docs
<1>21. to <= Len(s)
  OBVIOUS
<1>2. /\ e \in Docs /\ e.dead = d.dead \cup {s[i].id : i \in from..to}
      /\ Len(t) = Len(s) + k + from - to - 1
      /\ \A i \in 1..Len(t) :
           t[i] = IF i < from THEN s[i]
                  ELSE IF i < from + k THEN [id |-> fresh + i - from, v |-> vs[i - from + 1]]
                  ELSE s[i - k + to + 1 - from]
  BY <1>1, SpliceItems
<1>20. \A i \in 1..Len(t) :
         /\ i < from => t[i] = s[i]
         /\ from <= i /\ i < from + k => t[i] = [id |-> fresh + i - from, v |-> vs[i - from + 1]]
         /\ from + k <= i => t[i] = s[i - k + to + 1 - from]
  <2> HIDE DEF e, s, k
  <2>1. \A i \in 1..Len(t) : i \in Nat
    OBVIOUS
  <2>2. ASSUME NEW i \in 1..Len(t)
        PROVE  /\ from <= i => ~(i < from)
               /\ from + k <= i => ~(i < from) /\ ~(i < from + k)
    BY <1>1
  <2> QED BY <1>2, <2>1, <2>2
<1>3. DOMAIN t = 1..Len(t) /\ Len(t) \in Nat
  BY <1>2 DEF Docs
<1>4. \A i \in 1..Len(s) : s[i].id < fresh /\ s[i].id \in Made(d) /\ s[i].id \in Nat
  <2>1. \A i \in 1..Len(s) : s[i].id \in Made(d)
    BY DEF Made
  <2> QED BY <1>1, <2>1, MadeNat DEF Known
<1> HIDE DEF e, s, k
<1>5. ASSUME NEW i \in 1..Len(t), IsNew(i)
      PROVE  t[i].id = fresh + i - from /\ t[i].v = vs[i - from + 1]
  <2>1. t[i] = [id |-> fresh + i - from, v |-> vs[i - from + 1]]
    BY <1>5, <1>20
  <2> QED BY <2>1
<1>6. ASSUME NEW i \in 1..Len(t), ~IsNew(i)
      PROVE  At(i) \in 1..Len(s) /\ At(i) \notin from..to /\ t[i] = s[At(i)]
  <2>1. CASE i < from
    <3>1. At(i) = i /\ t[i] = s[i]
      BY <1>20, <2>1 DEF Place
    <3>2. i \in 1..Len(s) /\ i \notin from..to
      BY <1>1, <1>3, <1>21, <2>1
    <3> QED BY <3>1, <3>2
  <2>2. CASE from + k <= i
    <3>1. At(i) = i - k + to + 1 - from
      BY <1>1, <2>2 DEF Place
    <3>2. t[i] = s[i - k + to + 1 - from]
      BY <1>20, <2>2
    <3>3. i - k + to + 1 - from \in 1..Len(s) /\ i - k + to + 1 - from > to
      BY <1>1, <1>2, <1>21, <2>2
    <3> QED BY <3>1, <3>2, <3>3
  <2>3. i < from \/ from + k <= i
    BY <1>1, <1>3, <1>6
  <2> QED BY <2>1, <2>2, <2>3
<1>7. ASSUME NEW i \in 1..Len(s), i \notin from..to
      PROVE  \E j \in 1..Len(t) : ~IsNew(j) /\ At(j) = i
  <2>1. CASE i < from
    <3>1. i \in 1..Len(t)
      BY <1>1, <1>2, <1>21, <2>1
    <3> QED BY <2>1, <3>1 DEF Place
  <2>2. CASE i > to
    <3>1. i + k - to - 1 + from \in 1..Len(t)
      BY <1>1, <1>2, <1>21, <2>2
    <3>2. ~IsNew(i + k - to - 1 + from) /\ At(i + k - to - 1 + from) = i
      BY <1>1, <2>2 DEF Place
    <3> QED BY <3>1, <3>2
  <2> QED BY <1>1, <1>7, <2>1, <2>2
<1>8. ASSUME NEW i \in 1..Len(t), NEW j \in 1..Len(t), ~IsNew(i), ~IsNew(j)
      PROVE  (i < j <=> At(i) < At(j)) /\ (i = j <=> At(i) = At(j))
  BY <1>1, <1>2, <1>3, <1>8 DEF Place
<1>9. DocOK(e)
  <2>1. ASSUME NEW i \in 1..Len(t), NEW j \in 1..Len(t), t[i].id = t[j].id
        PROVE  i = j
    <3>1. CASE IsNew(i) /\ IsNew(j)
      BY <1>1, <1>3, <1>5, <2>1, <3>1
    <3>2. CASE IsNew(i) /\ ~IsNew(j)
      <4>1. t[i].id = fresh + i - from
        BY <1>5, <3>2
      <4>2. t[j].id < fresh
        <5> HIDE DEF At, IsNew
        <5> QED BY <1>4, <1>6, <3>2
      <4> QED BY <1>1, <1>3, <2>1, <3>2, <4>1, <4>2
    <3>3. CASE ~IsNew(i) /\ IsNew(j)
      <4>1. t[j].id = fresh + j - from
        BY <1>5, <3>3
      <4>2. t[i].id < fresh
        <5> HIDE DEF At, IsNew
        <5> QED BY <1>4, <1>6, <3>3
      <4> QED BY <1>1, <1>3, <2>1, <3>3, <4>1, <4>2
    <3>4. CASE ~IsNew(i) /\ ~IsNew(j)
      <4>1. At(i) = At(j)
        <5>1. /\ At(i) \in 1..Len(s) /\ t[i] = s[At(i)]
              /\ At(j) \in 1..Len(s) /\ t[j] = s[At(j)]
          BY <1>6, <3>4
        <5> HIDE DEF At, IsNew
        <5>2. s[At(i)].id = s[At(j)].id
          BY <2>1, <5>1
        <5> QED BY <1>1, <5>1, <5>2 DEF DocOK, s
      <4> QED BY <1>8, <3>4, <4>1
    <3> QED BY <3>1, <3>2, <3>3, <3>4
  <2>2. ASSUME NEW i \in 1..Len(t)
        PROVE  t[i].id \notin e.dead
    <3>1. \A x \in e.dead : x < fresh
      <4>1. \A x \in d.dead : x < fresh
        BY <1>1, MadeNat DEF Known
      <4>2. \A j \in from..to : s[j].id < fresh
        BY <1>1, <1>4, <1>21
      <4> QED BY <1>2, <4>1, <4>2
    <3>2. CASE IsNew(i)
      BY <1>1, <1>3, <1>5, <3>1, <3>2
    <3>3. CASE ~IsNew(i)
      <4>0. At(i) \in 1..Len(s) /\ At(i) \notin from..to /\ t[i] = s[At(i)]
        BY <1>6, <3>3
      <4> HIDE DEF At, IsNew
      <4>1. t[i].id \notin d.dead
        BY <1>1, <4>0 DEF DocOK, s
      <4>2. ASSUME NEW j \in from..to
            PROVE  s[j].id # s[At(i)].id
        <5>1. j \in 1..Len(s) /\ j # At(i)
          BY <1>1, <1>21, <4>0
        <5> QED BY <1>1, <4>0, <5>1 DEF DocOK, s
      <4> QED BY <1>2, <4>0, <4>1, <4>2
    <3> QED BY <3>2, <3>3
  <2>3. ASSUME subject = "fields"
        PROVE  Len(t) = 3 /\ \A i \in 1..3 : t[i].v.key = Keys[i]
    <3>1. Len(s) = 3 /\ \A i \in 1..3 : s[i].v.key = Keys[i]
      BY <2>3 DEF DocOK, s
    <3>2. k = to - from + 1 /\ \A i \in 1..k : vs[i].key = Keys[from + i - 1]
      BY <2>3 DEF k
    <3>3. Len(t) = 3
      BY <1>2, <3>1, <3>2
    <3>4. ASSUME NEW i \in 1..3
          PROVE  t[i].v.key = Keys[i]
      <4>1. CASE IsNew(i)
        <5>1. i - from + 1 \in 1..k /\ from + (i - from + 1) - 1 = i
          BY <1>1, <4>1
        <5> QED BY <1>5, <3>2, <3>3, <4>1, <5>1
      <4>2. CASE ~IsNew(i)
        <5>1. At(i) = i
          <6>1. k = to - from + 1
            BY <3>2
          <6>2. i - k + to + 1 - from = i
            BY <1>1, <6>1
          <6> QED BY <6>2 DEF Place
        <5> QED BY <1>6, <3>1, <3>3, <4>2, <5>1
      <4> QED BY <4>1, <4>2
    <3> QED BY <3>3, <3>4
  <2> QED BY <1>2, <1>3, <2>1, <2>2, <2>3 DEF DocOK
<1>10. Made(e) = Made(d) \cup (fresh..(fresh + k - 1))
  <2>1. ASSUME NEW x \in Made(e)
        PROVE  x \in Made(d) \cup (fresh..(fresh + k - 1))
    <3>1. CASE x \in e.dead
      <4>1. \A j \in from..to : s[j].id \in Made(d)
        BY <1>1, <1>4, <1>21
      <4>2. d.dead \subseteq Made(d)
        BY <1>1, MadeNat
      <4>3. x \in d.dead \/ \E j \in from..to : x = s[j].id
        BY <1>2, <3>1
      <4> HIDE DEF k
      <4> QED BY <4>1, <4>2, <4>3
    <3>2. CASE \E i \in 1..Len(t) : x = t[i].id
      <4>1. PICK i \in 1..Len(t) : x = t[i].id
        BY <3>2
      <4>2. CASE IsNew(i)
        <5>1. t[i].id = fresh + i - from
          BY <1>5, <4>2
        <5>2. fresh + i - from \in fresh..(fresh + k - 1)
          BY <1>1, <1>3, <4>2
        <5> QED BY <4>1, <5>1, <5>2
      <4>3. CASE ~IsNew(i)
        BY <1>4, <1>6, <4>1, <4>3
      <4> QED BY <4>2, <4>3
    <3> QED BY <2>1, <3>1, <3>2 DEF Made
  <2>2. ASSUME NEW x \in Made(d)
        PROVE  x \in Made(e)
    <3>1. CASE x \in d.dead
      BY <1>2, <3>1 DEF Made
    <3>2. CASE \E i \in 1..Len(s) : x = s[i].id
      <4>1. PICK i \in 1..Len(s) : x = s[i].id
        BY <3>2
      <4>2. CASE i \in from..to
        BY <1>2, <4>1, <4>2 DEF Made
      <4>3. CASE i \notin from..to
        <5>1. PICK j \in 1..Len(t) : ~IsNew(j) /\ At(j) = i
          BY <1>7, <4>3
        <5>2. t[j].id = x
          BY <1>6, <4>1, <5>1
        <5> QED BY <5>2 DEF Made
      <4> QED BY <4>2, <4>3
    <3> QED BY <2>2, <3>1, <3>2 DEF Made, s
  <2>3. ASSUME NEW x \in fresh..(fresh + k - 1)
        PROVE  x \in Made(e)
    <3>1. from + x - fresh \in 1..Len(t) /\ IsNew(from + x - fresh)
      BY <1>1, <1>2, <1>21, <2>3
    <3>2. t[from + x - fresh].id = fresh + (from + x - fresh) - from
      BY <1>5, <3>1
    <3>3. t[from + x - fresh].id = x
      BY <2>3, <3>2
    <3> QED BY <3>1, <3>3 DEF Made
  <2> QED BY <2>1, <2>2, <2>3
<1>11. ASSUME NEW c, DocOK(c), Known(c, fresh), Match(d, c), Match(c, d)
       PROVE  Match(e, c) /\ Match(c, e)
  <2> DEFINE u == c.items
  <2>1. c \in Docs /\ DOMAIN u = 1..Len(u) /\ Len(u) \in Nat
    BY <1>11 DEF DocOK, Docs
  <2>2. \A i \in 1..Len(u) : u[i].id < fresh
    <3>1. \A i \in 1..Len(u) : u[i].id \in Made(c)
      BY DEF Made
    <3> QED BY <1>11, <3>1 DEF Known
  <2>3. ASSUME NEW i \in 1..Len(t), NEW m \in 1..Len(u), t[i].id = u[m].id
        PROVE  ~IsNew(i) /\ At(i) \in 1..Len(s) /\ t[i] = s[At(i)]
    <3>1. ~IsNew(i)
      <4> SUFFICES ASSUME IsNew(i) PROVE FALSE
        OBVIOUS
      <4>1. t[i].id = fresh + i - from /\ u[m].id < fresh
        BY <1>5, <2>2
      <4> QED BY <1>1, <1>3, <2>3, <4>1
    <3> QED BY <1>6, <3>1
  <2> HIDE DEF u
  <2>4. \A i \in 1..Len(s), m \in 1..Len(u) : s[i].id = u[m].id =>
          /\ s[i] = u[m]
          /\ \A j \in 1..Len(s), n \in 1..Len(u) : i < j /\ s[j].id = u[n].id => m < n
    BY <1>1, <1>11, <2>1 DEF Match, s, u
  <2>5. \A i \in 1..Len(s), m \in 1..Len(u) : s[i].id = u[m].id =>
          \A j \in 1..Len(s), n \in 1..Len(u) : m < n /\ s[j].id = u[n].id => i < j
    BY <1>1, <1>11, <2>1 DEF Match, s, u
  <2>6. Match(e, c)
    <3> SUFFICES ASSUME NEW i \in 1..Len(t), NEW m \in 1..Len(u), t[i].id = u[m].id
                 PROVE  /\ t[i] = u[m]
                        /\ \A j \in 1..Len(t), n \in 1..Len(u) : i < j /\ t[j].id = u[n].id => m < n
      BY <1>3, <2>1 DEF Match, u
    <3>1. t[i] = u[m]
      BY <2>3, <2>4
    <3>2. ASSUME NEW j \in 1..Len(t), NEW n \in 1..Len(u), i < j, t[j].id = u[n].id
          PROVE  m < n
      <4>1. ~IsNew(i) /\ At(i) \in 1..Len(s) /\ t[i] = s[At(i)]
        BY <2>3
      <4>2. ~IsNew(j) /\ At(j) \in 1..Len(s) /\ t[j] = s[At(j)]
        BY <2>3, <3>2
      <4>3. At(i) < At(j)
        BY <1>8, <3>2, <4>1, <4>2
      <4> HIDE DEF At
      <4>4. s[At(i)].id = u[m].id /\ s[At(j)].id = u[n].id
        BY <3>2, <4>1, <4>2
      <4> HIDE DEF s, t
      <4> QED BY <2>4, <4>1, <4>2, <4>3, <4>4
    <3> QED BY <3>1, <3>2
  <2>7. Match(c, e)
    <3> SUFFICES ASSUME NEW m \in 1..Len(u), NEW i \in 1..Len(t), u[m].id = t[i].id
                 PROVE  /\ u[m] = t[i]
                        /\ \A n \in 1..Len(u), j \in 1..Len(t) : m < n /\ u[n].id = t[j].id => i < j
      BY <1>3, <2>1 DEF Match, u
    <3>1. u[m] = t[i]
      <4>1. t[i].id = u[m].id
        OBVIOUS
      <4>2. At(i) \in 1..Len(s) /\ t[i] = s[At(i)]
        BY <2>3, <4>1
      <4> HIDE DEF At
      <4> QED BY <2>4, <4>1, <4>2
    <3>2. ASSUME NEW n \in 1..Len(u), NEW j \in 1..Len(t), m < n, u[n].id = t[j].id
          PROVE  i < j
      <4>0. t[i].id = u[m].id /\ t[j].id = u[n].id
        BY <3>2
      <4>1. ~IsNew(i) /\ At(i) \in 1..Len(s) /\ t[i] = s[At(i)]
        BY <2>3, <4>0
      <4>2. ~IsNew(j) /\ At(j) \in 1..Len(s) /\ t[j] = s[At(j)]
        BY <2>3, <4>0
      <4>3. At(i) < At(j)
        <5> HIDE DEF At
        <5> QED BY <2>5, <3>2, <4>1, <4>2
      <4> QED BY <1>8, <4>1, <4>2, <4>3
    <3> QED BY <3>1, <3>2
  <2> QED BY <2>6, <2>7
<1>12. d.dead \subseteq e.dead
  BY <1>2
<1> QED BY <1>9, <1>10, <1>11, <1>12 DEF e, k

\* Documents that match do so either way.
LEMMA MatchBack ==
  ASSUME NEW d, NEW e, DocOK(d), DocOK(e), Match(d, e)
  PROVE  Match(e, d)
<1> DEFINE s == d.items  t == e.items
<1>1. DOMAIN s = 1..Len(s) /\ DOMAIN t = 1..Len(t) /\ Len(s) \in Nat /\ Len(t) \in Nat
  BY DEF DocOK, Docs
<1>2. \A i, j \in DOMAIN s : s[i].id = s[j].id => i = j
  BY DEF DocOK
<1>3. \A i \in DOMAIN s, m \in DOMAIN t : s[i].id = t[m].id =>
        s[i] = t[m] /\ \A j \in DOMAIN s, n \in DOMAIN t : i < j /\ s[j].id = t[n].id => m < n
  BY DEF Match
<1>4. \A i, j \in DOMAIN t : t[i].id = t[j].id => i = j
  BY DEF DocOK
<1> HIDE DEF s, t
<1>5. ASSUME NEW m \in DOMAIN t, NEW i \in DOMAIN s, t[m].id = s[i].id,
             NEW n \in DOMAIN t, NEW j \in DOMAIN s, m < n, t[n].id = s[j].id
      PROVE  i < j
  <2>1. CASE j < i
    <3>1. n < m
      BY <1>3, <1>5, <2>1
    <3> QED BY <1>1, <1>5, <3>1
  <2>2. CASE i = j
    <3>1. m = n
      BY <1>4, <1>5, <2>2
    <3> QED BY <1>1, <1>5, <3>1
  <2> QED BY <1>1, <2>1, <2>2
<1> QED BY <1>3, <1>5 DEF Match, s, t

\* Of two documents that know the same, one shows no more than the other.
LEMMA Prefix ==
  ASSUME NEW d, NEW e, DocOK(d), DocOK(e), Match(d, e), Match(e, d),
         Made(d) = Made(e), d.dead = e.dead
  PROVE  Len(d.items) <= Len(e.items) /\ \A i \in 1..Len(d.items) : d.items[i] = e.items[i]
<1> DEFINE s == d.items  t == e.items
<1>1. DOMAIN s = 1..Len(s) /\ DOMAIN t = 1..Len(t) /\ Len(s) \in Nat /\ Len(t) \in Nat
  BY DEF DocOK, Docs
<1>2. \A i, j \in DOMAIN s : s[i].id = s[j].id => i = j
  BY DEF DocOK
<1>3. \A i \in DOMAIN s, m \in DOMAIN t : s[i].id = t[m].id =>
        s[i] = t[m] /\ \A j \in DOMAIN s, n \in DOMAIN t : i < j /\ s[j].id = t[n].id => m < n
  BY DEF Match
<1>4. \A i \in DOMAIN s : \E m \in DOMAIN t : s[i].id = t[m].id
  <2>1. \A i \in DOMAIN s : s[i].id \in Made(d) /\ s[i].id \notin d.dead
    BY <1>1 DEF Made, DocOK
  <2>2. \A i \in DOMAIN s : s[i].id \in Made(e) /\ s[i].id \notin e.dead
    BY <2>1
  <2>3. Made(e) = {t[m].id : m \in DOMAIN t} \cup e.dead
    BY <1>1 DEF Made
  <2> HIDE DEF s, t
  <2> QED BY <2>2, <2>3
<1>5. \A i \in DOMAIN t : \E m \in DOMAIN s : t[i].id = s[m].id
  <2>1. \A i \in DOMAIN t : t[i].id \in Made(e) /\ t[i].id \notin e.dead
    BY <1>1 DEF Made, DocOK
  <2> QED BY <1>1, <2>1 DEF Made
<1> HIDE DEF s, t
<1> DEFINE Bad == {i \in DOMAIN s : ~(i \in DOMAIN t /\ s[i].id = t[i].id)}
<1>6. Bad = {}
  <2> SUFFICES ASSUME Bad # {} PROVE FALSE
    OBVIOUS
  <2>1. Bad \subseteq Nat
    BY <1>1
  <2>2. PICK i \in Bad : \A y \in Bad : i <= y
    <3> HIDE DEF Bad
    <3> QED BY <2>1, Least
  <2>3. PICK m \in DOMAIN t : s[i].id = t[m].id
    BY <1>4
  <2>4. \A j \in DOMAIN s : j < i => j \in DOMAIN t /\ s[j].id = t[j].id
    BY <1>1, <2>2
  <2>5. ~(m < i)
    <3> SUFFICES ASSUME m < i PROVE FALSE
      OBVIOUS
    <3>1. m \in DOMAIN s /\ s[m].id = t[m].id
      BY <1>1, <2>4
    <3> QED BY <1>1, <1>2, <2>3, <3>1
  <2>6. i < m /\ i \in DOMAIN t
    BY <1>1, <2>3, <2>5
  <2>7. PICK k \in DOMAIN s : t[i].id = s[k].id
    BY <1>5, <2>6
  <2>8. k # i /\ ~(k < i)
    <3>1. k # i
      BY <2>6, <2>7
    <3>2. k < i => t[k].id = t[i].id /\ k \in DOMAIN t
      BY <2>4, <2>7
    <3>3. \A x, y \in DOMAIN t : t[x].id = t[y].id => x = y
      BY DEF DocOK, t
    <3> QED BY <1>1, <2>6, <3>1, <3>2, <3>3
  <2>9. i < k
    BY <1>1, <2>8
  <2>10. m < i
    BY <1>3, <2>3, <2>6, <2>7, <2>9
  <2> QED BY <2>5, <2>10
<1>7. \A i \in DOMAIN s : i \in DOMAIN t /\ s[i] = t[i]
  BY <1>3, <1>6
<1>8. Len(s) <= Len(t)
  <2>1. CASE Len(s) = 0
    BY <1>1, <2>1
  <2>2. CASE Len(s) # 0
    <3>1. Len(s) \in DOMAIN s
      BY <1>1, <2>2
    <3> QED BY <1>1, <1>7, <3>1
  <2> QED BY <2>1, <2>2
<1> QED BY <1>1, <1>7, <1>8 DEF s, t

\* Documents that know the same are the same.
LEMMA Determined ==
  ASSUME NEW d, NEW e, DocOK(d), DocOK(e), Match(d, e), Knows(d) \subseteq Knows(e), Knows(e) \subseteq Knows(d)
  PROVE  d = e
<1>1. Made(d) = Made(e) /\ d.dead = e.dead
  <2>1. Made(d) \subseteq Made(e) /\ d.dead \subseteq e.dead
    BY Inclusion
  <2>2. Made(e) \subseteq Made(d) /\ e.dead \subseteq d.dead
    BY Inclusion
  <2> QED BY <2>1, <2>2
<1>2. Match(e, d)
  BY MatchBack
<1>3. Len(d.items) <= Len(e.items) /\ \A i \in 1..Len(d.items) : d.items[i] = e.items[i]
  BY <1>1, <1>2, Prefix
<1>4. Len(e.items) <= Len(d.items)
  BY <1>1, <1>2, Prefix
<1>5. d \in Docs /\ e \in Docs
  BY DEF DocOK
<1>6. d.items = e.items
  <2> DEFINE s == d.items  t == e.items
  <2>1. s \in Seq(Items) /\ t \in Seq(Items)
    BY <1>5 DEF Docs
  <2>2. Len(s) = Len(t) /\ \A i \in 1..Len(s) : s[i] = t[i]
    BY <1>3, <1>4, <2>1
  <2> HIDE DEF s, t
  <2>3. s = t
    BY <2>1, <2>2, SeqEqual
  <2> QED BY <2>3 DEF s, t
<1> QED BY <1>1, <1>5, <1>6 DEF Docs

\* What Merge leaves out is dead on either side, and what is left is the same on both.
Left(a, b) == {i \in Range(a.items) \cup Range(b.items) : i.id \notin a.dead \cup b.dead}
Ordered(l, a, b) ==
  IF subject = "fields" THEN l \in [1..3 -> Left(a, b)] /\ \A k \in 1..3 : l[k].v.key = Keys[k]
  ELSE l \in Bijection(1..Cardinality(Left(a, b)), Left(a, b)) /\ Keeps(l, a.items) /\ Keeps(l, b.items)
Mixed(a, b, l) == [items |-> l, dead |-> (Made(a) \cup Made(b)) \ {i.id : i \in Range(l)}]

\* Merge takes one side, or lists what is left of both.
LEMMA MergeCases ==
  ASSUME NEW a, NEW b, NEW d \in Merge(a, b)
  PROVE  \/ d = b /\ Knows(a) \subseteq Knows(b)
         \/ d = a /\ Knows(b) \subseteq Knows(a)
         \/ \E l : Ordered(l, a, b) /\ d = Mixed(a, b, l)
BY DEF Merge, Left, Ordered, Mixed

\* An item of a document is in Made, and none of its dead ones is in Range(items).
LEMMA Living ==
  ASSUME NEW d, DocOK(d)
  PROVE  /\ DOMAIN d.items = 1..Len(d.items) /\ Len(d.items) \in Nat /\ d.items \in Seq(Items)
         /\ d.dead \subseteq Nat
         /\ \A x \in Range(d.items) : x \in Items /\ x.id \in Made(d) /\ x.id \notin d.dead
         /\ \A i \in DOMAIN d.items : d.items[i] \in Range(d.items)
         /\ \A x \in Made(d) : x \notin d.dead => \E y \in Range(d.items) : y.id = x
         /\ \A x, y \in Range(d.items) : x.id = y.id => x = y
<1>1. DOMAIN d.items = 1..Len(d.items) /\ Len(d.items) \in Nat /\ d.items \in Seq(Items) /\ d.dead \subseteq Nat
  BY DEF DocOK, Docs
<1>2. \A i \in DOMAIN d.items : d.items[i] \in Items /\ d.items[i].id \in Made(d) /\ d.items[i].id \notin d.dead
  BY <1>1 DEF DocOK, Made
<1>3. \A x \in Range(d.items) : \E i \in DOMAIN d.items : x = d.items[i]
  BY DEF Range
<1>4. \A i \in DOMAIN d.items : d.items[i] \in Range(d.items)
  BY DEF Range
<1>5. \A x \in Made(d) : x \notin d.dead => \E y \in Range(d.items) : y.id = x
  BY <1>1, <1>4 DEF Made
<1>6. \A x, y \in Range(d.items) : x.id = y.id => x = y
  BY <1>3 DEF DocOK
<1> QED BY <1>1, <1>2, <1>3, <1>4, <1>5, <1>6

\* An item that two documents share is the same.
LEMMA Same ==
  ASSUME NEW d, NEW e, Match(d, e)
  PROVE  \A x \in Range(d.items), y \in Range(e.items) : x.id = y.id => x = y
<1>1. \A x \in Range(d.items) : \E i \in DOMAIN d.items : x = d.items[i]
  BY DEF Range
<1>2. \A x \in Range(e.items) : \E i \in DOMAIN e.items : x = e.items[i]
  BY DEF Range
<1> QED BY <1>1, <1>2 DEF Match

\* Every item that nobody deleted is left, once.
LEMMA LeftItems ==
  ASSUME NEW a, NEW b, DocOK(a), DocOK(b), Match(a, b)
  PROVE  /\ \A x \in Left(a, b) : x \in Items /\ x.id \in Made(a) \cup Made(b) /\ x.id \notin a.dead \cup b.dead
         /\ \A x, y \in Left(a, b) : x.id = y.id => x = y
         /\ \A x \in Made(a) \cup Made(b) : x \notin a.dead \cup b.dead => \E y \in Left(a, b) : y.id = x
         /\ IsFiniteSet(Left(a, b)) /\ Cardinality(Left(a, b)) \in Nat
<1>1. \A x \in Left(a, b) : x \in Items /\ x.id \in Made(a) \cup Made(b) /\ x.id \notin a.dead \cup b.dead
  BY Living DEF Left
<1>2. \A x, y \in Left(a, b) : x.id = y.id => x = y
  <2>1. \A x \in Range(a.items), y \in Range(b.items) : x.id = y.id => x = y
    BY Same
  <2> QED BY <2>1, Living DEF Left
<1>3. \A x \in Made(a) \cup Made(b) : x \notin a.dead \cup b.dead => \E y \in Left(a, b) : y.id = x
  BY Living DEF Left
<1>4. \A d : DocOK(d) => IsFiniteSet(Range(d.items))
  <2> TAKE d
  <2> HAVE DocOK(d)
  <2> DEFINE s == d.items  R == Range(d.items)
  <2>1. s \in Seq(R)
    <3>1. s \in Seq(Items) /\ DOMAIN s = 1..Len(s) /\ Len(s) \in Nat
      BY Living
    <3>2. \A i \in 1..Len(s) : s[i] \in R
      BY <3>1 DEF Range
    <3> QED BY <3>1, <3>2
  <2>2. \A x \in R : \E n \in 1..Len(s) : s[n] = x
    <3>1. DOMAIN s = 1..Len(s)
      BY Living
    <3> QED BY <3>1 DEF Range
  <2> QED BY <2>1, <2>2 DEF IsFiniteSet
<1>5. IsFiniteSet(Range(a.items) \cup Range(b.items))
  BY <1>4, FS_Union
<1>6. IsFiniteSet(Left(a, b))
  BY <1>5, FS_Subset DEF Left
<1>7. Cardinality(Left(a, b)) \in Nat
  BY <1>6, FS_CardinalityType
<1> QED BY <1>1, <1>2, <1>3, <1>6, <1>7

\* A list of what is left is a document that knows what both did.
LEMMA MixedOK ==
  ASSUME NEW a, NEW b, DocOK(a), DocOK(b), Match(a, b), NEW l, Ordered(l, a, b)
  PROVE  LET d == Mixed(a, b, l) IN
         /\ DocOK(d) /\ Range(l) \subseteq Left(a, b)
         /\ Made(d) = Made(a) \cup Made(b)
         /\ a.dead \cup b.dead \subseteq d.dead
         /\ subject # "fields" => d.dead = a.dead \cup b.dead
<1> DEFINE L == Left(a, b)  d == Mixed(a, b, l)  ids == {i.id : i \in Range(l)}
<1>1. /\ \A x \in L : x \in Items /\ x.id \in Made(a) \cup Made(b) /\ x.id \notin a.dead \cup b.dead
      /\ \A x, y \in L : x.id = y.id => x = y
      /\ \A x \in Made(a) \cup Made(b) : x \notin a.dead \cup b.dead => \E y \in L : y.id = x
      /\ Cardinality(L) \in Nat
  BY LeftItems
<1> HIDE DEF L
<1>2. \E n \in Nat : l \in [1..n -> L]
  <2>1. CASE subject = "fields"
    BY <2>1 DEF Ordered, L
  <2>2. CASE subject # "fields"
    BY <1>1, <2>2 DEF Ordered, L, Bijection, Injection
  <2> QED BY <2>1, <2>2
<1>3. l \in Seq(L) /\ DOMAIN l = 1..Len(l) /\ Len(l) \in Nat
  BY <1>2
<1>4. Range(l) \subseteq L /\ \A i \in DOMAIN l : l[i] \in Range(l) /\ l[i] \in L
  BY <1>2 DEF Range
<1>5. \A i, j \in DOMAIN l : l[i] = l[j] => i = j
  <2>1. CASE subject = "fields"
    <3>1. \A k \in 1..3 : l[k].v.key = Keys[k]
      BY <2>1 DEF Ordered
    <3>2. \A i, j \in 1..3 : Keys[i] = Keys[j] => i = j
      BY DEF Keys
    <3>3. DOMAIN l = 1..3
      BY <2>1 DEF Ordered
    <3> QED BY <3>1, <3>2, <3>3
  <2>2. CASE subject # "fields"
    BY <2>2 DEF Ordered, Bijection, Injection, IsInjective
  <2> QED BY <2>1, <2>2
<1>6. ids \subseteq Made(a) \cup Made(b) /\ ids \cap (a.dead \cup b.dead) = {} /\ ids \subseteq Nat
  BY <1>1, <1>4 DEF Items
<1>7. Made(a) \subseteq Nat /\ Made(b) \subseteq Nat /\ a.dead \subseteq Made(a) /\ b.dead \subseteq Made(b)
  BY MadeNat DEF DocOK
<1>8. d.items = l /\ d.dead = (Made(a) \cup Made(b)) \ ids
  BY DEF Mixed
<1>9. ids = {l[i].id : i \in 1..Len(l)}
  BY <1>3 DEF Range
<1> HIDE DEF ids
<1>10. Made(d) = Made(a) \cup Made(b)
  <2>1. Made(d) = ids \cup d.dead
    BY <1>8, <1>9 DEF Made
  <2> QED BY <1>6, <1>8, <2>1
<1>11. a.dead \cup b.dead \subseteq d.dead
  BY <1>6, <1>7, <1>8
<1>12. subject # "fields" => d.dead = a.dead \cup b.dead
  <2> SUFFICES ASSUME subject # "fields" PROVE d.dead \subseteq a.dead \cup b.dead
    BY <1>11
  <2>1. L \subseteq Range(l)
    <3>1. \A x \in L : \E i \in 1..Cardinality(L) : l[i] = x
      BY DEF Ordered, L, Bijection, Surjection
    <3>2. DOMAIN l = 1..Cardinality(L)
      BY DEF Ordered, L, Bijection, Surjection
    <3> QED BY <3>1, <3>2 DEF Range
  <2>2. \A x \in L : x.id \in ids
    BY <2>1 DEF ids
  <2> QED BY <1>1, <1>8, <2>2
<1>13. DocOK(d)
  <2>1. d \in Docs
    <3>1. l \in Seq(Items)
      BY <1>1, <1>3, <1>4
    <3> QED BY <1>7, <1>8, <3>1 DEF Docs, Mixed
  <2>2. \A i, j \in DOMAIN l : l[i].id = l[j].id => i = j
    BY <1>1, <1>4, <1>5
  <2>3. \A i \in DOMAIN l : l[i].id \notin d.dead
    BY <1>3, <1>8, <1>9
  <2>4. subject = "fields" => Len(l) = 3 /\ \A k \in 1..3 : l[k].v.key = Keys[k]
    BY <1>3 DEF Ordered
  <2> QED BY <1>8, <2>1, <2>2, <2>3, <2>4 DEF DocOK
<1> QED BY <1>4, <1>8, <1>10, <1>11, <1>12, <1>13 DEF L

\* A list that keeps the order of another matches whatever that other one matches,
\* if the other one has what they have in common.
LEMMA OrderKept ==
  ASSUME NEW d, NEW e, NEW c, DocOK(d), DocOK(e), DocOK(c), Match(e, c),
         subject # "fields" => Keeps(d.items, e.items),
         \A i \in DOMAIN d.items, m \in DOMAIN c.items :
            d.items[i].id = c.items[m].id => d.items[i] \in Range(e.items)
  PROVE  Match(d, c)
<1> DEFINE s == d.items  t == e.items  u == c.items
<1>1. /\ DOMAIN s = 1..Len(s) /\ DOMAIN t = 1..Len(t) /\ DOMAIN u = 1..Len(u)
      /\ Len(s) \in Nat /\ Len(t) \in Nat /\ Len(u) \in Nat
  BY Living
<1>2. \A i \in DOMAIN s, m \in DOMAIN u : s[i].id = u[m].id => \E k \in DOMAIN t : s[i] = t[k]
  BY DEF Range
<1>3. \A k \in DOMAIN t, m \in DOMAIN u : t[k].id = u[m].id =>
        t[k] = u[m] /\ \A j \in DOMAIN t, n \in DOMAIN u : k < j /\ t[j].id = u[n].id => m < n
  BY DEF Match
<1>4. \A i, j \in DOMAIN s : s[i].id = s[j].id => i = j
  BY DEF DocOK
<1>5. subject = "fields" => /\ DOMAIN s = 1..3 /\ DOMAIN u = 1..3
                            /\ (\A k \in 1..3 : s[k].v.key = Keys[k]) /\ \A k \in 1..3 : u[k].v.key = Keys[k]
  BY <1>1 DEF DocOK
<1>6. subject # "fields" => \A i, j \in DOMAIN t, m, n \in DOMAIN s : i < j /\ s[m] = t[i] /\ s[n] = t[j] => m < n
  BY DEF Keeps
<1> HIDE DEF s, t, u
<1>7. ASSUME NEW i \in DOMAIN s, NEW m \in DOMAIN u, s[i].id = u[m].id
      PROVE  s[i] = u[m]
  BY <1>2, <1>3, <1>7
<1>8. ASSUME NEW i \in DOMAIN s, NEW m \in DOMAIN u, s[i].id = u[m].id,
             NEW j \in DOMAIN s, NEW n \in DOMAIN u, s[j].id = u[n].id, i < j
      PROVE  m < n
  <2>1. CASE subject = "fields"
    <3>1. s[i] = u[m] /\ s[j] = u[n]
      BY <1>7, <1>8
    <3>2. \A x, y \in 1..3 : Keys[x] = Keys[y] => x = y
      BY DEF Keys
    <3>3. m = i /\ n = j
      BY <1>5, <2>1, <3>1, <3>2
    <3> QED BY <1>8, <3>3
  <2>2. CASE subject # "fields"
    <3>1. PICK k \in DOMAIN t : s[i] = t[k]
      BY <1>2, <1>8
    <3>2. PICK h \in DOMAIN t : s[j] = t[h]
      BY <1>2, <1>8
    <3>3. ~(h < k)
      BY <1>1, <1>6, <1>8, <2>2, <3>1, <3>2
    <3>4. h # k
      <4> SUFFICES ASSUME h = k PROVE FALSE
        OBVIOUS
      <4>1. i = j
        BY <1>4, <3>1, <3>2
      <4> QED BY <1>1, <1>8, <4>1
    <3>5. k < h
      BY <1>1, <3>3, <3>4
    <3> QED BY <1>3, <1>8, <3>1, <3>2, <3>5
  <2> QED BY <2>1, <2>2
<1> QED BY <1>7, <1>8 DEF Match, s, u

\* It matches what both match, if what that has in common with one the other
\* has seen.
LEMMA MixedMatch ==
  ASSUME NEW a, NEW b, DocOK(a), DocOK(b), Match(a, b), NEW l, Ordered(l, a, b),
         NEW c, DocOK(c), Match(a, c), Match(b, c),
         \/ Made(c) \cap Made(a) \subseteq Made(b)
         \/ Made(c) \cap Made(b) \subseteq Made(a)
  PROVE  Match(Mixed(a, b, l), c)
<1> DEFINE d == Mixed(a, b, l)
<1>1. DocOK(d) /\ Range(l) \subseteq Left(a, b) /\ d.items = l
  BY MixedOK DEF Mixed
<1>2. subject # "fields" => Keeps(d.items, a.items) /\ Keeps(d.items, b.items)
  BY <1>1 DEF Ordered
<1>3. \A i \in DOMAIN d.items : d.items[i] \in Left(a, b)
  BY <1>1 DEF Range
<1>4. \A m \in DOMAIN c.items : c.items[m].id \in Made(c)
  BY Living
<1>5. /\ \A x, y \in Left(a, b) : x.id = y.id => x = y
      /\ \A x \in Left(a, b) : x \in Range(a.items) \/ x \in Range(b.items)
      /\ \A x \in Left(a, b) : x.id \notin a.dead \cup b.dead
      /\ \A x \in Left(a, b) : x.id \in Made(a) => x \in Range(a.items)
      /\ \A x \in Left(a, b) : x.id \in Made(b) => x \in Range(b.items)
  <2>1. \A x, y \in Left(a, b) : x.id = y.id => x = y
    BY LeftItems
  <2>2. /\ \A x \in Left(a, b) : x \in Range(a.items) \/ x \in Range(b.items)
        /\ \A x \in Left(a, b) : x.id \notin a.dead \cup b.dead
        /\ \A y \in Range(a.items) \cup Range(b.items) : y.id \notin a.dead \cup b.dead => y \in Left(a, b)
    BY DEF Left
  <2>3. ASSUME NEW x \in Left(a, b), x.id \in Made(a)
        PROVE  x \in Range(a.items)
    <3>1. PICK y \in Range(a.items) : y.id = x.id
      BY <2>2, <2>3, Living
    <3> QED BY <2>1, <2>2, <3>1
  <2>4. ASSUME NEW x \in Left(a, b), x.id \in Made(b)
        PROVE  x \in Range(b.items)
    <3>1. PICK y \in Range(b.items) : y.id = x.id
      BY <2>2, <2>4, Living
    <3> QED BY <2>1, <2>2, <3>1
  <2> QED BY <2>1, <2>2, <2>3, <2>4
<1>6. /\ \A x \in Range(a.items) : x.id \in Made(a)
      /\ \A x \in Range(b.items) : x.id \in Made(b)
  BY Living
<1> HIDE DEF d
<1>7. CASE Made(c) \cap Made(a) \subseteq Made(b)
  <2>1. \A i \in DOMAIN d.items, m \in DOMAIN c.items :
           d.items[i].id = c.items[m].id => d.items[i] \in Range(b.items)
    BY <1>3, <1>4, <1>5, <1>6, <1>7
  <2> QED BY <1>1, <1>2, <2>1, OrderKept DEF d
<1>8. CASE Made(c) \cap Made(b) \subseteq Made(a)
  <2>1. \A i \in DOMAIN d.items, m \in DOMAIN c.items :
           d.items[i].id = c.items[m].id => d.items[i] \in Range(a.items)
    BY <1>3, <1>4, <1>5, <1>6, <1>8
  <2> QED BY <1>1, <1>2, <2>1, OrderKept DEF d
<1> QED BY <1>7, <1>8

\* What merging two replicas makes of them.
LEMMA MergeOK ==
  ASSUME NEW a, NEW b, DocOK(a), DocOK(b), Match(a, b), NEW d \in Merge(a, b)
  PROVE  /\ DocOK(d) /\ Made(d) = Made(a) \cup Made(b) /\ a.dead \cup b.dead \subseteq d.dead
         /\ subject # "fields" => d.dead = a.dead \cup b.dead
         /\ Knows(a) \subseteq Knows(b) => d = b
         /\ Knows(b) \subseteq Knows(a) => d = a
         /\ \A c : /\ DocOK(c) /\ Match(a, c) /\ Match(b, c)
                   /\ \/ Made(c) \cap Made(a) \subseteq Made(b)
                      \/ Made(c) \cap Made(b) \subseteq Made(a)
                   => Match(d, c)
<1>1. Knows(a) \subseteq Knows(b) => d = b
  BY DEF Merge
<1>2. Knows(b) \subseteq Knows(a) => d = a
  <2>1. CASE Knows(a) \subseteq Knows(b)
    <3> SUFFICES ASSUME Knows(b) \subseteq Knows(a) PROVE d = a
      OBVIOUS
    <3>1. a = b
      BY <2>1, Determined
    <3> QED BY <1>1, <2>1, <3>1
  <2>2. CASE ~(Knows(a) \subseteq Knows(b))
    BY <2>2 DEF Merge
  <2> QED BY <2>1, <2>2
<1>3. CASE d = b /\ Knows(a) \subseteq Knows(b)
  <2>1. Made(a) \subseteq Made(b) /\ a.dead \subseteq b.dead
    BY <1>3, Inclusion
  <2> QED BY <1>1, <1>2, <1>3, <2>1
<1>4. CASE d = a /\ Knows(b) \subseteq Knows(a)
  <2>1. Made(b) \subseteq Made(a) /\ b.dead \subseteq a.dead
    BY <1>4, Inclusion
  <2> QED BY <1>1, <1>2, <1>4, <2>1
<1>5. CASE \E l : Ordered(l, a, b) /\ d = Mixed(a, b, l)
  <2>1. PICK l : Ordered(l, a, b) /\ d = Mixed(a, b, l)
    BY <1>5
  <2>2. /\ DocOK(d) /\ Made(d) = Made(a) \cup Made(b) /\ a.dead \cup b.dead \subseteq d.dead
        /\ subject # "fields" => d.dead = a.dead \cup b.dead
    BY <2>1, MixedOK
  <2>3. ASSUME NEW c, DocOK(c), Match(a, c), Match(b, c),
               \/ Made(c) \cap Made(a) \subseteq Made(b)
               \/ Made(c) \cap Made(b) \subseteq Made(a)
        PROVE  Match(d, c)
    BY <2>1, <2>3, MixedMatch
  <2> QED BY <1>1, <1>2, <2>2, <2>3
<1> QED BY <1>3, <1>4, <1>5, MergeCases

-----------------------------------------------------------------------------
(* Replicas *)

Replicas(l, s) == {l[p] : p \in Pages} \cup {s, Empty(subject)}

\* A replica is a document of items that exist, and knows what a new one has.
Sound(d, n) == DocOK(d) /\ Known(d, n) /\ Made(Empty(subject)) \subseteq Made(d)

\* Replicas agree on what they share; a page learns of another's items
\* through the server alone; of two values of a field the one that lost is dead
\* wherever its place was taken.
Coherent(l, s, n) ==
  /\ \A d \in Replicas(l, s) : Sound(d, n)
  /\ \A d, e \in Replicas(l, s) : Match(d, e)
  /\ \A p, q \in Pages : p # q => Made(l[p]) \cap Made(l[q]) \subseteq Made(s)
  /\ subject = "fields" => \A p \in Pages : Made(l[p]) \subseteq Made(s) => l[p].dead \subseteq s.dead

Subjects == subject \in {"tiers", "fields", "penalties"}

\* A new document is one.
LEMMA EmptyOK ==
  ASSUME Subjects
  PROVE  /\ DocOK(Empty(subject)) /\ Made(Empty(subject)) \subseteq 1..3 /\ Empty(subject).dead = {}
<1> DEFINE e == Empty(subject)
<1>1. CASE subject = "fields"
  <2>1. e.items = [k \in 1..3 |-> [id |-> k, v |-> DefaultFields[k]]] /\ e.dead = {}
        /\ e = [items |-> e.items, dead |-> e.dead]
    BY <1>1 DEF Empty
  <2>2. \A k \in 1..3 : DefaultFields[k] \in Field /\ DefaultFields[k].key = Keys[k]
    <3>1. \A k \in 1..3 : DefaultFields[k] = [key |-> Keys[k], n |-> <<25, 5, 4>>[k]]
      BY DEF DefaultFields, Fields
    <3>2. Keys[1] = "focusMin" /\ Keys[2] = "breakMin" /\ Keys[3] = "rounds"
      BY DEF Keys
    <3>3. \A k \in 1..3 : k = 1 \/ k = 2 \/ k = 3
      OBVIOUS
    <3>4. \A k \in 1..3 : <<25, 5, 4>>[k] \in Nat
      BY <3>3
    <3>5. \A k \in 1..3 : Keys[k] \in {"focusMin", "breakMin", "rounds"}
      BY <3>2, <3>3
    <3> QED BY <3>1, <3>4, <3>5 DEF Field
  <2> HIDE DEF e
  <2>3. Values(subject) = Field
    BY <1>1 DEF Values
  <2>4. \A k \in 1..3 : e.items[k] = [id |-> k, v |-> DefaultFields[k]] /\ e.items[k] \in Items
    BY <2>1, <2>2, <2>3 DEF Items
  <2>5. e.items \in Seq(Items) /\ Len(e.items) = 3 /\ DOMAIN e.items = 1..3
    BY <2>1, <2>4
  <2>6. e \in Docs
    BY <2>1, <2>5 DEF Docs
  <2>7. \A k \in 1..3 : e.items[k].id = k /\ e.items[k].v.key = Keys[k]
    BY <2>2, <2>4
  <2> QED BY <2>1, <2>5, <2>6, <2>7 DEF DocOK, Made, e
<1>2. CASE subject # "fields"
  <2>1. e = [items |-> <<>>, dead |-> {}]
    BY <1>2 DEF Empty
  <2> QED BY <1>2, <2>1 DEF DocOK, Made, Docs
<1> QED BY <1>1, <1>2

\* What Coherent says of each replica.
LEMMA Replica ==
  ASSUME NEW l, NEW s, NEW n, Coherent(l, s, n)
  PROVE  /\ \A p \in Pages : Sound(l[p], n)
         /\ Sound(s, n) /\ Sound(Empty(subject), n)
         /\ \A p, q \in Pages : Match(l[p], l[q])
         /\ \A p \in Pages : Match(l[p], s) /\ Match(s, l[p]) /\ Match(l[p], Empty(subject)) /\ Match(Empty(subject), l[p])
         /\ Match(s, Empty(subject)) /\ Match(Empty(subject), s)
BY DEF Coherent, Replicas

LEMMA Sooner ==
  ASSUME NEW d, NEW n \in Nat, NEW m \in Nat, n <= m, Sound(d, n)
  PROVE  Sound(d, m)
<1>1. Made(d) \subseteq Nat
  BY MadeNat DEF Sound, DocOK
<1> QED BY <1>1 DEF Sound, Known

\* One page's replica is replaced.
LEMMA NewReplica ==
  ASSUME NEW l, NEW s, NEW n \in Nat, Coherent(l, s, n), NEW p \in Pages, NEW d, NEW m \in Nat, n <= m,
         l \in [Pages -> Docs], Sound(d, m),
         \A q \in Pages \ {p} : Match(d, l[q]), Match(d, s), Match(d, Empty(subject)),
         \A q \in Pages \ {p} : Made(d) \cap Made(l[q]) \subseteq Made(s),
         subject = "fields" /\ Made(d) \subseteq Made(s) => d.dead \subseteq s.dead
  PROVE  Coherent([l EXCEPT ![p] = d], s, m)
<1> DEFINE k == [l EXCEPT ![p] = d]
<1>1. k[p] = d /\ \A q \in Pages \ {p} : k[q] = l[q]
  OBVIOUS
<1>2. /\ \A q \in Pages \ {p} : Sound(l[q], m)
      /\ Sound(s, m) /\ Sound(Empty(subject), m)
  BY Replica, Sooner
<1>3. /\ \A q \in Pages \ {p} : Match(l[q], d)
      /\ Match(s, d) /\ Match(Empty(subject), d) /\ Match(d, d)
  BY <1>2, MatchBack, SelfMatch DEF Sound
<1>4. Replicas(k, s) \subseteq {d} \cup {l[q] : q \in Pages \ {p}} \cup {s, Empty(subject)}
  BY <1>1 DEF Replicas
<1> HIDE DEF k
<1>5. \A x \in Replicas(k, s) : Sound(x, m)
  BY <1>2, <1>4
<1>6. \A x, y \in Replicas(k, s) : Match(x, y)
  <2>1. \A x \in Replicas(k, s) \ {d} : x \in Replicas(l, s) /\ Match(d, x) /\ Match(x, d)
    BY <1>3, <1>4 DEF Replicas
  <2> QED BY <1>3, <2>1 DEF Coherent
<1>7. \A q, r \in Pages : q # r => Made(k[q]) \cap Made(k[r]) \subseteq Made(s)
  BY <1>1 DEF Coherent
<1>8. subject = "fields" => \A q \in Pages : Made(k[q]) \subseteq Made(s) => k[q].dead \subseteq s.dead
  BY <1>1 DEF Coherent
<1> QED BY <1>5, <1>6, <1>7, <1>8 DEF Coherent, k

\* A merged replica.
LEMMA PullCoherent ==
  ASSUME NEW l, NEW s, NEW n \in Nat, Coherent(l, s, n), NEW p \in Pages, l \in [Pages -> Docs],
         NEW d \in Merge(l[p], s)
  PROVE  Coherent([l EXCEPT ![p] = d], s, n)
<1>1. /\ \A q \in Pages : Sound(l[q], n) /\ Match(l[p], l[q]) /\ Match(s, l[q])
      /\ Sound(s, n) /\ Sound(Empty(subject), n)
      /\ Match(l[p], s) /\ Match(l[p], Empty(subject)) /\ Match(s, Empty(subject)) /\ Match(s, s)
  BY Replica, SelfMatch DEF Sound
<1>2. /\ DocOK(d) /\ Made(d) = Made(l[p]) \cup Made(s)
      /\ Knows(l[p]) \subseteq Knows(s) => d = s
      /\ \A c : /\ DocOK(c) /\ Match(l[p], c) /\ Match(s, c)
                /\ \/ Made(c) \cap Made(l[p]) \subseteq Made(s)
                   \/ Made(c) \cap Made(s) \subseteq Made(l[p])
                => Match(d, c)
  BY <1>1, MergeOK DEF Sound
<1>3. Sound(d, n)
  BY <1>1, <1>2 DEF Sound, Known
<1>4. \A q \in Pages \ {p} : Made(l[q]) \cap Made(l[p]) \subseteq Made(s)
  BY DEF Coherent
<1>5. Match(d, s) /\ Match(d, Empty(subject)) /\ \A q \in Pages \ {p} : Match(d, l[q])
  <2>1. Made(Empty(subject)) \cap Made(l[p]) \subseteq Made(s)
    BY <1>1 DEF Sound
  <2> QED BY <1>1, <1>2, <1>4, <2>1 DEF Sound
<1>6. \A q \in Pages \ {p} : Made(d) \cap Made(l[q]) \subseteq Made(s)
  BY <1>2, <1>4
<1>7. subject = "fields" /\ Made(d) \subseteq Made(s) => d.dead \subseteq s.dead
  <2> SUFFICES ASSUME subject = "fields", Made(d) \subseteq Made(s) PROVE d = s
    OBVIOUS
  <2>1. Made(l[p]) \subseteq Made(s) /\ l[p].dead \subseteq s.dead
    BY <1>2 DEF Coherent
  <2> QED BY <1>2, <2>1, Inclusion
<1>8. n <= n
  OBVIOUS
<1> QED BY <1>3, <1>5, <1>6, <1>7, <1>8, NewReplica

\* The server takes over what a page has.
LEMMA PushCoherent ==
  ASSUME NEW l, NEW s, NEW n \in Nat, Coherent(l, s, n), NEW p \in Pages, l \in [Pages -> Docs],
         NEW d \in Merge(l[p], s)
  PROVE  Coherent(l, d, n)
<1>1. /\ \A q \in Pages : Sound(l[q], n) /\ Match(l[p], l[q]) /\ Match(s, l[q])
      /\ Sound(s, n) /\ Sound(Empty(subject), n)
      /\ Match(l[p], s) /\ Match(l[p], Empty(subject)) /\ Match(s, Empty(subject)) /\ Match(s, s)
  BY Replica, SelfMatch DEF Sound
<1>2. /\ DocOK(d) /\ Made(d) = Made(l[p]) \cup Made(s) /\ l[p].dead \cup s.dead \subseteq d.dead
      /\ \A c : /\ DocOK(c) /\ Match(l[p], c) /\ Match(s, c)
                /\ \/ Made(c) \cap Made(l[p]) \subseteq Made(s)
                   \/ Made(c) \cap Made(s) \subseteq Made(l[p])
                => Match(d, c)
  BY <1>1, MergeOK DEF Sound
<1>3. Sound(d, n)
  BY <1>1, <1>2 DEF Sound, Known
<1>4. \A q \in Pages \ {p} : Made(l[q]) \cap Made(l[p]) \subseteq Made(s)
  BY DEF Coherent
<1>5. Match(d, Empty(subject)) /\ \A q \in Pages : Match(d, l[q])
  <2>1. Made(Empty(subject)) \cap Made(l[p]) \subseteq Made(s)
    BY <1>1 DEF Sound
  <2>2. Match(d, l[p])
    BY <1>1, <1>2 DEF Sound
  <2> QED BY <1>1, <1>2, <1>4, <2>1, <2>2 DEF Sound
<1>6. Match(Empty(subject), d) /\ Match(d, d) /\ \A q \in Pages : Match(l[q], d)
  BY <1>1, <1>2, <1>5, MatchBack, SelfMatch DEF Sound
<1>7. \A x \in Replicas(l, d) : Sound(x, n)
  BY <1>1, <1>3 DEF Replicas
<1>8. \A x, y \in Replicas(l, d) : Match(x, y)
  <2>1. \A x \in Replicas(l, d) : x = d \/ x \in Replicas(l, s)
    BY DEF Replicas
  <2>2. \A x \in Replicas(l, d) : Match(d, x) /\ Match(x, d)
    BY <1>5, <1>6 DEF Replicas
  <2> QED BY <2>1, <2>2 DEF Coherent
<1>9. \A q, r \in Pages : q # r => Made(l[q]) \cap Made(l[r]) \subseteq Made(d)
  BY <1>2 DEF Coherent
<1>10. ASSUME subject = "fields", NEW q \in Pages, Made(l[q]) \subseteq Made(d)
       PROVE  l[q].dead \subseteq d.dead
  <2>1. CASE q = p
    BY <1>2, <2>1
  <2>2. CASE q # p
    <3>1. Made(l[q]) \subseteq Made(s)
      BY <1>2, <1>4, <1>10, <2>2
    <3> QED BY <1>2, <1>10, <3>1 DEF Coherent
  <2> QED BY <2>1, <2>2
<1> QED BY <1>7, <1>8, <1>9, <1>10 DEF Coherent

\* A page begins again.
LEMMA ReloadCoherent ==
  ASSUME NEW l, NEW s, NEW n \in Nat, Coherent(l, s, n), NEW p \in Pages, l \in [Pages -> Docs], Subjects
  PROVE  Coherent([l EXCEPT ![p] = Empty(subject)], s, n)
<1> DEFINE e == Empty(subject)
<1>1. Sound(e, n) /\ Match(e, s) /\ Match(e, e) /\ \A q \in Pages : Match(e, l[q])
  BY Replica, SelfMatch DEF Sound
<1>2. Made(e) \subseteq Made(s)
  BY Replica DEF Sound
<1>3. e.dead = {}
  BY EmptyOK
<1>4. n <= n /\ \A q \in Pages \ {p} : Made(e) \cap Made(l[q]) \subseteq Made(s)
  BY <1>2
<1> HIDE DEF e
<1> QED BY <1>1, <1>3, <1>4, NewReplica DEF e

\* An edit of page p.
LEMMA SpliceCoherent ==
  ASSUME NEW l, NEW s, Coherent(l, s, fresh), fresh \in Nat, NEW p \in Pages, l \in [Pages -> Docs],
         NEW vs, vs \in Seq(Values(subject)),
         NEW from \in Nat \ {0}, NEW to \in Nat, from <= to + 1, to <= Len(l[p].items),
         subject = "fields" => Len(vs) = to - from + 1 /\ \A i \in 1..Len(vs) : vs[i].key = Keys[from + i - 1]
  PROVE  Coherent([l EXCEPT ![p] = Splice(l[p], from, to, vs)], s, fresh + Len(vs))
<1> DEFINE d == l[p]  e == Splice(d, from, to, vs)  k == Len(vs)
<1>0. k \in Nat /\ fresh + k \in Nat /\ fresh <= fresh + k
  OBVIOUS
<1>1. /\ \A q \in Pages : Sound(l[q], fresh) /\ Match(d, l[q]) /\ Match(l[q], d)
      /\ Sound(s, fresh) /\ Sound(Empty(subject), fresh)
      /\ Match(d, s) /\ Match(d, Empty(subject)) /\ Match(s, d) /\ Match(Empty(subject), d)
  BY Replica
<1>2. /\ DocOK(e) /\ Made(e) = Made(d) \cup (fresh..(fresh + k - 1))
      /\ \A c : DocOK(c) /\ Known(c, fresh) /\ Match(d, c) /\ Match(c, d) => Match(e, c) /\ Match(c, e)
  <2>1. DocOK(d) /\ Known(d, fresh)
    BY <1>1 DEF Sound
  <2> QED BY <2>1, SpliceOK
<1>3. e.dead = d.dead \cup {d.items[i].id : i \in from..to}
  BY <1>1, SpliceItems DEF Sound, DocOK
<1> HIDE DEF e
<1>4. Sound(e, fresh + k)
  <2>1. \A x \in Made(d) : x \in Nat /\ x < fresh
    BY <1>1, MadeNat DEF Sound, DocOK, Known
  <2>2. \A x \in Made(e) : x < fresh + k
    BY <1>0, <1>2, <2>1
  <2> QED BY <1>1, <1>2, <2>2 DEF Sound, Known
<1>5. Match(e, s) /\ Match(e, Empty(subject)) /\ \A q \in Pages \ {p} : Match(e, l[q])
  BY <1>1, <1>2 DEF Sound
<1>6. ASSUME NEW q \in Pages \ {p}
      PROVE  Made(e) \cap Made(l[q]) \subseteq Made(s)
  <2>1. \A x \in Made(l[q]) : x \in Nat /\ x < fresh
    BY <1>1, MadeNat DEF Sound, DocOK, Known
  <2>2. Made(d) \cap Made(l[q]) \subseteq Made(s)
    BY DEF Coherent
  <2> QED BY <1>2, <2>1, <2>2
<1>7. subject = "fields" /\ Made(e) \subseteq Made(s) => e.dead \subseteq s.dead
  <2> SUFFICES ASSUME subject = "fields", Made(e) \subseteq Made(s) PROVE e.dead \subseteq s.dead
    OBVIOUS
  <2>1. k = 0
    <3>1. fresh \notin Made(e)
      BY <1>1 DEF Sound, Known
    <3>2. ~(fresh \in fresh..(fresh + k - 1))
      BY <1>2, <3>1
    <3> HIDE DEF k
    <3> QED BY <1>0, <3>2
  <2>2. to - from + 1 = 0
    BY <2>1
  <2>3. from..to = {}
    BY <2>2
  <2>4. e.dead = d.dead
    BY <1>3, <2>3
  <2> QED BY <1>2, <2>4 DEF Coherent
<1> QED BY <1>0, <1>4, <1>5, <1>6, <1>7, NewReplica DEF e

-----------------------------------------------------------------------------
(* What the edits make *)

\* Products and quotients, for the length of a session.
LEMMA MulMono == ASSUME NEW a \in Int, NEW b \in Int, NEW r \in Nat, a <= b PROVE a * r <= b * r
OBVIOUS
LEMMA DivInt == ASSUME NEW x \in Int, NEW r \in Nat \ {0}
                PROVE  x \div r \in Int /\ (x \div r) * r <= x /\ x < (x \div r) * r + r
OBVIOUS
LEMMA DivMost == ASSUME NEW x \in Int, NEW r \in Nat \ {0}, NEW n \in Int, n * r <= x PROVE n <= x \div r
<1>1. n <= x \div r \/ n >= (x \div r) + 1
  BY DivInt
<1> QED BY <1>1, DivInt, MulMono

\* An edit as a splice: of a range of the list, by values, fields in their places.
Proper(d, from, to, vs) ==
  /\ from \in Nat \ {0} /\ to \in Nat /\ from <= to + 1 /\ to <= Len(d.items)
  /\ vs \in Seq(Values(subject))
  /\ subject = "fields" => Len(vs) = to - from + 1 /\ \A i \in 1..Len(vs) : vs[i].key = Keys[from + i - 1]

EditsAs(p) ==
  \E from, to, vs : /\ Proper(local[p], from, to, vs) /\ edits > 0
                    /\ Accepted(Shown(Splice(local[p], from, to, vs)))
                    /\ Edit(p, from, to, vs)

Ready(p) == p \in Pages /\ Subjects /\ DocOK(local[p]) /\ fresh \in Nat /\ Accepted(Shown(local[p]))

\* What a page shows has the type of the part that is edited.
LEMMA ShownOK ==
  ASSUME NEW d, d \in Docs
  PROVE  /\ Shown(d) \in Seq(Values(subject)) /\ Len(Shown(d)) = Len(d.items) /\ Len(d.items) \in Nat
         /\ \A i \in 1..Len(d.items) : Shown(d)[i] = d.items[i].v /\ d.items[i].v \in Values(subject)
<1>1. d.items \in Seq(Items) /\ Len(d.items) \in Nat
  BY DEF Docs
<1>2. \A i \in 1..Len(d.items) : d.items[i] \in Items
  BY <1>1
<1>3. \A i \in 1..Len(d.items) : d.items[i].v \in Values(subject)
  BY <1>2 DEF Items
<1> QED BY <1>1, <1>3 DEF Shown

\* After a splice a page shows the new values in the place of the old ones.
LEMMA SpliceShown ==
  ASSUME NEW d, d \in Docs, fresh \in Nat, NEW from, NEW to, NEW vs, Proper(d, from, to, vs)
  PROVE  /\ Shown(Splice(d, from, to, vs)) \in Seq(Values(subject))
         /\ Replaces(Shown(Splice(d, from, to, vs)), Shown(d), vs, from, to)
<1> DEFINE e == Splice(d, from, to, vs)  s == d.items  t == e.items  k == Len(vs)
<1>0. from \in Nat \ {0} /\ to \in Nat /\ from <= to + 1 /\ to <= Len(s) /\ vs \in Seq(Values(subject))
  BY DEF Proper
<1>1. /\ e \in Docs
      /\ Len(t) = Len(s) + k + from - to - 1
      /\ \A i \in 1..Len(t) :
              t[i] = IF i < from THEN s[i]
                     ELSE IF i < from + k THEN [id |-> fresh + i - from, v |-> vs[i - from + 1]]
                     ELSE s[i - k + to + 1 - from]
  BY <1>0, SpliceItems
<1>2. /\ Shown(e) \in Seq(Values(subject)) /\ Len(Shown(e)) = Len(t)
      /\ \A i \in 1..Len(t) : Shown(e)[i] = t[i].v
  BY <1>1, ShownOK
<1>3. /\ Len(Shown(d)) = Len(s) /\ Len(s) \in Nat /\ k \in Nat
      /\ \A i \in 1..Len(s) : Shown(d)[i] = s[i].v
  BY <1>0, ShownOK
<1> HIDE DEF e, s, k
<1>4. ASSUME NEW i \in 1..Len(t)
      PROVE  Shown(e)[i] = IF i < from THEN Shown(d)[i]
                           ELSE IF i < from + k THEN vs[i - from + 1]
                           ELSE Shown(d)[i - k + to + 1 - from]
  <2>0. Len(t) \in Nat
    BY <1>0, <1>1, <1>3
  <2>1. CASE i < from
    <3>1. i \in 1..Len(s)
      BY <1>0, <1>1, <1>3, <2>0, <2>1
    <3>2. t[i] = s[i]
      BY <1>1, <2>1
    <3> QED BY <1>2, <1>3, <2>1, <3>1, <3>2
  <2>2. CASE ~(i < from) /\ i < from + k
    <3>1. t[i] = [id |-> fresh + i - from, v |-> vs[i - from + 1]]
      BY <1>1, <2>2
    <3> QED BY <1>2, <2>2, <3>1
  <2>3. CASE ~(i < from) /\ ~(i < from + k)
    <3>1. i - k + to + 1 - from \in 1..Len(s)
      BY <1>0, <1>1, <1>3, <2>0, <2>3
    <3>2. t[i] = s[i - k + to + 1 - from]
      BY <1>1, <2>3
    <3> QED BY <1>2, <1>3, <2>3, <3>1, <3>2
  <2> QED BY <2>1, <2>2, <2>3
<1> QED BY <1>1, <1>2, <1>3, <1>4 DEF Replaces, e, s, k

\* The whole list gives way.
LEMMA ReplacedWhole ==
  ASSUME NEW U, NEW t, NEW s, NEW vs, t \in Seq(U), s \in Seq(U), vs \in Seq(U), Replaces(t, s, vs, 1, Len(s))
  PROVE  t = vs
<1>1. Len(t) = Len(vs)
  BY DEF Replaces
<1>2. \A i \in 1..Len(t) : t[i] = vs[i]
  BY <1>1 DEF Replaces
<1> QED BY <1>1, <1>2, SeqEqual

\* Tiers in the place of others: joined among themselves and with their neighbours.
LEMMA JoinedBetween ==
  ASSUME NEW t \in Seq(Tiers), NEW s \in Seq(Tiers), NEW vs \in Seq(Tiers), NEW from, NEW to,
         from \in Nat \ {0}, to \in Nat, from <= to, to <= Len(s), Replaces(t, s, vs, from, to),
         Joined(s), Joined(vs), vs # <<>>,
         vs[1].min = s[from].min, to < Len(s) => vs[Len(vs)].max = s[to].max
  PROVE  Joined(t)
<1> DEFINE k == Len(vs)
<1>1. k \in Nat /\ k >= 1 /\ Len(s) \in Nat /\ Len(t) \in Nat /\ Len(t) = Len(s) + k + from - to - 1
  BY EmptySeq DEF Replaces
<1>2. \A i \in 1..Len(t) :
         /\ i < from => t[i] = s[i]
         /\ from <= i /\ i < from + k => t[i] = vs[i - from + 1]
         /\ from + k <= i => t[i] = s[i - k + to + 1 - from]
  <2>1. ASSUME NEW i \in 1..Len(t)
        PROVE  /\ from <= i => ~(i < from)
               /\ from + k <= i => ~(i < from) /\ ~(i < from + k)
    BY <1>1
  <2> QED BY <2>1 DEF Replaces
<1> HIDE DEF k
<1> SUFFICES ASSUME NEW i \in 1..(Len(t) - 1) PROVE t[i].max = t[i + 1].min
  BY DEF Joined
<1>3. i \in 1..Len(t) /\ i + 1 \in 1..Len(t)
  BY <1>1
<1>4. CASE i + 1 < from
  <2>1. t[i] = s[i] /\ t[i + 1] = s[i + 1] /\ i \in 1..(Len(s) - 1)
    BY <1>1, <1>2, <1>3, <1>4
  <2> QED BY <2>1 DEF Joined
<1>5. CASE i + 1 = from
  <2>1. t[i] = s[i] /\ t[i + 1] = vs[1] /\ i \in 1..(Len(s) - 1)
    <3>1. i < from /\ from <= i + 1 /\ i + 1 < from + k /\ (i + 1) - from + 1 = 1
      BY <1>1, <1>3, <1>5
    <3>2. i \in 1..(Len(s) - 1)
      BY <1>1, <1>3, <1>5
    <3> QED BY <1>2, <1>3, <3>1, <3>2
  <2> QED BY <1>5, <2>1 DEF Joined
<1>6. CASE from <= i /\ i + 1 < from + k
  <2>1. t[i] = vs[i - from + 1] /\ t[i + 1] = vs[(i - from + 1) + 1] /\ i - from + 1 \in 1..(Len(vs) - 1)
    <3>1. i + 1 - from + 1 = (i - from + 1) + 1
      BY <1>3
    <3>2. from <= i + 1 /\ i < from + k
      BY <1>1, <1>3, <1>6
    <3>3. i - from + 1 \in 1..(Len(vs) - 1)
      BY <1>1, <1>3, <1>6 DEF k
    <3> QED BY <1>2, <1>3, <1>6, <3>1, <3>2, <3>3
  <2> QED BY <2>1 DEF Joined
<1>7. CASE i + 1 = from + k
  <2>1. t[i] = vs[Len(vs)] /\ t[i + 1] = s[to + 1] /\ to \in 1..(Len(s) - 1)
    <3>1. from <= i /\ i < from + k /\ from + k <= i + 1 /\ i - from + 1 = k
          /\ (i + 1) - k + to + 1 - from = to + 1
      BY <1>1, <1>3, <1>7
    <3>2. to \in 1..(Len(s) - 1)
      BY <1>1, <1>3, <1>7
    <3>3. t[i] = vs[k]
      BY <1>2, <1>3, <3>1
    <3>4. t[i + 1] = s[to + 1]
      BY <1>2, <1>3, <3>1
    <3> QED BY <3>2, <3>3, <3>4 DEF k
  <2>2. to < Len(s)
    BY <2>1, LenProperties
  <2>3. s[to].max = s[to + 1].min
    <3>1. \A j \in 1..(Len(s) - 1) : s[j].max = s[j + 1].min
      BY DEF Joined
    <3> QED BY <2>1, <3>1
  <2> QED BY <2>1, <2>2, <2>3
<1>8. CASE from + k <= i
  <2>1. t[i] = s[i - k + to + 1 - from] /\ t[i + 1] = s[(i - k + to + 1 - from) + 1]
        /\ i - k + to + 1 - from \in 1..(Len(s) - 1)
    <3>1. from + k <= i + 1 /\ (i + 1) - k + to + 1 - from = (i - k + to + 1 - from) + 1
      BY <1>1, <1>3, <1>8
    <3>2. i - k + to + 1 - from \in 1..(Len(s) - 1)
      BY <1>1, <1>3, <1>8
    <3> QED BY <1>2, <1>3, <1>8, <3>1, <3>2
  <2> QED BY <2>1 DEF Joined
<1> QED BY <1>1, <1>3, <1>4, <1>5, <1>6, <1>7, <1>8

-----------------------------------------------------------------------------
(* Tiers *)

\* What an editor of tiers has at hand.
LEMMA TierParts ==
  ASSUME NEW p, Ready(p), subject = "tiers"
  PROVE  /\ local[p] \in Docs /\ Values(subject) = Tiers
         /\ Shown(local[p]) \in Seq(Tiers) /\ Joined(Shown(local[p]))
         /\ Len(Shown(local[p])) = Len(local[p].items) /\ Len(local[p].items) \in Nat
         /\ \A i \in 1..Len(local[p].items) : Shown(local[p])[i] = local[p].items[i].v /\ Shown(local[p])[i] \in Tiers
<1>1. local[p] \in Docs /\ Values(subject) = Tiers
  BY DEF Ready, DocOK, Values
<1>2. Joined(Shown(local[p]))
  BY DEF Ready, Accepted
<1> QED BY <1>1, <1>2, ShownOK

\* All of the list gives way to tiers that are joined.
LEMMA WholeTiers ==
  ASSUME NEW p, Ready(p), subject = "tiers", edits > 0,
         NEW vs, vs \in Seq(Tiers), Joined(vs), Edit(p, 1, Len(local[p].items), vs)
  PROVE  EditsAs(p)
<1> DEFINE d == local[p]  n == Len(d.items)  t == Shown(Splice(d, 1, n, vs))
<1>1. d \in Docs /\ Values(subject) = Tiers /\ Shown(d) \in Seq(Tiers) /\ Len(Shown(d)) = n /\ n \in Nat
  BY TierParts
<1>2. Proper(d, 1, n, vs)
  BY <1>1 DEF Proper
<1>3. t \in Seq(Tiers) /\ Replaces(t, Shown(d), vs, 1, n)
  BY <1>1, <1>2, SpliceShown DEF Ready
<1> HIDE DEF t
<1>4. t = vs
  BY <1>1, <1>3, ReplacedWhole
<1>5. Accepted(Shown(Splice(d, 1, n, vs)))
  BY <1>4 DEF Accepted, t
<1> QED BY <1>2, <1>5 DEF EditsAs

\* Some tiers give way to others that begin and end where they did.
LEMMA SomeTiers ==
  ASSUME NEW p, Ready(p), subject = "tiers", edits > 0,
         NEW vs, vs \in Seq(Tiers), Joined(vs), vs # <<>>,
         NEW from \in Nat \ {0}, NEW to \in Nat, from <= to, to <= Len(local[p].items),
         vs[1].min = Shown(local[p])[from].min,
         to < Len(local[p].items) => vs[Len(vs)].max = Shown(local[p])[to].max,
         Edit(p, from, to, vs)
  PROVE  EditsAs(p)
<1> DEFINE d == local[p]  n == Len(d.items)  s == Shown(d)  t == Shown(Splice(d, from, to, vs))
<1>1. d \in Docs /\ Values(subject) = Tiers /\ s \in Seq(Tiers) /\ Len(s) = n /\ n \in Nat /\ Joined(s)
  BY TierParts
<1>2. Proper(d, from, to, vs)
  BY <1>1 DEF Proper
<1>3. t \in Seq(Tiers) /\ Replaces(t, s, vs, from, to)
  BY <1>1, <1>2, SpliceShown DEF Ready
<1> HIDE DEF t, s
<1>4. Joined(t)
  BY <1>1, <1>3, JoinedBetween DEF s
<1>5. Accepted(Shown(Splice(d, from, to, vs)))
  BY <1>4 DEF Accepted, t
<1> QED BY <1>2, <1>5 DEF EditsAs

\* The tier of a new list; lists of one tier, and of two.
LEMMA DefaultOK == DefaultTier \in Tiers /\ DefaultTier.min = 0 /\ DefaultTier.max = NoPct
BY DEF DefaultTier, Tiers

LEMMA Single ==
  ASSUME NEW a \in Tiers
  PROVE  <<a>> \in Seq(Tiers) /\ <<a>> # <<>> /\ Len(<<a>>) = 1 /\ <<a>>[1] = a /\ Joined(<<a>>)
BY DEF Joined

LEMMA Pair ==
  ASSUME NEW a \in Tiers, NEW b \in Tiers, a.max = b.min
  PROVE  <<a, b>> \in Seq(Tiers) /\ <<a, b>> # <<>> /\ Len(<<a, b>>) = 2 /\ <<a, b>>[1] = a /\ Joined(<<a, b>>)
<1>1. <<a, b>> \in Seq(Tiers) /\ <<a, b>> # <<>> /\ Len(<<a, b>>) = 2 /\ <<a, b>>[1] = a /\ <<a, b>>[2] = b
  OBVIOUS
<1> DEFINE t == <<a, b>>
<1>2. ASSUME NEW i \in 1..(Len(t) - 1)
      PROVE  t[i].max = t[i + 1].min
  <2>1. i = 1
    BY <1>1
  <2> QED BY <1>1, <2>1
<1> QED BY <1>1, <1>2 DEF Joined

\* addTier: the last tier ends where the new one begins.
LEMMA AddTierForm ==
  ASSUME NEW p, Ready(p), AddTier(p)
  PROVE  EditsAs(p)
<1> DEFINE d == local[p]  n == Len(d.items)  s == Shown(d)
           last == IF d.items = <<>> THEN DefaultTier ELSE d.items[n].v
           at == IF last.max = NoPct THEN last.min + 1 ELSE last.max
           vs == <<[last EXCEPT !.max = at], [min |-> at, max |-> NoPct, count |-> 1]>>
           from == IF d.items = <<>> THEN 1 ELSE n
<1>1. subject = "tiers" /\ edits > 0 /\ CanAddTier(s) /\ Edit(p, from, n, vs)
  BY DEF AddTier, MayEdit
<1>2. /\ d \in Docs /\ s \in Seq(Tiers) /\ Len(s) = n /\ n \in Nat
      /\ \A i \in 1..n : s[i] = d.items[i].v /\ s[i] \in Tiers
  BY <1>1, TierParts
<1>3. d.items # <<>> => n # 0 /\ n \in 1..n
  BY <1>2, EmptySeq DEF Docs
<1>4. last \in Tiers /\ last.min < 99
  <2>1. CASE d.items = <<>>
    BY <2>1, DefaultOK
  <2>2. CASE d.items # <<>>
    <3>1. last = s[n] /\ s # <<>>
      BY <1>2, <1>3, <2>2
    <3> QED BY <1>1, <1>2, <1>3, <2>2, <3>1 DEF CanAddTier
  <2> QED BY <2>1, <2>2
<1> HIDE DEF last
<1>5. at \in 0..99 /\ at # NoPct
  BY <1>4, EditingAssumption DEF Tiers
<1> HIDE DEF at
<1>6. vs \in Seq(Tiers) /\ Len(vs) = 2 /\ vs # <<>> /\ Joined(vs) /\ vs[1].min = last.min
  <2>1. [last EXCEPT !.max = at] \in Tiers /\ [last EXCEPT !.max = at].max = at
        /\ [last EXCEPT !.max = at].min = last.min
    BY <1>4, <1>5 DEF Tiers
  <2>2. [min |-> at, max |-> NoPct, count |-> 1] \in Tiers
    BY <1>5 DEF Tiers
  <2> QED BY <2>1, <2>2, Pair
<1> HIDE DEF vs
<1>7. CASE d.items = <<>>
  <2>1. from = 1
    BY <1>7
  <2>2. Edit(p, 1, Len(local[p].items), vs)
    BY <1>1, <2>1
  <2> QED BY <1>1, <1>6, <2>2, WholeTiers
<1>8. CASE d.items # <<>>
  <2>1. from = n /\ last = s[n] /\ n \in Nat \ {0}
    BY <1>2, <1>3, <1>8 DEF last
  <2>2. Edit(p, n, n, vs) /\ n <= n /\ vs[1].min = s[n].min
    BY <1>1, <1>6, <2>1
  <2> QED BY <1>1, <1>6, <2>1, <2>2, SomeTiers
<1> QED BY <1>7, <1>8

\* updateTier: the counts change alone.
LEMMA UpdateTierForm ==
  ASSUME NEW p, Ready(p), NEW i \in 1..Max({1, Len(local[p].items)}), UpdateTier(p, i)
  PROVE  EditsAs(p)
<1> DEFINE d == local[p]  n == Len(d.items)  s == Shown(d)
           tier == IF d.items = <<>> THEN DefaultTier ELSE d.items[i].v
<1>1. subject = "tiers" /\ edits > 0
  BY DEF UpdateTier, MayEdit
<1>2. PICK c \in PenaltyCountInput(tier) :
        Edit(p, i, IF d.items = <<>> THEN 0 ELSE i, <<[tier EXCEPT !.count = c]>>)
  BY DEF UpdateTier
<1>3. /\ d \in Docs /\ s \in Seq(Tiers) /\ Len(s) = n /\ n \in Nat
      /\ \A j \in 1..n : s[j] = d.items[j].v /\ s[j] \in Tiers
  BY <1>1, TierParts
<1>4. d.items # <<>> => n # 0
  BY <1>3, EmptySeq DEF Docs
<1>5. (n = 0 => i = 1) /\ (n # 0 => i \in 1..n)
  <2>1. Max({1, n}) \in {1, n} /\ Max({1, n}) >= 1 /\ Max({1, n}) >= n
    <3>1. n \in Int /\ 1 \in Int
      BY <1>3
    <3> HIDE DEF n
    <3> QED BY <3>1, TwoMax
  <2> DEFINE m == Max({1, n})
  <2> HIDE DEF m, n
  <2>2. m \in {1, n} /\ m >= 1 /\ m >= n /\ n \in Nat /\ i \in 1..m
    BY <1>3, <2>1 DEF m, n
  <2> QED BY <2>2
<1>6. tier \in Tiers
  BY <1>3, <1>4, <1>5, DefaultOK
<1> HIDE DEF tier
<1> DEFINE vs == <<[tier EXCEPT !.count = c]>>
<1>7. c \in Nat
  BY <1>6 DEF PenaltyCountInput, Tiers
<1>8. vs \in Seq(Tiers) /\ vs # <<>> /\ Len(vs) = 1 /\ Joined(vs) /\ vs[1].min = tier.min /\ vs[1].max = tier.max
  <2>1. [tier EXCEPT !.count = c] \in Tiers /\ [tier EXCEPT !.count = c].min = tier.min
        /\ [tier EXCEPT !.count = c].max = tier.max
    BY <1>6, <1>7 DEF Tiers
  <2> QED BY <2>1, Single
<1>9. CASE d.items = <<>>
  <2>1. n = 0 /\ i = 1
    BY <1>5, <1>9
  <2>2. Edit(p, 1, Len(local[p].items), vs)
    BY <1>2, <1>9, <2>1
  <2> HIDE DEF vs
  <2> QED BY <1>1, <1>8, <2>2, WholeTiers
<1>10. CASE d.items # <<>>
  <2>1. i \in Nat \ {0} /\ i <= i /\ i <= n /\ tier = s[i]
    BY <1>3, <1>4, <1>5, <1>10 DEF tier
  <2>2. Edit(p, i, i, vs)
    BY <1>2, <1>10
  <2>3. vs[1].min = s[i].min /\ vs[Len(vs)].max = s[i].max
    BY <1>8, <2>1
  <2> HIDE DEF vs
  <2> QED BY <1>1, <1>8, <2>1, <2>2, <2>3, SomeTiers
<1> QED BY <1>9, <1>10

\* There is a function over 0..n that begins with first and goes on by step.
Exists(n, V, first, step) ==
  \E h \in [0..n -> V] : h[0] = first /\ \A j \in 1..n : h[j] = step[<<j, h[j - 1]>>]

LEMMA Recursion ==
  ASSUME NEW n \in Nat, NEW V, NEW first \in V, NEW step \in [(1..n) \X V -> V]
  PROVE  Exists(n, V, first, step)
<1> DEFINE Fits(h, m) == h[0] = first /\ \A j \in 1..m : h[j] = step[<<j, h[j - 1]>>]
           T == {m \in Nat : m <= n => \E h \in [0..m -> V] : Fits(h, m)}
<1>1. 0 \in T
  <2>1. [j \in 0..0 |-> first] \in [0..0 -> V] /\ Fits([j \in 0..0 |-> first], 0)
    OBVIOUS
  <2> QED BY <2>1
<1>2. ASSUME NEW m \in T \cap Nat
      PROVE  m + 1 \in T
  <2> SUFFICES ASSUME m + 1 <= n PROVE \E h \in [0..(m + 1) -> V] : Fits(h, m + 1)
    OBVIOUS
  <2>1. PICK h \in [0..m -> V] : Fits(h, m)
    BY <1>2
  <2> DEFINE k == [j \in 0..(m + 1) |-> IF j <= m THEN h[j] ELSE step[<<m + 1, h[m]>>]]
  <2>2. h[m] \in V /\ m + 1 \in 1..n
    BY <1>2
  <2>3. step[<<m + 1, h[m]>>] \in V
    BY <2>2
  <2>4. k \in [0..(m + 1) -> V]
    BY <1>2, <2>3
  <2>5. k[0] = first
    BY <1>2, <2>1
  <2>6. ASSUME NEW j \in 1..(m + 1)
        PROVE  k[j] = step[<<j, k[j - 1]>>]
    <3>1. CASE j <= m
      <4>1. j \in 1..m /\ j \in 0..(m + 1) /\ j - 1 \in 0..(m + 1) /\ j - 1 <= m
        BY <1>2, <3>1
      <4>2. k[j] = h[j] /\ k[j - 1] = h[j - 1]
        BY <3>1, <4>1
      <4> HIDE DEF k
      <4> QED BY <2>1, <4>1, <4>2
    <3>2. CASE ~(j <= m)
      <4>1. j = m + 1 /\ j \in 0..(m + 1) /\ m \in 0..(m + 1) /\ j - 1 = m /\ m <= m
        BY <1>2, <3>2
      <4>2. k[j] = step[<<m + 1, h[m]>>] /\ k[m] = h[m]
        BY <3>2, <4>1
      <4> HIDE DEF k
      <4> QED BY <4>1, <4>2
    <3> QED BY <3>1, <3>2
  <2> HIDE DEF k
  <2> QED BY <2>4, <2>5, <2>6
<1> HIDE DEF T
<1>3. Nat \subseteq T
  BY <1>1, <1>2, Inductive
<1> QED BY <1>3 DEF T, Exists

TextsBy(vs, f) ==
  f = [i \in 0..Len(vs) |->
         IF i = 0 THEN <<>> ELSE IF vs[i] = "blank" THEN f[i-1] ELSE Append(f[i-1], vs[i])]

\* toBackendFormat keeps the type of what it leaves.
LEMMA TextsOK ==
  ASSUME NEW V, NEW vs \in Seq(V)
  PROVE  Texts(vs) \in Seq(V)
<1> DEFINE n == Len(vs)  W == Seq(V)
           step == [x \in (1..n) \X W |-> IF vs[x[1]] = "blank" THEN x[2] ELSE Append(x[2], vs[x[1]])]
<1>1. n \in Nat /\ <<>> \in W /\ \A i \in 1..n : vs[i] \in V
  OBVIOUS
<1>2. step \in [(1..n) \X W -> W]
  BY <1>1
<1>3. \A i \in 1..n, w \in W : step[<<i, w>>] = IF vs[i] = "blank" THEN w ELSE Append(w, vs[i])
  OBVIOUS
<1> HIDE DEF step
<1>4. \E h : TextsBy(vs, h)
  <2> HIDE DEF W, n
  <2>1. PICK h \in [0..n -> W] : h[0] = <<>> /\ \A j \in 1..n : h[j] = step[<<j, h[j - 1]>>]
    <3>1. Exists(n, W, <<>>, step)
      BY <1>1, <1>2, Recursion
    <3> QED BY <3>1 DEF Exists
  <2>2. \A j \in 1..n : h[j] = IF vs[j] = "blank" THEN h[j - 1] ELSE Append(h[j - 1], vs[j])
    <3>1. \A j \in 1..n : j - 1 \in 0..n
      BY <1>1
    <3> QED BY <1>3, <2>1, <3>1
  <2>3. \A j \in 0..n : h[j] = IF j = 0 THEN <<>> ELSE IF vs[j] = "blank" THEN h[j - 1] ELSE Append(h[j - 1], vs[j])
    <3>1. \A j \in 0..n : j = 0 \/ (j # 0 /\ j \in 1..n)
      BY <1>1
    <3> QED BY <2>1, <2>2, <3>1
  <2>4. h = [i \in 0..n |-> IF i = 0 THEN <<>> ELSE IF vs[i] = "blank" THEN h[i-1] ELSE Append(h[i-1], vs[i])]
    BY <2>1, <2>3
  <2> QED BY <2>4 DEF TextsBy, n
<1> DEFINE f == CHOOSE h : TextsBy(vs, h)
<1>5. TextsBy(vs, f)
  BY <1>4
<1>6. Texts(vs) = f[n]
  BY DEF Texts, TextsBy
<1> HIDE DEF f
<1>7. f[0] = <<>> /\ \A j \in 1..n : f[j] = IF vs[j] = "blank" THEN f[j - 1] ELSE Append(f[j - 1], vs[j])
  <2>1. 0 \in 0..n /\ \A j \in 1..n : j \in 0..n /\ j # 0
    BY <1>1
  <2> QED BY <1>5, <2>1 DEF TextsBy
<1> DEFINE T == {m \in Nat : m <= n => f[m] \in Seq(V)}
<1>8. 0 \in T
  BY <1>1, <1>7
<1>9. ASSUME NEW m \in T \cap Nat
      PROVE  m + 1 \in T
  <2> SUFFICES ASSUME m + 1 <= n PROVE f[m + 1] \in Seq(V)
    OBVIOUS
  <2>1. f[m] \in Seq(V) /\ m + 1 \in 1..n /\ (m + 1) - 1 = m
    BY <1>1, <1>9
  <2>2. f[m + 1] = IF vs[m + 1] = "blank" THEN f[m] ELSE Append(f[m], vs[m + 1])
    BY <1>7, <2>1
  <2> QED BY <1>1, <2>1, <2>2
<1> HIDE DEF T
<1>10. Nat \subseteq T
  BY <1>8, <1>9, Inductive
<1> QED BY <1>1, <1>6, <1>10 DEF T

\* The input of a boundary stays below a hundred.
LEMMA TwoMinIn ==
  ASSUME NEW from \in 0..99
  PROVE  Min({99, from + 1}) \in 0..99
<1>1. 99 \in Int /\ from + 1 \in Int
  OBVIOUS
<1>2. Min({99, from + 1}) \in {99, from + 1} /\ Min({99, from + 1}) <= 99
  BY <1>1, TwoMin
<1> QED BY <1>2

LEMMA MinFits ==
  ASSUME NEW tier \in Tiers, NEW pct \in TierPctInput(tier)
  PROVE  pct \in 0..99
<1>1. Min({99, tier.min + 1}) \in 0..99
  BY TwoMinIn DEF Tiers
<1> QED BY <1>1, EditingAssumption DEF TierPctInput, Tiers

\* Where a tier begins behind another.
From(tier) == IF tier.max = NoPct THEN 0 ELSE tier.max
\* The tier j behind one that ends as before does.
Along(tiers, j, before) ==
  [tiers[j] EXCEPT !.min = From(before),
                   !.max = IF j = Len(tiers) THEN NoPct
                           ELSE IF tiers[j].max = NoPct \/ (tiers[j].max # NoPct /\ tiers[j].max <= From(before))
                           THEN Min({99, From(before) + 1}) ELSE tiers[j].max]
MovedBy(tiers, i, pct, new) ==
  new = [j \in 1..Len(tiers) |->
           IF j < i THEN tiers[j] ELSE IF j = i THEN [tiers[j] EXCEPT !.max = pct]
           ELSE Along(tiers, j, new[j-1])]

\* A tier behind another begins where that one ends, and stays a tier.
LEMMA AlongOK ==
  ASSUME NEW tiers \in Seq(Tiers), NEW j \in 1..Len(tiers), NEW before \in Tiers
  PROVE  /\ Along(tiers, j, before) \in Tiers /\ Along(tiers, j, before).min = From(before)
         /\ j # Len(tiers) => Along(tiers, j, before).max \in 0..99
<1>1. tiers[j] \in Tiers
  OBVIOUS
<1>2. From(before) \in 0..99
  BY DEF From, Tiers
<1>3. Min({99, From(before) + 1}) \in 0..99
  BY <1>2, TwoMinIn
<1> DEFINE top == IF j = Len(tiers) THEN NoPct
                  ELSE IF tiers[j].max = NoPct \/ (tiers[j].max # NoPct /\ tiers[j].max <= From(before))
                  THEN Min({99, From(before) + 1}) ELSE tiers[j].max
<1>4. top \in 0..99 \cup {NoPct} /\ (j # Len(tiers) => top \in 0..99)
  BY <1>1, <1>3 DEF Tiers
<1>5. Along(tiers, j, before) = [tiers[j] EXCEPT !.min = From(before), !.max = top]
  BY DEF Along
<1> HIDE DEF top
<1> QED BY <1>1, <1>2, <1>4, <1>5 DEF Tiers

\* Whatever is typed, setTierBoundary leaves tiers that are joined.
LEMMA MovedOK ==
  ASSUME NEW tiers \in Seq(Tiers), Joined(tiers), NEW i \in 1..Len(tiers), NEW pct \in 0..99
  PROVE  Moved(tiers, i, pct) \in Seq(Tiers) /\ Joined(Moved(tiers, i, pct))
<1> DEFINE n == Len(tiers)
           At(j, x) == IF j < i THEN tiers[j] ELSE IF j = i THEN [tiers[j] EXCEPT !.max = pct]
                       ELSE Along(tiers, j, x)
           step == [x \in (1..n) \X Tiers |-> At(x[1], x[2])]
<1>1. n \in Nat /\ n >= 1 /\ tiers[1] \in Tiers /\ \A j \in 1..n : tiers[j] \in Tiers
  OBVIOUS
<1>2. \A j \in 1..n, x \in Tiers : At(j, x) \in Tiers /\ step[<<j, x>>] = At(j, x)
  <2>1. \A j \in 1..n : [tiers[j] EXCEPT !.max = pct] \in Tiers
    BY <1>1 DEF Tiers
  <2> QED BY <1>1, <2>1, AlongOK
<1>3. step \in [(1..n) \X Tiers -> Tiers]
  BY <1>2
<1> HIDE DEF step, At
<1>4. \E h : MovedBy(tiers, i, pct, h)
  <2> HIDE DEF n
  <2>1. PICK h \in [0..n -> Tiers] : h[0] = tiers[1] /\ \A j \in 1..n : h[j] = step[<<j, h[j - 1]>>]
    <3>1. Exists(n, Tiers, tiers[1], step)
      BY <1>1, <1>3, Recursion
    <3> QED BY <3>1 DEF Exists
  <2> DEFINE g == [j \in 1..n |-> h[j]]
  <2>2. ASSUME NEW j \in 1..n
        PROVE  g[j] = IF j < i THEN tiers[j] ELSE IF j = i THEN [tiers[j] EXCEPT !.max = pct]
                      ELSE Along(tiers, j, g[j - 1])
    <3>1. j - 1 \in 0..n /\ h[j - 1] \in Tiers
      BY <1>1
    <3>2. g[j] = At(j, h[j - 1])
      BY <1>2, <2>1, <3>1
    <3>3. ~(j < i) /\ j # i => j - 1 \in 1..n
      BY <1>1 DEF n
    <3> QED BY <3>2, <3>3 DEF At
  <2>3. MovedBy(tiers, i, pct, g)
    BY <2>2 DEF MovedBy, n
  <2> QED BY <2>3
<1> DEFINE g == CHOOSE h : MovedBy(tiers, i, pct, h)
<1>5. MovedBy(tiers, i, pct, g)
  BY <1>4
<1>6. Moved(tiers, i, pct) = g
  BY DEF Moved, MovedBy, Along, From
<1> HIDE DEF g
<1>7. DOMAIN g = 1..n /\ \A j \in 1..n :
        /\ j < i => g[j] = tiers[j]
        /\ j = i => g[j] = [tiers[j] EXCEPT !.max = pct]
        /\ i < j => g[j] = Along(tiers, j, g[j - 1])
  <2>1. \A j \in 1..n : i < j => ~(j < i) /\ j # i
    BY <1>1
  <2>2. \A j \in 1..n : ~(i < i)
    BY <1>1
  <2> QED BY <1>5, <2>1, <2>2 DEF MovedBy
<1> DEFINE T == {m \in Nat : m + 1 <= n => g[m + 1] \in Tiers}
<1>8. ASSUME NEW j \in 1..n, j <= i
      PROVE  g[j] \in Tiers
  <2>1. j < i \/ j = i
    BY <1>8
  <2>2. [tiers[i] EXCEPT !.max = pct] \in Tiers
    BY <1>1 DEF Tiers
  <2> QED BY <1>1, <1>7, <2>1, <2>2, SMTT(30)
<1>9. 0 \in T
  <2>1. 1 \in 1..n /\ 1 <= i /\ 0 + 1 = 1
    BY <1>1
  <2> QED BY <1>8, <2>1
<1>10. ASSUME NEW m \in T \cap Nat
       PROVE  m + 1 \in T
  <2> SUFFICES ASSUME (m + 1) + 1 <= n PROVE g[(m + 1) + 1] \in Tiers
    OBVIOUS
  <2>1. g[m + 1] \in Tiers /\ (m + 1) + 1 \in 1..n /\ ((m + 1) + 1) - 1 = m + 1
    BY <1>1, <1>10
  <2>2. CASE (m + 1) + 1 <= i
    BY <1>8, <2>1, <2>2
  <2>3. CASE i < (m + 1) + 1
    <3>1. g[(m + 1) + 1] = Along(tiers, (m + 1) + 1, g[m + 1])
      BY <1>7, <2>1, <2>3
    <3> QED BY <2>1, <3>1, AlongOK
  <2> QED BY <1>10, <2>2, <2>3
<1> HIDE DEF T
<1>11. Nat \subseteq T
  BY <1>9, <1>10, Inductive
<1>12. \A j \in 1..n : g[j] \in Tiers
  <2>1. \A j \in 1..n : j - 1 \in Nat /\ (j - 1) + 1 = j /\ (j - 1) + 1 <= n
    BY <1>1
  <2> QED BY <1>11, <2>1 DEF T
<1>13. g \in Seq(Tiers) /\ Len(g) = n
  <2>1. g = [j \in 1..n |-> g[j]]
    BY <1>5 DEF MovedBy
  <2> HIDE DEF n
  <2>2. g \in [1..n -> Tiers]
    BY <1>12, <2>1
  <2> QED BY <1>1, <2>2
<1>14. ASSUME NEW j \in 1..(n - 1)
       PROVE  g[j].max \in 0..99 /\ g[j].max = g[j + 1].min
  <2>1. j \in 1..n /\ j + 1 \in 1..n /\ j # n /\ (j + 1) - 1 = j
    BY <1>1
  <2>2. g[j].max \in 0..99
    <3>1. CASE j < i
      <4>1. tiers[j].max = tiers[j + 1].min
        BY <1>14 DEF Joined
      <4> QED BY <1>1, <1>7, <2>1, <3>1, <4>1 DEF Tiers
    <3>2. CASE j = i
      <4>1. g[j] = [tiers[j] EXCEPT !.max = pct] /\ tiers[j] \in Tiers
        BY <1>1, <1>7, <2>1, <3>2
      <4> QED BY <4>1 DEF Tiers
    <3>3. CASE i < j
      <4>1. j - 1 \in 1..n
        BY <1>1, <3>3
      <4>2. g[j] = Along(tiers, j, g[j - 1]) /\ g[j - 1] \in Tiers
        BY <1>7, <1>12, <2>1, <3>3, <4>1
      <4> QED BY <2>1, <4>2, AlongOK
    <3> QED BY <1>1, <3>1, <3>2, <3>3
  <2>3. CASE j + 1 < i
    <3>1. tiers[j].max = tiers[j + 1].min /\ j < i
      BY <1>1, <1>14, <2>3 DEF Joined
    <3> QED BY <1>7, <2>1, <2>2, <2>3, <3>1
  <2>4. CASE j + 1 = i
    <3>1. tiers[j].max = tiers[j + 1].min /\ j < i
      BY <1>1, <1>14, <2>4 DEF Joined
    <3>2. g[j + 1].min = tiers[j + 1].min
      BY <1>1, <1>7, <2>1, <2>4 DEF Tiers
    <3> QED BY <1>7, <2>1, <2>2, <3>1, <3>2
  <2>5. CASE i < j + 1
    <3>1. g[j + 1] = Along(tiers, j + 1, g[j])
      BY <1>7, <2>1, <2>5
    <3>2. g[j + 1].min = From(g[j])
      BY <1>12, <2>1, <3>1, AlongOK
    <3>3. \A x \in 0..99 : x # NoPct
      BY EditingAssumption
    <3> QED BY <2>2, <3>2, <3>3 DEF From
  <2> QED BY <1>1, <2>3, <2>4, <2>5
<1> QED BY <1>6, <1>13, <1>14 DEF Joined

\* setTierBoundary replaces the whole list by it.
LEMMA SetTierBoundaryForm ==
  ASSUME NEW p, Ready(p), NEW i \in 1..Len(local[p].items), SetTierBoundary(p, i)
  PROVE  EditsAs(p)
<1> DEFINE s == Shown(local[p])
<1>1. subject = "tiers" /\ edits > 0 /\ i < Len(s)
  BY DEF SetTierBoundary, MayEdit
<1>2. PICK pct \in TierPctInput(s[i]) : Edit(p, 1, Len(s), Moved(s, i, pct))
  BY DEF SetTierBoundary
<1>3. s \in Seq(Tiers) /\ Joined(s) /\ Len(s) = Len(local[p].items) /\ s[i] \in Tiers
  BY <1>1, TierParts
<1>4. pct \in 0..99
  BY <1>3, MinFits
<1>5. i \in 1..Len(s)
  BY <1>3
<1> HIDE DEF s
<1>6. Moved(s, i, pct) \in Seq(Tiers) /\ Joined(Moved(s, i, pct))
  BY <1>3, <1>4, <1>5, MovedOK
<1> QED BY <1>1, <1>2, <1>3, <1>6, WholeTiers

\* A tier that begins elsewhere.
LEMMA TierFrom ==
  ASSUME NEW a \in Tiers, NEW n \in 0..99
  PROVE  [a EXCEPT !.min = n] \in Tiers /\ [a EXCEPT !.min = n].max = a.max /\ [a EXCEPT !.min = n].min = n
BY DEF Tiers

\* removeTier: the tier behind takes up the end of the one before.
LEMMA RemoveTierForm ==
  ASSUME NEW p, Ready(p), NEW i \in 1..Len(local[p].items), RemoveTier(p, i)
  PROVE  EditsAs(p)
<1> DEFINE s == Shown(local[p])
           left == [j \in 1..(Len(s) - 1) |-> IF j < i THEN s[j] ELSE s[j + 1]]
           End(j) == IF left[j].max = NoPct THEN 0 ELSE left[j].max
           vs == [j \in 1..Len(left) |-> [left[j] EXCEPT !.min = IF j = 1 THEN 0 ELSE End(j - 1)]]
<1>1. subject = "tiers" /\ edits > 0 /\ i > 1 /\ Edit(p, 1, Len(s), vs)
  BY DEF RemoveTier, MayEdit
<1>2. s \in Seq(Tiers) /\ Joined(s) /\ Len(s) = Len(local[p].items) /\ Len(s) \in Nat
  BY <1>1, TierParts
<1>3. Len(s) >= 2
  BY <1>1, <1>2, SMTT(30)
<1> HIDE DEF s
<1> DEFINE m == Len(s) - 1
<1>4. m \in Nat /\ m >= 1 /\ left = [j \in 1..m |-> IF j < i THEN s[j] ELSE s[j + 1]]
  BY <1>2, <1>3
<1>5. \A j \in 1..m : s[j] \in Tiers /\ s[j + 1] \in Tiers
  <2>1. \A j \in 1..m : j \in 1..Len(s) /\ j + 1 \in 1..Len(s)
    BY <1>2
  <2> QED BY <1>2, <2>1, ElementOfSeq
<1>6. \A j \in 1..m : left[j] = (IF j < i THEN s[j] ELSE s[j + 1]) /\ left[j] \in Tiers
  BY <1>4, <1>5
<1>7. left \in Seq(Tiers) /\ Len(left) = m
  BY <1>4, <1>5
<1>8. ASSUME NEW j \in 1..(m - 1)
      PROVE  left[j].max \in 0..99 /\ left[j].max # NoPct
  <2>1. s[j].max = s[j + 1].min /\ s[j + 1].max = s[j + 2].min
    <3>1. j \in 1..(Len(s) - 1) /\ j + 1 \in 1..(Len(s) - 1) /\ (j + 1) + 1 = j + 2
      BY <1>2
    <3> QED BY <1>2, <3>1 DEF Joined
  <2>2. s[j + 1].min \in 0..99 /\ s[j + 2].min \in 0..99
    <3>1. j \in 1..m /\ j + 1 \in 1..m /\ (j + 1) + 1 = j + 2
      BY <1>4
    <3>2. s[j + 1] \in Tiers /\ s[j + 2] \in Tiers
      BY <1>5, <3>1
    <3> QED BY <3>2 DEF Tiers
  <2>3. left[j].max \in 0..99
    <3>1. j \in 1..m
      BY <1>4
    <3>2. left[j] = s[j] \/ left[j] = s[j + 1]
      BY <1>6, <3>1
    <3> QED BY <2>1, <2>2, <3>2
  <2>4. \A x \in 0..99 : x # NoPct
    BY EditingAssumption
  <2> QED BY <2>3, <2>4
<1> HIDE DEF left
<1> HIDE DEF m
<1> DEFINE Low(j) == IF j = 1 THEN 0 ELSE End(j - 1)
<1>9. \A j \in 1..m : Low(j) \in 0..99
  <2> SUFFICES ASSUME NEW j \in 1..m, j # 1 PROVE End(j - 1) \in 0..99
    OBVIOUS
  <2>1. j - 1 \in 1..(m - 1)
    BY <1>4
  <2> QED BY <1>8, <2>1
<1>10. vs = [j \in 1..m |-> [left[j] EXCEPT !.min = Low(j)]]
  BY <1>7
<1>15. \A j \in 1..(m - 1) : Low(j + 1) = left[j].max
  <2> TAKE j \in 1..(m - 1)
  <2>1. j + 1 # 1 /\ (j + 1) - 1 = j
    BY <1>4
  <2> QED BY <1>8, <2>1
<1> HIDE DEF Low, vs
<1>11. \A j \in 1..m : vs[j] \in Tiers /\ vs[j].max = left[j].max /\ vs[j].min = Low(j)
  <2> TAKE j \in 1..m
  <2>1. vs[j] = [left[j] EXCEPT !.min = Low(j)]
    BY <1>10
  <2>2. left[j] \in Tiers /\ Low(j) \in 0..99
    BY <1>6, <1>9
  <2> DEFINE a == left[j]  n == Low(j)
  <2>3. [a EXCEPT !.min = n] \in Tiers /\ [a EXCEPT !.min = n].max = a.max /\ [a EXCEPT !.min = n].min = n
    <3> HIDE DEF a, n
    <3> QED BY <2>2, TierFrom DEF a, n
  <2> QED BY <2>1, <2>3
<1>12. vs \in Seq(Tiers) /\ Len(vs) = m
  <2>1. vs = [j \in 1..m |-> vs[j]]
    BY <1>10
  <2>2. vs \in [1..m -> Tiers]
    BY <1>11, <2>1
  <2> QED BY <1>4, <2>2
<1>13. Joined(vs)
  <2> SUFFICES ASSUME NEW j \in 1..(Len(vs) - 1) PROVE vs[j].max = vs[j + 1].min
    BY DEF Joined
  <2>1. j \in 1..m /\ j + 1 \in 1..m /\ j \in 1..(m - 1)
    BY <1>4, <1>12
  <2> QED BY <1>11, <1>15, <2>1
<1>14. Edit(p, 1, Len(local[p].items), vs)
  BY <1>1, <1>2 DEF vs, Low
<1> QED BY <1>1, <1>12, <1>13, <1>14, WholeTiers

\* What an editor of the timer fields has at hand.
LEMMA FieldParts ==
  ASSUME NEW p, Ready(p), subject = "fields"
  PROVE  LET s == Shown(local[p]) IN
         /\ local[p] \in Docs /\ Values(subject) = Field
         /\ Len(local[p].items) = 3 /\ s \in Seq(Field) /\ Len(s) = 3 /\ InRange(s)
         /\ \A k \in 1..3 : s[k] = local[p].items[k].v /\ s[k].n \in Nat /\ s[k].key = Keys[k] /\ s[k] \in Field
<1>1. local[p] \in Docs /\ Values(subject) = Field
  BY DEF Ready, DocOK, Values
<1>2. InRange(Shown(local[p]))
  BY DEF Ready, Accepted
<1>3. Len(local[p].items) = 3 /\ \A k \in 1..3 : local[p].items[k].v.key = Keys[k]
  BY DEF Ready, DocOK
<1>4. /\ Shown(local[p]) \in Seq(Field) /\ Len(Shown(local[p])) = 3
      /\ \A k \in 1..3 : Shown(local[p])[k] = local[p].items[k].v /\ Shown(local[p])[k] \in Field
  BY <1>1, <1>3, ShownOK
<1> QED BY <1>1, <1>2, <1>3, <1>4 DEF Field

\* One field takes the place of field k.
LEMMA OneField ==
  ASSUME NEW p, Ready(p), subject = "fields", edits > 0, NEW k \in 1..3, NEW n \in Nat,
         Edit(p, k, k, <<[key |-> Keys[k], n |-> n]>>),
         \A t : /\ t[k].n = n /\ (\A j \in 1..3 \ {k} : t[j].n = Shown(local[p])[j].n)
                => InRange(t)
  PROVE  EditsAs(p)
<1> DEFINE d == local[p]  v == [key |-> Keys[k], n |-> n]  vs == <<v>>  s == Shown(d)
           t == Shown(Splice(d, k, k, vs))
<1>1. /\ d \in Docs /\ Values(subject) = Field /\ Len(d.items) = 3 /\ Len(s) = 3
  BY FieldParts
<1>2. v \in Field /\ v.n = n /\ v.key = Keys[k]
  <2>1. \A j \in 1..3 : Keys[j] \in {"focusMin", "breakMin", "rounds"}
    <3>1. \A j \in 1..3 : j = 1 \/ j = 2 \/ j = 3
      OBVIOUS
    <3> QED BY <3>1 DEF Keys
  <2> QED BY <2>1 DEF Field
<1> HIDE DEF v
<1>3. vs \in Seq(Field) /\ Len(vs) = 1 /\ vs[1] = v
  BY <1>2
<1>4. Proper(d, k, k, vs)
  <2>1. \A i \in 1..Len(vs) : vs[i].key = Keys[k + i - 1]
    <3>1. \A i \in 1..Len(vs) : i = 1 /\ k + i - 1 = k
      BY <1>3
    <3> QED BY <1>2, <1>3, <3>1
  <2>2. k \in Nat \ {0} /\ k <= k + 1 /\ k <= Len(d.items) /\ k - k + 1 = 1
    BY <1>1
  <2> QED BY <1>1, <1>3, <2>1, <2>2 DEF Proper
<1>5. Replaces(t, s, vs, k, k)
  BY <1>1, <1>4, SpliceShown DEF Ready
<1> HIDE DEF t, s
<1>6. Len(t) = 3
  BY <1>1, <1>3, <1>5 DEF Replaces
<1>7. ASSUME NEW j \in 1..3
      PROVE  (j = k => t[j] = v) /\ (j # k => t[j] = s[j])
  <2>1. CASE j = k
    <3>1. ~(j < k) /\ j < k + 1 /\ j - k + 1 = 1
      BY <2>1
    <3> QED BY <1>3, <1>5, <1>6, <2>1, <3>1 DEF Replaces
  <2>2. CASE j < k
    BY <1>3, <1>5, <1>6, <2>2 DEF Replaces
  <2>3. CASE k < j
    <3>1. ~(j < k) /\ ~(j < k + 1) /\ j - 1 + k + 1 - k = j
      BY <2>3
    <3> QED BY <1>3, <1>5, <1>6, <2>3, <3>1 DEF Replaces
  <2> QED BY <2>1, <2>2, <2>3
<1>8. InRange(t)
  BY <1>2, <1>7 DEF s
<1>9. Accepted(Shown(Splice(d, k, k, vs)))
  BY <1>8 DEF Accepted, t
<1>10. Edit(p, k, k, vs)
  BY DEF v
<1> QED BY <1>4, <1>9, <1>10 DEF EditsAs

-----------------------------------------------------------------------------
(* Timer fields, penalties and saved contracts *)

\* What the input makes of a number: within 1..top, and no more than the most
\* unless that is below 1.
LEMMA Clamped ==
  ASSUME NEW top \in Nat \ {0}, NEW q \in Int, NEW x \in Nat
  PROVE  \A n : n = Max({1, Min({Min({top, Max({1, q})}), x})}) => n \in 1..top /\ (n = 1 \/ n <= q)
<1> DEFINE a == Max({1, q})  m == Min({top, a})  b == Min({m, x})  c == Max({1, b})
<1>0. 1 \in Int /\ top \in Int /\ x \in Int
  OBVIOUS
<1>1. a \in {1, q} /\ a >= 1 /\ a \in Int
  BY <1>0, TwoMax
<1> HIDE DEF a
<1>2. m \in {top, a} /\ m <= top /\ m <= a /\ m \in Int
  BY <1>0, <1>1, TwoMin
<1> HIDE DEF m
<1>3. b \in {m, x} /\ b <= m /\ b \in Int
  BY <1>0, <1>2, TwoMin
<1> HIDE DEF b
<1>4. c \in {1, b} /\ c >= 1 /\ c \in Int
  BY <1>0, <1>3, TwoMax
<1> HIDE DEF c
<1>5. c \in 1..top /\ (c = 1 \/ c <= q)
  BY <1>1, <1>2, <1>3, <1>4
<1> QED BY <1>5 DEF c, b, m, a

\* The ranges of CreateRoomRuleDto, without the maximum of an empty break.
LEMMA RangeOf ==
  ASSUME NEW t, t[1].n \in Nat, t[2].n \in Nat, t[3].n \in Nat
  PROVE  InRange(t) <=> /\ t[2].n \in 1..120 /\ t[3].n \in 1..20 /\ t[1].n >= 1
                        /\ t[1].n * t[3].n + t[2].n * (t[3].n - 1) <= Limit
<1>1. t[3].n >= 1 => Max({0, t[3].n - 1}) = t[3].n - 1
  <2>1. 0 \in Int /\ t[3].n - 1 \in Int
    OBVIOUS
  <2>2. Max({0, t[3].n - 1}) \in {0, t[3].n - 1} /\ Max({0, t[3].n - 1}) >= 0 /\ Max({0, t[3].n - 1}) >= t[3].n - 1
    BY <2>1, TwoMax
  <2> QED BY <2>2
<1>2. t[3].n \in 1..20 => t[3].n >= 1
  OBVIOUS
<1> QED BY <1>1, <1>2 DEF InRange, Total

\* updateField: whatever is typed, the session is no longer than Limit.
LEMMA UpdateFieldForm ==
  ASSUME NEW p, Ready(p), NEW k \in 1..3, UpdateField(p, k)
  PROVE  EditsAs(p)
<1> DEFINE s == Shown(local[p])  t == Timer(local[p])  F == s[1].n  B == s[2].n  R == s[3].n
<1>1. subject = "fields" /\ edits > 0 /\ (k = 2 => t.rounds > 1)
  BY DEF UpdateField, MayEdit
<1>2. PICK n \in TimerNumberInput(t[Keys[k]], Most(t, k)) : Edit(p, k, k, <<[key |-> Keys[k], n |-> n]>>)
  BY DEF UpdateField
<1>3. /\ InRange(s) /\ F \in Nat /\ B \in Nat /\ R \in Nat
      /\ \A j \in 1..3 : s[j] = local[p].items[j].v
  BY <1>1, FieldParts
<1>4. t.focusMin = F /\ t.breakMin = B /\ t.rounds = R
  BY <1>3 DEF Timer
<1> HIDE DEF t
<1>5. B \in 1..120 /\ R \in 1..20 /\ F >= 1 /\ F * R + B * (R - 1) <= Limit
  BY <1>3, RangeOf
<1>6. Limit \in Nat /\ Typed \subseteq Nat
  BY EditingAssumption
<1>7. t[Keys[k]] \in Nat
  <2>1. Keys[1] = "focusMin" /\ Keys[2] = "breakMin" /\ Keys[3] = "rounds" /\ (k = 1 \/ k = 2 \/ k = 3)
    BY DEF Keys
  <2> QED BY <1>3, <1>4, <2>1
<1>8. PICK x \in Nat : n = Max({1, Min({Most(t, k), x})})
  BY <1>6, <1>7 DEF TimerNumberInput
<1>15. Max({0, R - 1}) = R - 1
  <2>1. 0 \in Int /\ R - 1 \in Int /\ R - 1 >= 0
    BY <1>5
  <2> HIDE DEF R
  <2>2. Max({0, R - 1}) \in {0, R - 1} /\ Max({0, R - 1}) >= R - 1
    BY <2>1, TwoMax
  <2> QED BY <2>1, <2>2
<1> HIDE DEF F, B, R
<1>9. n \in Nat /\ \A u : (u[k].n = n /\ \A j \in 1..3 \ {k} : u[j].n = s[j].n) => InRange(u)
  <2>1. CASE k = 1
    <3> DEFINE q == (Limit - B * (R - 1)) \div R
    <3>1. Most(t, k) = Min({120, Max({1, q})})
      <4>1. (Limit - t.breakMin * Max({0, t.rounds - 1})) \div t.rounds = q
        BY <1>4, <1>15
      <4> HIDE DEF q
      <4> DEFINE z == (Limit - t.breakMin * Max({0, t.rounds - 1})) \div t.rounds
      <4>2. Most(t, k) = Min({120, Max({1, z})})
        BY <2>1 DEF Most
      <4> HIDE DEF z
      <4> QED BY <4>1, <4>2 DEF z
    <3>2. R \in Nat \ {0} /\ Limit - B * (R - 1) \in Int /\ F * R <= Limit - B * (R - 1)
      BY <1>3, <1>5, <1>6
    <3>3. q \in Int /\ q * R <= Limit - B * (R - 1) /\ F <= q
      <4> DEFINE y == Limit - B * (R - 1)
      <4> HIDE DEF y
      <4>1. y \in Int /\ F * R <= y /\ F \in Int /\ R \in Nat \ {0}
        BY <1>3, <3>2 DEF y
      <4>2. y \div R \in Int /\ (y \div R) * R <= y /\ F <= y \div R
        BY <4>1, DivInt, DivMost
      <4> QED BY <4>2 DEF y
    <3> HIDE DEF q
    <3>4. n \in 1..120 /\ (n = 1 \/ n <= q)
      <4>1. 120 \in Nat \ {0} /\ n = Max({1, Min({Min({120, Max({1, q})}), x})})
        BY <1>8, <3>1
      <4> QED BY <3>3, <4>1, Clamped, ZenonT(60)
    <3>5. n \in Int /\ n <= q
      BY <1>3, <1>5, <3>3, <3>4
    <3>6. n * R <= q * R
      BY <1>3, <3>3, <3>5, MulMono
    <3>7. n \in Nat /\ n >= 1 /\ n * R + B * (R - 1) <= Limit
      BY <1>3, <1>5, <1>6, <3>2, <3>3, <3>4, <3>6
    <3>8. ASSUME NEW u, u[k].n = n, \A j \in 1..3 \ {k} : u[j].n = s[j].n
          PROVE  InRange(u)
      <4>1. u[1].n = n /\ u[2].n = B /\ u[3].n = R
        BY <2>1, <3>8 DEF B, R
      <4> QED BY <1>3, <1>5, <3>7, <4>1, RangeOf
    <3> QED BY <3>7, <3>8
  <2>2. CASE k = 2
    <3> DEFINE q == (Limit - F * R) \div (R - 1)
    <3>1. Most(t, k) = Min({120, Max({1, q})})
      BY <1>1, <1>4, <2>2 DEF Most
    <3>2. R - 1 \in Nat \ {0} /\ Limit - F * R \in Int /\ B * (R - 1) <= Limit - F * R
      BY <1>1, <1>3, <1>4, <1>5, <1>6, <2>2
    <3>3. q \in Int /\ q * (R - 1) <= Limit - F * R /\ B <= q
      <4> DEFINE y == Limit - F * R  h == R - 1
      <4> HIDE DEF y, h
      <4>1. y \in Int /\ B * h <= y /\ B \in Int /\ h \in Nat \ {0}
        BY <1>3, <3>2 DEF y, h
      <4>2. y \div h \in Int /\ (y \div h) * h <= y /\ B <= y \div h
        BY <4>1, DivInt, DivMost
      <4> QED BY <4>2 DEF y, h
    <3> HIDE DEF q
    <3>4. n \in 1..120 /\ (n = 1 \/ n <= q)
      <4>1. 120 \in Nat \ {0} /\ n = Max({1, Min({Min({120, Max({1, q})}), x})})
        BY <1>8, <3>1
      <4> QED BY <3>3, <4>1, Clamped, ZenonT(60)
    <3>5. n \in Int /\ n <= q
      BY <1>3, <1>5, <3>3, <3>4
    <3>6. n * (R - 1) <= q * (R - 1)
      BY <3>2, <3>3, <3>5, MulMono
    <3>7. n \in Nat /\ F * R + n * (R - 1) <= Limit
      BY <1>3, <1>5, <1>6, <3>2, <3>3, <3>4, <3>6
    <3>8. ASSUME NEW u, u[k].n = n, \A j \in 1..3 \ {k} : u[j].n = s[j].n
          PROVE  InRange(u)
      <4>1. u[1].n = F /\ u[2].n = n /\ u[3].n = R
        BY <2>2, <3>8 DEF F, R
      <4> QED BY <1>3, <1>5, <3>4, <3>7, <4>1, RangeOf
    <3> QED BY <3>7, <3>8
  <2>3. CASE k = 3
    <3> DEFINE q == Limit \div (F + B)
    <3>1. Most(t, k) = Min({20, Max({1, q})})
      BY <1>4, <2>3 DEF Most
    <3>2. F + B \in Nat \ {0}
      BY <1>3, <1>5
    <3>3. q \in Int /\ q * (F + B) <= Limit
      BY <1>6, <3>2, DivInt
    <3> HIDE DEF q
    <3>4. n \in 1..20 /\ (n = 1 \/ n <= q)
      <4>1. 20 \in Nat \ {0} /\ n = Max({1, Min({Min({20, Max({1, q})}), x})})
        BY <1>8, <3>1
      <4> QED BY <3>3, <4>1, Clamped
    <3>5. n \in Nat /\ n >= 1 /\ F * n + B * (n - 1) <= Limit
      <4>1. CASE n = 1
        <5>1. 1 * F <= R * F
          BY <1>3, <1>5, MulMono
        <5>2. 0 <= B * (R - 1)
          BY <1>3, <1>5
        <5> QED BY <1>3, <1>5, <1>6, <4>1, <5>1, <5>2
      <4>2. CASE n <= q
        <5>1. n \in Int /\ n * (F + B) <= q * (F + B)
          BY <3>2, <3>3, <3>4, <4>2, MulMono
        <5>2. F * n + B * (n - 1) <= n * (F + B)
          BY <1>3, <3>4
        <5> QED BY <1>3, <1>6, <3>2, <3>3, <3>4, <5>1, <5>2
      <4> QED BY <3>4, <4>1, <4>2
    <3>8. ASSUME NEW u, u[k].n = n, \A j \in 1..3 \ {k} : u[j].n = s[j].n
          PROVE  InRange(u)
      <4>1. u[1].n = F /\ u[2].n = B /\ u[3].n = n
        BY <2>3, <3>8 DEF F, B
      <4> QED BY <1>3, <1>5, <3>4, <3>5, <4>1, RangeOf
    <3> QED BY <3>5, <3>8
  <2> QED BY <2>1, <2>2, <2>3
<1> QED BY <1>1, <1>2, <1>9, OneField

\* An edit of the penalties, which are taken as they are.
LEMMA PenaltiesForm ==
  ASSUME NEW p, Ready(p), subject = "penalties", edits > 0,
         NEW from \in Nat \ {0}, NEW to \in Nat, from <= to + 1, to <= Len(local[p].items),
         NEW vs, vs \in Seq(Penalties), Edit(p, from, to, vs)
  PROVE  EditsAs(p)
<1>1. Values(subject) = Penalties
  BY DEF Values
<1>2. Proper(local[p], from, to, vs)
  BY <1>1 DEF Proper
<1>3. Accepted(Shown(Splice(local[p], from, to, vs)))
  BY DEF Accepted
<1> QED BY <1>2, <1>3 DEF EditsAs

\* LoadContractDialog, addPenalty, updatePenalty and removePenalty.
LEMMA LoadContractForm ==
  ASSUME NEW p, Ready(p), LoadContract(p)
  PROVE  EditsAs(p)
<1> DEFINE n == Len(local[p].items)
<1>1. edits > 0 /\ n \in Nat
  BY DEF LoadContract, MayEdit, Ready, DocOK, Docs
<1>2. CASE MayEdit(p, "tiers") /\ \E t \in SavedTiers : ApplyAll(p, t, "replace")
  <2>1. PICK t \in SavedTiers : Edit(p, 1, n, t)
    BY <1>2 DEF ApplyAll
  <2>2. subject = "tiers" /\ t \in Seq(Tiers) /\ Joined(t)
    BY <1>2, SavedAssumption DEF MayEdit
  <2> QED BY <1>1, <2>1, <2>2, WholeTiers
<1>3. CASE MayEdit(p, "fields") /\ \E f \in SavedFields : ApplyAll(p, Fields(f), "replace")
  <2>1. PICK f \in SavedFields : Edit(p, 1, n, Fields(f))
    BY <1>3 DEF ApplyAll
  <2> DEFINE vs == Fields(f)  t == Shown(Splice(local[p], 1, n, vs))
  <2>2. subject = "fields" /\ f \in Seq(Nat) /\ Len(f) = 3 /\ InRange(vs)
    BY <1>3, SavedAssumption DEF MayEdit
  <2>3. vs \in Seq(Field) /\ Len(vs) = 3 /\ \A i \in 1..3 : vs[i].key = Keys[i]
    <3>1. \A k \in 1..3 : Keys[k] \in {"focusMin", "breakMin", "rounds"} /\ f[k] \in Nat
      <4>1. \A j \in 1..3 : j = 1 \/ j = 2 \/ j = 3
        OBVIOUS
      <4>2. \A j \in 1..3 : f[j] \in Nat
        <5>1. \A j \in 1..Len(f) : f[j] \in Nat
          BY <2>2, ElementOfSeq
        <5> QED BY <2>2, <5>1
      <4>3. Keys[1] = "focusMin" /\ Keys[2] = "breakMin" /\ Keys[3] = "rounds"
        BY DEF Keys
      <4>4. \A j \in 1..3 : Keys[j] \in {"focusMin", "breakMin", "rounds"}
        BY <4>1, <4>3
      <4> QED BY <4>2, <4>4
    <3>2. \A k \in 1..3 : vs[k] = [key |-> Keys[k], n |-> f[k]] /\ vs[k] \in Field
      BY <3>1 DEF Fields, Field
    <3>3. vs = [k \in 1..3 |-> vs[k]]
      BY DEF Fields
    <3> HIDE DEF vs
    <3> QED BY <3>2, <3>3
  <2>4. local[p] \in Docs /\ Values(subject) = Field /\ n = 3 /\ Shown(local[p]) \in Seq(Field) /\ Len(Shown(local[p])) = n
    BY <2>2, FieldParts
  <2> HIDE DEF vs
  <2>5. Proper(local[p], 1, n, vs)
    <3>1. Len(vs) = n - 1 + 1 /\ \A i \in 1..Len(vs) : 1 + i - 1 = i
      BY <2>3, <2>4
    <3> QED BY <2>3, <2>4, <3>1 DEF Proper
  <2>6. t \in Seq(Field) /\ Replaces(t, Shown(local[p]), vs, 1, n)
    BY <2>4, <2>5, SpliceShown DEF Ready
  <2> HIDE DEF t
  <2>7. t = vs
    BY <2>3, <2>4, <2>6, ReplacedWhole
  <2>8. Accepted(Shown(Splice(local[p], 1, n, vs)))
    BY <2>2, <2>7 DEF Accepted, t
  <2> QED BY <1>1, <2>1, <2>5, <2>8 DEF EditsAs, vs
<1>4. CASE MayEdit(p, "penalties") /\ \E mode \in {"replace", "append"} : ApplyAll(p, <<"text">>, mode)
  <2>1. subject = "penalties" /\ <<"text">> \in Seq(Penalties)
    BY <1>4 DEF MayEdit, Penalties
  <2>2. Edit(p, 1, n, <<"text">>) \/ Edit(p, n + 1, n, <<"text">>)
    BY <1>4 DEF ApplyAll
  <2>3. 1 \in Nat \ {0} /\ n + 1 \in Nat \ {0} /\ 1 <= n + 1 /\ n + 1 <= n + 1 /\ n <= Len(local[p].items)
    BY <1>1
  <2> HIDE DEF n
  <2>4. CASE Edit(p, 1, n, <<"text">>)
    BY <1>1, <2>1, <2>3, <2>4, PenaltiesForm
  <2>5. CASE Edit(p, n + 1, n, <<"text">>)
    BY <1>1, <2>1, <2>3, <2>5, PenaltiesForm
  <2> QED BY <2>2, <2>4, <2>5
<1> QED BY <1>2, <1>3, <1>4 DEF LoadContract

LEMMA AddPenaltyForm ==
  ASSUME NEW p, Ready(p), AddPenalty(p)
  PROVE  EditsAs(p)
<1> DEFINE n == Len(local[p].items)
<1>1. edits > 0 /\ subject = "penalties" /\ Edit(p, n + 1, n, <<"blank">>) /\ n \in Nat
  BY DEF AddPenalty, MayEdit, Ready, DocOK, Docs
<1>2. <<"blank">> \in Seq(Penalties) /\ n + 1 \in Nat \ {0} /\ n + 1 <= n + 1 /\ n <= Len(local[p].items)
  BY <1>1 DEF Penalties
<1> HIDE DEF n
<1> QED BY <1>1, <1>2, PenaltiesForm

LEMMA OnePenaltyForm ==
  ASSUME NEW p, Ready(p), NEW i \in 1..Len(local[p].items),
         RemovePenalty(p, i) \/ \E v \in Penalties : UpdatePenalty(p, i, v)
  PROVE  EditsAs(p)
<1>1. edits > 0 /\ subject = "penalties" /\ \E vs \in Seq(Penalties) : Edit(p, i, i, vs)
  <2>1. <<>> \in Seq(Penalties) /\ \A v \in Penalties : <<v>> \in Seq(Penalties)
    OBVIOUS
  <2>2. CASE RemovePenalty(p, i)
    BY <2>1, <2>2 DEF RemovePenalty, MayEdit
  <2>3. CASE \E v \in Penalties : UpdatePenalty(p, i, v)
    BY <2>1, <2>3 DEF UpdatePenalty, MayEdit
  <2> QED BY <2>2, <2>3
<1>2. i \in Nat \ {0} /\ i <= i + 1 /\ i <= Len(local[p].items)
  BY DEF Ready, DocOK, Docs
<1> QED BY <1>1, <1>2, PenaltiesForm

-----------------------------------------------------------------------------
(* Steps of the documents *)

\* A step changes documents and leaves what a document is.
LEMMA SameDocs == ASSUME subject' = subject PROVE Docs' = Docs /\ Empty(subject)' = Empty(subject) /\ Values(subject)' = Values(subject)
BY DEF Docs, Items, Empty, Values
LEMMA SameSound ==
  ASSUME subject' = subject, NEW d, NEW n
  PROVE  Sound(d, n)' <=> Sound(d, n)
<1>1. DocOK(d)' <=> DocOK(d)
  BY SameDocs DEF DocOK
<1>2. Known(d, n)' <=> Known(d, n)
  BY DEF Known, Made
<1>3. (Made(Empty(subject)) \subseteq Made(d))' <=> (Made(Empty(subject)) \subseteq Made(d))
  BY SameDocs
<1> QED BY <1>1, <1>2, <1>3 DEF Sound
LEMMA SameMatch ==
  ASSUME subject' = subject, NEW d, NEW e
  PROVE  Match(d, e)' <=> Match(d, e)
BY DEF Match
LEMMA SameAccepted ==
  ASSUME subject' = subject, NEW d
  PROVE  /\ Accepted(Shown(d))' <=> Accepted(Shown(d))
         /\ Accepted(Content(d))' <=> Accepted(Content(d))
         /\ Content(d)' = Content(d)
<1>1. Shown(d)' = Shown(d)
  BY DEF Shown
<1>2. Content(d)' = Content(d)
  BY <1>1 DEF Content
<1> QED BY <1>1, <1>2 DEF Accepted
LEMMA CoherentNext ==
  ASSUME subject' = subject, Coherent(local', server', fresh')
  PROVE  Coherent(local, server, fresh)'
<1>1. Replicas(local, server)' = Replicas(local', server')
  BY SameDocs DEF Replicas
<1>2. \A d \in Replicas(local, server)' : Sound(d, fresh')
  BY <1>1 DEF Coherent
<1>3. \A d, e \in Replicas(local, server)' : Match(d, e)
  BY <1>1 DEF Coherent
<1> QED BY <1>2, <1>3, SameSound, SameMatch DEF Coherent

-----------------------------------------------------------------------------
(* Types, the replicas, and what a page can send *)

\* A replica is one that createRoomRule takes, until two have crossed.
Good == ~crossed => \A d \in Replicas(local, server) : Accepted(Shown(d))

DInv == TypeOK /\ Coherent(local, server, fresh) /\ Good

\* The replicas of a state.
LEMMA Replicated ==
  ASSUME DInv
  PROVE  /\ Subjects /\ local \in [Pages -> Docs] /\ server \in Docs /\ fresh \in Nat
         /\ \A p \in Pages : DocOK(local[p]) /\ DocOK(server) /\ Match(local[p], server) /\ Match(server, local[p])
         /\ \A p, q \in Pages : Match(local[p], local[q])
<1>1. Subjects /\ local \in [Pages -> Docs] /\ server \in Docs /\ fresh \in Nat
  BY DEF DInv, TypeOK, Subjects
<1> QED BY <1>1, Replica DEF DInv, Sound

\* Who may edit has a contract that createRoomRule takes.
LEMMA AnEditor ==
  ASSUME DInv, NEW p \in Pages, NEW s, MayEdit(p, s)
  PROVE  Ready(p)
BY Replicated DEF DInv, Good, MayEdit, Ready, Replicas

\* What is accepted of a page is accepted of the rule it sends.
LEMMA AcceptedContent ==
  ASSUME NEW d, Accepted(Shown(d))
  PROVE  Accepted(Content(d))
BY DEF Accepted, Content

LEMMA ContentType ==
  ASSUME Subjects, NEW d, d \in Docs
  PROVE  Content(d) \in Seq(Values(subject))
<1>1. Shown(d) \in Seq(Values(subject))
  BY ShownOK
<1>2. Texts(Shown(d)) \in Seq(Values(subject))
  BY <1>1, TextsOK
<1> QED BY <1>1, <1>2 DEF Content

\* What a step is.
LEMMA Steps ==
  ASSUME DInv, Next
  PROVE  \/ \E p \in Pages : Push(p) \/ Pull(p) \/ Reload(p) \/ Sign(p) \/ Receive(p) \/ EditsAs(p)
         \/ \E force \in BOOLEAN : StartFocus(force)
         \/ CreateRoomRule \/ StartTimer
<1>1. ASSUME NEW p \in Pages, AddTier(p) \/ AddPenalty(p) \/ LoadContract(p)
      PROVE  EditsAs(p)
  <2>1. Ready(p)
    BY <1>1, AnEditor DEF AddTier, AddPenalty, LoadContract
  <2> QED BY <1>1, <2>1, AddTierForm, AddPenaltyForm, LoadContractForm
<1>2. ASSUME NEW p \in Pages, NEW i \in 1..Len(local[p].items),
             SetTierBoundary(p, i) \/ RemoveTier(p, i) \/ RemovePenalty(p, i) \/ \E v \in Penalties : UpdatePenalty(p, i, v)
      PROVE  EditsAs(p)
  <2>1. Ready(p)
    BY <1>2, AnEditor DEF SetTierBoundary, RemoveTier, RemovePenalty, UpdatePenalty
  <2>2. CASE SetTierBoundary(p, i)
    BY <2>1, <2>2, SetTierBoundaryForm
  <2>3. CASE RemoveTier(p, i)
    BY <2>1, <2>3, RemoveTierForm
  <2>4. CASE RemovePenalty(p, i) \/ \E v \in Penalties : UpdatePenalty(p, i, v)
    BY <2>1, <2>4, OnePenaltyForm
  <2> QED BY <1>2, <2>2, <2>3, <2>4
<1>3. ASSUME NEW p \in Pages, NEW i \in 1..Max({1, Len(local[p].items)}), UpdateTier(p, i)
      PROVE  EditsAs(p)
  <2>1. Ready(p)
    BY <1>3, AnEditor DEF UpdateTier
  <2> QED BY <1>3, <2>1, UpdateTierForm
<1>4. ASSUME NEW p \in Pages, NEW k \in 1..3, UpdateField(p, k)
      PROVE  EditsAs(p)
  <2>1. Ready(p)
    BY <1>4, AnEditor DEF UpdateField
  <2> QED BY <1>4, <2>1, UpdateFieldForm
<1> QED BY <1>1, <1>2, <1>3, <1>4 DEF Next

LEMMA InitDocs == ASSUME Init PROVE DInv
<1>1. Subjects /\ editors \cup signers \subseteq Pages /\ edits \in Nat /\ reloads \in Nat
  BY EditingAssumption DEF Init, Subjects
<1> DEFINE e == Empty(subject)
<1>2. DocOK(e) /\ Made(e) \subseteq 1..3 /\ e.dead = {}
  BY <1>1, EmptyOK
<1>3. e \in Docs /\ Known(e, 4) /\ Match(e, e)
  BY <1>2, SelfMatch DEF DocOK, Known
<1>4. Accepted(Shown(e))
  <2>1. CASE subject = "tiers"
    <3>1. e.items = <<>>
      BY <2>1 DEF Empty
    <3>2. Len(Shown(e)) = 0
      BY <3>1 DEF Shown
    <3> QED BY <2>1, <3>2 DEF Accepted, Joined
  <2>2. CASE subject = "fields"
    <3>1. e.items = [k \in 1..3 |-> [id |-> k, v |-> DefaultFields[k]]]
      BY <2>2 DEF Empty
    <3>2. Len(e.items) = 3 /\ \A k \in 1..3 : e.items[k].v = DefaultFields[k]
      BY <3>1
    <3>3. Shown(e) = [k \in 1..3 |-> DefaultFields[k]]
      BY <3>2 DEF Shown
    <3>4. DefaultFields = [k \in 1..3 |-> DefaultFields[k]]
      BY DEF DefaultFields, Fields
    <3>5. InRange(DefaultFields)
      BY SavedAssumption
    <3> QED BY <2>2, <3>3, <3>4, <3>5 DEF Accepted
  <2> QED BY <1>1, <2>1, <2>2 DEF Accepted, Subjects
<1>5. /\ local = [p \in Pages |-> e] /\ server = e /\ fresh = 4 /\ synced = {} /\ signed = {}
      /\ wire = [p \in Pages |-> <<>>]
      /\ dto = None /\ forced = FALSE /\ template = None /\ started = None
      /\ crossed = FALSE /\ approved = [p \in Pages |-> None] /\ raced = FALSE
  BY DEF Init
<1> HIDE DEF e
<1>6. TypeOK
  <2>1. local \in [Pages -> Docs] /\ server \in Docs
    BY <1>3, <1>5
  <2>2. wire \in [Pages -> Seq({"edited", "sign"})] /\ approved \in [Pages -> Seq(Values(subject)) \cup {None}]
    BY <1>5
  <2>3. /\ subject \in {"tiers", "fields", "penalties"} /\ editors \cup signers \subseteq Pages
        /\ fresh \in Nat /\ edits \in Nat /\ reloads \in Nat
    BY <1>1, <1>5 DEF Subjects
  <2>4. /\ synced \subseteq Pages /\ signed \subseteq Pages
        /\ dto \in Seq(Values(subject)) \cup {None} /\ template \in Seq(Values(subject)) \cup {None}
        /\ forced \in BOOLEAN /\ started \in (SUBSET Pages) \cup {None}
        /\ crossed \in BOOLEAN /\ raced \in BOOLEAN
    BY <1>5
  <2> QED BY <2>1, <2>2, <2>3, <2>4 DEF TypeOK
<1>7. Replicas(local, server) = {e}
  BY <1>5 DEF Replicas, e
<1>8. Coherent(local, server, fresh)
  BY <1>2, <1>3, <1>5, <1>7 DEF Coherent, Sound, e
<1>9. Good
  BY <1>4, <1>7 DEF Good
<1> QED BY <1>6, <1>8, <1>9 DEF DInv

\* y-websocket: the server takes over a page's changes.
LEMMA DocsPush ==
  ASSUME DInv, NEW p \in Pages, Push(p)
  PROVE  DInv'
<1>1. server' \in Merge(local[p], server) /\ local' = local /\ fresh' = fresh /\ subject' = subject
      /\ ~(Knows(local[p]) \subseteq Knows(server))
      /\ crossed' = (crossed \/ ~(Knows(server) \subseteq Knows(local[p])))
  BY DEF Push, trial
<1>2. Coherent(local, server', fresh)
  BY <1>1, Replicated, PushCoherent DEF DInv
<1>3. DocOK(server') /\ (Knows(server) \subseteq Knows(local[p]) => server' = local[p])
  BY <1>1, Replicated, MergeOK
<1>4. TypeOK'
  <2>1. server' \in Docs /\ crossed' \in BOOLEAN
    BY <1>1, <1>3 DEF DocOK, DInv, TypeOK
  <2>2. Docs' = Docs /\ Values(subject)' = Values(subject)
    BY <1>1 DEF Docs, Items
  <2> QED BY <2>1, <2>2 DEF DInv, TypeOK, Push, trial, events, start, bounds
<1>5. Coherent(local, server, fresh)'
  BY <1>1, <1>2, CoherentNext
<1>6. Good'
  <2> SUFFICES ASSUME ~crossed' PROVE \A d \in Replicas(local, server)' : Accepted(Shown(d))'
    BY DEF Good
  <2>1. server' = local[p] /\ ~crossed
    BY <1>1, <1>3
  <2>2. Replicas(local, server)' \subseteq Replicas(local, server)
    BY <1>1, <2>1, SameDocs DEF Replicas
  <2> QED BY <1>1, <2>1, <2>2, SameAccepted DEF Good, DInv
<1> QED BY <1>4, <1>5, <1>6 DEF DInv

\* The replicas after page p's has become d.
LEMMA NewGood ==
  ASSUME DInv, subject' = subject, server' = server, NEW p \in Pages, NEW d, local' = [local EXCEPT ![p] = d],
         crossed' \in BOOLEAN, ~crossed' => ~crossed /\ Accepted(Shown(d))
  PROVE  Good'
<1>1. Replicas(local, server)' \subseteq Replicas(local, server) \cup {d}
  <2>1. local \in [Pages -> Docs] /\ local' \in [Pages -> {local[q] : q \in Pages} \cup {d}]
    BY Replicated
  <2> QED BY <2>1, SameDocs DEF Replicas
<1> QED BY <1>1, SameAccepted DEF Good, DInv

\* An edit made in page p's replica, which has the document d by then.
LEMMA DocsTransact ==
  ASSUME DInv, NEW p \in Pages, NEW d, NEW from, NEW to, NEW vs,
         Coherent([local EXCEPT ![p] = d], server, fresh), d \in Docs,
         Proper(d, from, to, vs), Transact(p, d, from, to, vs),
         subject' = subject, server' = server
  PROVE  /\ Coherent(local, server, fresh)'
         /\ local' \in [Pages -> Docs'] /\ fresh' \in Nat /\ wire' \in [Pages -> Seq({"edited", "sign"})] /\ raced' \in BOOLEAN
<1> DEFINE l == [local EXCEPT ![p] = d]
           e == Splice(d, from, to, vs)
<1>1. l \in [Pages -> Docs] /\ l[p] = d /\ fresh \in Nat
  BY Replicated
<1>2. local' = [l EXCEPT ![p] = e] /\ fresh' = fresh + Len(vs)
  BY <1>1, Replicated DEF Transact
<1> HIDE DEF l
<1>3. Coherent(l, server, fresh)
  BY DEF l
<1>4. Coherent(local', server, fresh + Len(vs))
  BY <1>1, <1>2, <1>3, SpliceCoherent DEF Proper
<1>5. e \in Docs
  BY <1>1, SpliceItems DEF Proper
<1>6. Coherent(local, server, fresh)'
  BY <1>2, <1>4, CoherentNext
<1>7. local' \in [Pages -> Docs']
  BY <1>1, <1>2, <1>5, SameDocs
<1>8. fresh' \in Nat
  BY <1>1, <1>2 DEF Proper
<1>9. wire' \in [Pages -> Seq({"edited", "sign"})] /\ raced' \in BOOLEAN
  BY DEF Transact, DInv, TypeOK
<1> QED BY <1>6, <1>7, <1>8, <1>9

\* Every edit of the cards.
LEMMA DocsEdit ==
  ASSUME DInv, NEW p \in Pages, EditsAs(p)
  PROVE  DInv'
<1>1. PICK from, to, vs : /\ Proper(local[p], from, to, vs) /\ edits > 0
                          /\ Accepted(Shown(Splice(local[p], from, to, vs)))
                          /\ Edit(p, from, to, vs)
  BY DEF EditsAs
<1>2. /\ Transact(p, local[p], from, to, vs) /\ edits' = edits - 1
      /\ UNCHANGED <<subject, editors, signers, server, synced, signed, dto, forced, template, started, reloads, crossed, approved>>
  BY <1>1 DEF Edit, trial, start
<1>3. [local EXCEPT ![p] = local[p]] = local /\ local[p] \in Docs
  BY Replicated
<1>4. /\ Coherent(local, server, fresh)'
      /\ local' \in [Pages -> Docs'] /\ fresh' \in Nat /\ wire' \in [Pages -> Seq({"edited", "sign"})] /\ raced' \in BOOLEAN
  BY <1>1, <1>2, <1>3, DocsTransact DEF DInv
<1>5. edits' \in Nat
  BY <1>1, <1>2 DEF DInv, TypeOK
<1>6. TypeOK'
  BY <1>2, <1>4, <1>5, SameDocs DEF DInv, TypeOK
<1>7. Good'
  <2>1. local' = [local EXCEPT ![p] = Splice(local[p], from, to, vs)]
    BY <1>2 DEF Transact
  <2>2. crossed' \in BOOLEAN /\ crossed' = crossed
    BY <1>2 DEF DInv, TypeOK
  <2>3. ~crossed' => ~crossed /\ Accepted(Shown(Splice(local[p], from, to, vs)))
    BY <1>1, <2>2
  <2> QED BY <1>2, <2>1, <2>2, <2>3, NewGood
<1> QED BY <1>4, <1>6, <1>7 DEF DInv

\* A page that is loaded again.
LEMMA DocsReload ==
  ASSUME DInv, NEW p \in Pages, Reload(p)
  PROVE  DInv'
<1>1. /\ local' = [local EXCEPT ![p] = Empty(subject)] /\ synced' = synced \ {p}
      /\ dto' = (IF p = Host THEN None ELSE dto) /\ reloads > 0 /\ reloads' = reloads - 1
      /\ raced' \in BOOLEAN
      /\ UNCHANGED <<subject, editors, signers, server, fresh, wire, signed, forced, template, started, edits, crossed, approved>>
  BY DEF Reload, trial, events, DInv, TypeOK
<1>2. Coherent(local', server, fresh)
  BY <1>1, Replicated, ReloadCoherent DEF DInv
<1>3. Coherent(local, server, fresh)'
  BY <1>1, <1>2, CoherentNext
<1>4. Empty(subject) \in Docs
  BY Replicated, EmptyOK DEF DocOK
<1>5. local' \in [Pages -> Docs]
  BY <1>1, <1>4, Replicated
<1>6. reloads' \in Nat /\ dto' \in Seq(Values(subject)) \cup {None}
  BY <1>1 DEF DInv, TypeOK
<1>7. TypeOK'
  BY <1>1, <1>5, <1>6, SameDocs DEF DInv, TypeOK
<1>8. Good'
  <2>1. ~crossed' => ~crossed /\ Accepted(Shown(Empty(subject)))
    BY <1>1 DEF DInv, Good, Replicas
  <2>2. crossed' \in BOOLEAN
    BY <1>1 DEF DInv, TypeOK
  <2> QED BY <1>1, <2>1, <2>2, NewGood
<1> QED BY <1>3, <1>7, <1>8 DEF DInv

\* The first sync, with what the host seeds, and those behind it.
LEMMA DocsPull ==
  ASSUME DInv, NEW p \in Pages, Pull(p)
  PROVE  DInv'
<1>1. PICK d \in Merge(local[p], server) :
       \/ /\ local' = [local EXCEPT ![p] = d]
          /\ UNCHANGED <<fresh, wire, raced>>
       \/ /\ p \notin synced /\ p = Host /\ subject = "tiers" /\ d.items = <<>>
          /\ Transact(p, d, 1, 0, <<DefaultTier>>)
  BY DEF Pull
<1>2. /\ synced' = synced \cup {p}
      /\ crossed' = (crossed \/ (~(Knows(local[p]) \subseteq Knows(server)) /\ ~(Knows(server) \subseteq Knows(local[p]))))
      /\ UNCHANGED <<subject, editors, signers, server, signed, dto, forced, template, started, edits, reloads, approved>>
  BY DEF Pull, trial, start, bounds
<1>3. DocOK(d) /\ (Knows(local[p]) \subseteq Knows(server) => d = server) /\ (Knows(server) \subseteq Knows(local[p]) => d = local[p])
  BY Replicated, MergeOK
<1>4. Coherent([local EXCEPT ![p] = d], server, fresh) /\ d \in Docs
  BY <1>3, Replicated, PullCoherent DEF DInv, DocOK
<1>5. ~crossed' => ~crossed /\ Accepted(Shown(d))
  <2>1. ~crossed' => ~crossed /\ d \in Replicas(local, server)
    BY <1>2, <1>3 DEF Replicas
  <2> QED BY <2>1 DEF DInv, Good
<1>6. crossed' \in BOOLEAN /\ synced' \subseteq Pages
  BY <1>2 DEF DInv, TypeOK
<1>7. CASE local' = [local EXCEPT ![p] = d] /\ UNCHANGED <<fresh, wire, raced>>
  <2>1. Coherent(local, server, fresh)'
    BY <1>2, <1>4, <1>7, CoherentNext
  <2>2. local' \in [Pages -> Docs]
    BY <1>4, <1>7, Replicated
  <2>3. TypeOK'
    BY <1>2, <1>6, <1>7, <2>2, SameDocs DEF DInv, TypeOK
  <2>4. Good'
    BY <1>2, <1>5, <1>6, <1>7, NewGood
  <2> QED BY <2>1, <2>3, <2>4 DEF DInv
<1>8. CASE /\ p \notin synced /\ p = Host /\ subject = "tiers" /\ d.items = <<>>
           /\ Transact(p, d, 1, 0, <<DefaultTier>>)
  <2>1. DefaultTier \in Tiers /\ Values(subject) = Tiers
    <3>1. DefaultTier = [min |-> 0, max |-> NoPct, count |-> 0]
      BY DEF DefaultTier
    <3>2. 0 \in 0..99 /\ NoPct \in 0..99 \cup {NoPct} /\ 0 \in Nat
      OBVIOUS
    <3>3. DefaultTier \in Tiers
      BY <3>1, <3>2 DEF Tiers
    <3> QED BY <1>8, <3>3 DEF Values
  <2>2. Proper(d, 1, 0, <<DefaultTier>>)
    BY <1>8, <2>1 DEF Proper
  <2>3. /\ Coherent(local, server, fresh)'
        /\ local' \in [Pages -> Docs'] /\ fresh' \in Nat /\ wire' \in [Pages -> Seq({"edited", "sign"})] /\ raced' \in BOOLEAN
    BY <1>2, <1>4, <1>8, <2>2, DocsTransact
  <2>4. TypeOK'
    BY <1>2, <1>6, <2>3, SameDocs DEF DInv, TypeOK
  <2>5. Accepted(Shown(Splice(d, 1, 0, <<DefaultTier>>)))
    <3> DEFINE t == Shown(Splice(d, 1, 0, <<DefaultTier>>))
    <3>1. Replaces(t, Shown(d), <<DefaultTier>>, 1, 0) /\ Len(Shown(d)) = 0
      BY <1>4, <1>8, <2>2, SpliceShown, ShownOK, Replicated
    <3>2. Len(t) = 1
      BY <3>1 DEF Replaces
    <3> HIDE DEF t
    <3>3. Joined(t)
      BY <3>2 DEF Joined
    <3> QED BY <1>8, <3>3 DEF Accepted, t
  <2>6. Good'
    <3>1. local' = [local EXCEPT ![p] = Splice(d, 1, 0, <<DefaultTier>>)]
      BY <1>8 DEF Transact
    <3> QED BY <1>2, <1>5, <1>6, <2>5, <3>1, NewGood
  <2> QED BY <2>3, <2>4, <2>6 DEF DInv
<1> QED BY <1>1, <1>7, <1>8

\* Signatures and the start leave the documents alone.
LEMMA DocsKept ==
  ASSUME DInv, TypeOK', UNCHANGED <<subject, local, server, fresh, crossed>>
  PROVE  DInv'
<1>1. Coherent(local, server, fresh)'
  BY CoherentNext DEF DInv
<1>2. Replicas(local, server)' = Replicas(local, server)
  BY SameDocs DEF Replicas
<1>3. Good'
  BY <1>2, SameAccepted DEF Good, DInv
<1> QED BY <1>1, <1>3 DEF DInv

LEMMA DocsRest ==
  ASSUME DInv,
         \/ \E p \in Pages : Sign(p) \/ Receive(p)
         \/ \E force \in BOOLEAN : StartFocus(force)
         \/ CreateRoomRule \/ StartTimer
  PROVE  DInv'
<1>0. UNCHANGED <<trial, docs, bounds, crossed>>
  BY DEF Sign, Receive, StartFocus, CreateRoomRule, StartTimer, docs, history
<1>1. UNCHANGED <<subject, editors, signers, local, server, synced, fresh, edits, reloads, crossed>>
  BY <1>0 DEF trial, docs, bounds
<1>2. Values(subject)' = Values(subject) /\ Docs' = Docs
  BY <1>1, SameDocs
<1>3. \A p \in Pages : Content(local[p]) \in Seq(Values(subject))
  BY Replicated, ContentType
<1>4. TypeOK'
  <2>1. ASSUME NEW p \in Pages, Sign(p)
        PROVE  TypeOK'
    <3>1. /\ wire' = [wire EXCEPT ![p] = Append(@, "sign")]
          /\ approved' = [approved EXCEPT ![p] = Content(local[p])] /\ raced' \in BOOLEAN
          /\ UNCHANGED <<signed, dto, forced, template, started>>
      BY <2>1 DEF Sign, start, DInv, TypeOK
    <3>2. wire' \in [Pages -> Seq({"edited", "sign"})]
      BY <3>1 DEF DInv, TypeOK
    <3>3. approved' \in [Pages -> Seq(Values(subject)) \cup {None}]
      BY <1>3, <3>1 DEF DInv, TypeOK
    <3> QED BY <1>1, <1>2, <3>1, <3>2, <3>3 DEF DInv, TypeOK
  <2>2. ASSUME NEW p \in Pages, Receive(p)
        PROVE  TypeOK'
    <3>1. /\ wire' = [wire EXCEPT ![p] = Tail(@)] /\ wire[p] # <<>>
          /\ signed' \subseteq Pages
          /\ UNCHANGED <<dto, forced, template, started, approved, raced>>
      BY <2>2 DEF Receive, start, history, DInv, TypeOK
    <3>2. wire' \in [Pages -> Seq({"edited", "sign"})]
      BY <3>1 DEF DInv, TypeOK
    <3> QED BY <1>1, <1>2, <3>1, <3>2 DEF DInv, TypeOK
  <2>3. ASSUME NEW force \in BOOLEAN, StartFocus(force)
        PROVE  TypeOK'
    <3>1. /\ dto' = Content(local[Host]) /\ forced' = force /\ template' = None
          /\ UNCHANGED <<wire, signed, started, approved, raced>>
      BY <2>3 DEF StartFocus, events, history
    <3>2. dto' \in Seq(Values(subject))
      BY <1>3, <3>1, EditingAssumption
    <3> QED BY <1>1, <1>2, <3>1, <3>2 DEF DInv, TypeOK
  <2>4. CASE CreateRoomRule
    <3>1. /\ dto' \in {dto, None} /\ template' \in {dto, template}
          /\ UNCHANGED <<wire, signed, forced, started, approved, raced>>
      BY <2>4 DEF CreateRoomRule, events, history
    <3> QED BY <1>1, <1>2, <3>1 DEF DInv, TypeOK
  <2>5. CASE StartTimer
    <3>1. /\ dto' \in {dto, None} /\ started' \in {started, signed} /\ raced' \in BOOLEAN
          /\ UNCHANGED <<wire, signed, forced, template, approved>>
      BY <2>5 DEF StartTimer, events, DInv, TypeOK
    <3> QED BY <1>1, <1>2, <3>1 DEF DInv, TypeOK
  <2> QED BY <2>1, <2>2, <2>3, <2>4, <2>5
<1> QED BY <1>1, <1>4, DocsKept

LEMMA DocsNext == ASSUME DInv, [Next]_vars PROVE DInv'
<1>1. CASE Next
  BY <1>1, Steps, DocsPush, DocsPull, DocsReload, DocsEdit, DocsRest
<1>2. CASE UNCHANGED vars
  <2>1. UNCHANGED <<subject, editors, signers, local, server, synced, fresh, wire, signed, dto, forced, template, started,
                    edits, reloads, crossed, approved, raced>>
    BY <1>2 DEF vars, trial, docs, events, start, bounds, history
  <2>2. TypeOK'
    BY <2>1, SameDocs DEF DInv, TypeOK
  <2> QED BY <2>1, <2>2, DocsKept
<1> QED BY <1>1, <1>2

\* Documents, events and the rule on its way keep their types, whatever is
\* merged, edited, lost with a page or signed (useYjsContract, ContractForm,
\* handleStartFocus).
THEOREM TypeCorrect == Spec => []TypeOK
<1>1. Init => DInv
  BY InitDocs
<1>2. DInv /\ [Next]_vars => DInv'
  BY DocsNext
<1>3. DInv => TypeOK
  BY DEF DInv
<1> QED BY <1>1, <1>2, <1>3, PTL DEF Spec

\* A contract that pages edited one after the other is one that createRoomRule
\* takes, after every sequence of edits in TierSettings and TimerSettings, of
\* saved contracts loaded and of pages loaded again, for every number of members
\* and every limit.
THEOREM AlwaysStartable == Spec => []Startable
<1>1. Init => DInv
  BY InitDocs
<1>2. DInv /\ [Next]_vars => DInv'
  BY DocsNext
<1>3. DInv => Startable
  BY AcceptedContent DEF DInv, Good, Replicas, Startable
<1> QED BY <1>1, <1>2, <1>3, PTL DEF Spec

-----------------------------------------------------------------------------
(* Events on their way *)

Has(w, x)    == \E i \in 1..Len(w) : w[i] = x
EndsIn(w, x) == Len(w) > 0 /\ w[Len(w)] = x
Once(w)      == \A i, j \in 1..Len(w) : w[i] = "sign" /\ w[j] = "sign" => i = j
Events       == {"edited", "sign"}

LEMMA HasRange ==
  ASSUME NEW w \in Seq(Events), NEW x
  PROVE  x \in Range(w) <=> Has(w, x)
BY DEF Range, Has

\* An event is sent.
LEMMA Sent ==
  ASSUME NEW w \in Seq(Events), NEW x \in Events
  PROVE  /\ Append(w, x) \in Seq(Events)
         /\ \A y : Has(Append(w, x), y) <=> Has(w, y) \/ x = y
         /\ \A y : EndsIn(Append(w, x), y) <=> x = y
         /\ Once(w) /\ (x = "sign" => ~Has(w, "sign")) => Once(Append(w, x))
<1> DEFINE v == Append(w, x)
<1>1. /\ v \in Seq(Events) /\ Len(v) = Len(w) + 1 /\ Len(w) \in Nat
      /\ \A i \in 1..Len(w) : v[i] = w[i]
      /\ v[Len(w) + 1] = x
  OBVIOUS
<1> HIDE DEF v
<1>2. 1..Len(v) = 1..Len(w) \cup {Len(w) + 1}
  BY <1>1
<1>3. \A y : Has(v, y) <=> Has(w, y) \/ x = y
  BY <1>1, <1>2 DEF Has
<1>4. \A y : EndsIn(v, y) <=> x = y
  BY <1>1 DEF EndsIn
<1>5. Once(w) /\ (x = "sign" => ~Has(w, "sign")) => Once(v)
  BY <1>1, <1>2 DEF Once, Has
<1> QED BY <1>1, <1>3, <1>4, <1>5 DEF v

\* The first one arrives.
LEMMA Arrived ==
  ASSUME NEW w \in Seq(Events), w # <<>>
  PROVE  /\ Head(w) \in Events /\ Tail(w) \in Seq(Events)
         /\ \A y : Has(w, y) <=> y = Head(w) \/ Has(Tail(w), y)
         /\ \A y : EndsIn(Tail(w), y) => EndsIn(w, y)
         /\ Once(w) => Once(Tail(w)) /\ (Head(w) = "sign" => ~Has(Tail(w), "sign"))
         /\ Has(w, "sign") /\ ~Has(w, "edited") => EndsIn(w, "sign")
<1> DEFINE v == Tail(w)
<1>1. /\ v \in Seq(Events) /\ Len(w) \in Nat \ {0} /\ Len(v) = Len(w) - 1 /\ Head(w) = w[1]
      /\ \A i \in 1..Len(v) : v[i] = w[i + 1]
      /\ \A i \in 1..Len(w) : w[i] \in Events
  BY EmptySeq
<1> HIDE DEF v
<1>2. \A i \in 1..Len(w) : i = 1 \/ (i - 1 \in 1..Len(v) /\ w[i] = v[i - 1])
  <2> TAKE i \in 1..Len(w)
  <2>1. i = 1 \/ (i - 1 \in 1..Len(v) /\ (i - 1) + 1 = i)
    BY <1>1
  <2> QED BY <1>1, <2>1
<1>3. 1 \in 1..Len(w) /\ \A i \in 1..Len(v) : i + 1 \in 1..Len(w)
  BY <1>1
<1>4. \A y : Has(w, y) <=> y = Head(w) \/ Has(v, y)
  BY <1>1, <1>2, <1>3 DEF Has
<1>5. \A y : EndsIn(v, y) => EndsIn(w, y)
  <2>1. Len(v) > 0 => Len(v) \in 1..Len(v) /\ Len(v) + 1 = Len(w)
    BY <1>1
  <2> QED BY <1>1, <2>1 DEF EndsIn
<1>6. Once(w) => Once(v)
  <2> SUFFICES ASSUME Once(w), NEW i \in 1..Len(v), NEW j \in 1..Len(v), v[i] = "sign", v[j] = "sign"
               PROVE  i = j
    BY DEF Once
  <2>1. w[i + 1] = "sign" /\ w[j + 1] = "sign" /\ i + 1 \in 1..Len(w) /\ j + 1 \in 1..Len(w)
    BY <1>1, <1>3
  <2>2. i + 1 = j + 1
    BY <2>1 DEF Once
  <2> QED BY <2>2
<1>7. Once(w) /\ Head(w) = "sign" => ~Has(v, "sign")
  <2> SUFFICES ASSUME Once(w), w[1] = "sign", NEW i \in 1..Len(v), v[i] = "sign" PROVE FALSE
    BY <1>1 DEF Has
  <2>1. w[i + 1] = "sign" /\ i + 1 \in 1..Len(w) /\ i + 1 # 1
    BY <1>1, <1>3
  <2> QED BY <1>3, <2>1 DEF Once
<1>8. ~Has(w, "edited") => EndsIn(w, "sign")
  <2>1. Len(w) \in 1..Len(w)
    BY <1>1
  <2> QED BY <1>1, <2>1 DEF Has, EndsIn, Events
<1> QED BY <1>1, <1>4, <1>5, <1>6, <1>7, <1>8 DEF v

-----------------------------------------------------------------------------
(* What a signature stands for *)

Below(d, e) == Knows(d) \subseteq Knows(e)
Peak(d, l, s) == Below(s, d) /\ \A q \in Pages : Below(l[q], d)

\* The replica a member signs: the page's own, or what it will take over.
Sight(p) == IF p \in synced THEN local[p] ELSE server
\* It has all there is, and is what the member saw.
Full(p) == Peak(Sight(p), local, server) /\ approved[p] = Content(Sight(p))

Signing(p) == EndsIn(wire[p], "sign")
Pending(p) == Has(wire[p], "sign")
Quiet      == \A p \in Pages : ~Has(wire[p], "edited")

AtMostOne == \A p \in Pages : Once(wire[p]) /\ (p \in signed => ~Pending(p))
Stored    == template # None /\ dto # None => template = dto
Live      == ~raced /\ started = None
SeenFull  == Live => \A p \in Pages : Signing(p) \/ (Quiet /\ p \in signed) => Full(p)
SeenHost  == Live /\ dto # None => ~Pending(Host)
SeenDto   == Live /\ dto # None /\ Host \in signed /\ Quiet =>
                \A p \in Pages : p \in signed \/ Pending(p) => approved[p] = dto
Seen == SeenFull /\ SeenHost /\ SeenDto

RInv == DInv /\ AtMostOne /\ Stored /\ Seen /\ RunsAsSeen

\* Nothing happens once the session has started.
LEMMA Running == ASSUME Next PROVE started = None
<1>1. ASSUME NEW p \in Pages, Push(p) \/ Pull(p) \/ Reload(p) \/ Sign(p) \/ Receive(p)
      PROVE  started = None
  BY <1>1 DEF Push, Pull, Reload, Sign, Receive
<1>2. ASSUME NEW p \in Pages, AddTier(p) \/ AddPenalty(p) \/ LoadContract(p)
      PROVE  started = None
  BY <1>2 DEF AddTier, AddPenalty, LoadContract, MayEdit
<1>3. ASSUME NEW p \in Pages, NEW i, SetTierBoundary(p, i) \/ RemoveTier(p, i) \/ RemovePenalty(p, i)
                                        \/ (\E v \in Penalties : UpdatePenalty(p, i, v)) \/ UpdateTier(p, i) \/ UpdateField(p, i)
      PROVE  started = None
  BY <1>3 DEF SetTierBoundary, RemoveTier, RemovePenalty, UpdatePenalty, UpdateTier, UpdateField, MayEdit
<1> QED BY <1>1, <1>2, <1>3 DEF Next, StartFocus, CreateRoomRule, StartTimer

LEMMA Wires == ASSUME DInv PROVE wire \in [Pages -> Seq(Events)]
BY DEF DInv, TypeOK, Events

\* A replica that lags behind another page's, as the server does, has
\* nothing to add to what they know.
LEMMA PeakMerge ==
  ASSUME DInv, NEW p \in Pages, NEW q \in Pages, p # q, Below(local[p], local[q]), Below(server, local[q]),
         NEW d \in Merge(local[p], server)
  PROVE  Below(d, local[q])
<1>1. /\ Made(d) = Made(local[p]) \cup Made(server)
      /\ subject # "fields" => d.dead = local[p].dead \cup server.dead
      /\ Below(local[p], server) => d = server
  BY Replicated, MergeOK DEF Below
<1>2. Made(local[p]) \subseteq Made(local[q]) /\ local[p].dead \subseteq local[q].dead
      /\ Made(server) \subseteq Made(local[q]) /\ server.dead \subseteq local[q].dead
  BY Inclusion DEF Below
<1>3. CASE subject = "fields"
  <2>1. Made(local[p]) \subseteq Made(server)
    BY <1>2 DEF DInv, Coherent
  <2>2. local[p].dead \subseteq server.dead
    BY <1>3, <2>1 DEF DInv, Coherent
  <2>3. d = server
    BY <1>1, <2>1, <2>2, Inclusion DEF Below
  <2> QED BY <2>3
<1>4. CASE subject # "fields"
  <2>1. Made(d) \subseteq Made(local[q]) /\ d.dead \subseteq local[q].dead
    BY <1>1, <1>2, <1>4
  <2> QED BY <2>1, Inclusion DEF Below
<1> QED BY <1>3, <1>4

LEMMA FullNext ==
  ASSUME subject' = subject, NEW p \in Pages, Peak(Sight(p)', local', server'), approved'[p] = Content(Sight(p)')
  PROVE  Full(p)'
<1>1. Content(Sight(p))' = Content(Sight(p)')
  BY SameAccepted
<1>2. Peak(Sight(p), local, server)' = Peak(Sight(p)', local', server')
  BY DEF Peak, Below, Knows, Made
<1> QED BY <1>1, <1>2 DEF Full

\* Two that are full show the same.
LEMMA OneContent ==
  ASSUME DInv, NEW p \in Pages, NEW q \in Pages, Full(p), Full(q)
  PROVE  approved[p] = approved[q]
<1>1. Below(Sight(p), Sight(q)) /\ Below(Sight(q), Sight(p))
  BY DEF Full, Peak, Sight
<1>2. DocOK(Sight(p)) /\ DocOK(Sight(q)) /\ Match(Sight(p), Sight(q))
  BY Replicated, SelfMatch DEF Sight
<1>3. Sight(p) = Sight(q)
  BY <1>1, <1>2, Determined DEF Below
<1> QED BY <1>3 DEF Full

-----------------------------------------------------------------------------
(* Each step, and what a full replica is then *)

\* The server takes over nothing that a full replica has not.
LEMMA SeenPush ==
  ASSUME RInv, NEW p \in Pages, Push(p)
  PROVE  Seen'
<1>1. /\ server' \in Merge(local[p], server) /\ local' = local /\ subject' = subject
      /\ ~Below(local[p], server)
      /\ synced' = synced /\ wire' = wire /\ signed' = signed /\ dto' = dto /\ started' = started
      /\ approved' = approved /\ raced' = raced
  BY DEF Push, trial, events, start, Below
<1>2. Below(server, local[p]) => server' = local[p]
  BY <1>1, Replicated, MergeOK DEF RInv, Below
<1>3. ASSUME NEW q \in Pages, Full(q)
      PROVE  Full(q)'
  <2>1. Peak(Sight(q), local, server) /\ approved[q] = Content(Sight(q))
    BY <1>3 DEF Full
  <2>2. q \in synced
    BY <1>1, <2>1 DEF Peak, Sight
  <2>3. Sight(q) = local[q] /\ Sight(q)' = local[q]
    BY <1>1, <2>2 DEF Sight
  <2>4. Below(local[p], local[q]) /\ Below(server, local[q])
    BY <2>1, <2>3 DEF Peak
  <2>5. Below(server', local[q])
    <3>1. CASE p = q
      BY <1>2, <2>4, <3>1
    <3>2. CASE p # q
      BY <1>1, <2>4, <3>2, PeakMerge DEF RInv
    <3> QED BY <3>1, <3>2
  <2>6. Peak(local[q], local', server')
    BY <1>1, <2>1, <2>3, <2>5 DEF Peak
  <2> QED BY <1>1, <2>1, <2>3, <2>6, FullNext
<1>4. SeenFull'
  BY <1>1, <1>3 DEF RInv, Seen, SeenFull, Live, Signing, Quiet
<1>5. SeenHost' /\ SeenDto'
  BY <1>1 DEF RInv, Seen, SeenHost, SeenDto, Live, Pending, Quiet
<1> QED BY <1>4, <1>5 DEF Seen

\* Page p takes over d, and adds nothing.
LEMMA SeenPull ==
  ASSUME RInv, NEW p \in Pages, NEW d \in Merge(local[p], server),
         p \notin synced \/ ~Below(server, local[p]),
         local' = [local EXCEPT ![p] = d], synced' = synced \cup {p},
         UNCHANGED <<subject, server, wire, signed, dto, started, approved, raced>>
  PROVE  Seen'
<1>0. local \in [Pages -> Docs]
  BY Replicated DEF RInv
<1>1. /\ Below(local[p], server) => d = server
      /\ Below(server, local[p]) => d = local[p]
  BY Replicated, MergeOK DEF RInv, Below
<1>2. local'[p] = d /\ \A r \in Pages \ {p} : local'[r] = local[r]
  BY <1>0
<1>3. ASSUME NEW q \in Pages, Full(q)
      PROVE  Full(q)'
  <2>1. Peak(Sight(q), local, server) /\ approved[q] = Content(Sight(q))
    BY <1>3 DEF Full
  <2>2. Sight(q)' = Sight(q) /\ Below(d, Sight(q))
    <3>1. CASE q \notin synced
      <4>1. Sight(q) = server /\ d = server
        BY <1>1, <2>1, <3>1 DEF Sight, Peak
      <4>2. Sight(q)' = server
        BY <1>2, <3>1, <4>1 DEF Sight
      <4> QED BY <4>1, <4>2 DEF Below
    <3>2. CASE q \in synced
      <4>1. Sight(q) = local[q] /\ Below(server, local[q]) /\ Below(local[p], local[q])
        BY <2>1, <3>2 DEF Sight, Peak
      <4>2. p # q
        BY <3>2, <4>1
      <4>3. Below(d, local[q])
        BY <4>1, <4>2, PeakMerge DEF RInv
      <4>4. Sight(q)' = local[q]
        BY <1>2, <3>2, <4>2 DEF Sight
      <4> QED BY <4>1, <4>3, <4>4
    <3> QED BY <3>1, <3>2
  <2>3. Peak(Sight(q)', local', server')
    BY <1>2, <2>1, <2>2 DEF Peak
  <2> QED BY <2>1, <2>2, <2>3, FullNext
<1>4. SeenFull'
  BY <1>3 DEF RInv, Seen, SeenFull, Live, Signing, Quiet
<1>5. SeenHost' /\ SeenDto'
  BY DEF RInv, Seen, SeenHost, SeenDto, Live, Pending, Quiet
<1> QED BY <1>4, <1>5 DEF Seen

\* Page p edits: an edit that overtakes a signature races it.
LEMMA SeenEdit ==
  ASSUME RInv, NEW p \in Pages,
         wire' = [wire EXCEPT ![p] = Append(@, "edited")],
         raced' = (raced \/ \E q \in Pages \ {p} : "sign" \in Range(wire[q])),
         dto' = dto, started' = started
  PROVE  Seen'
<1>1. wire \in [Pages -> Seq(Events)] /\ "edited" \in Events
  BY Wires DEF RInv, Events
<1>2. /\ wire'[p] = Append(wire[p], "edited") /\ \A q \in Pages \ {p} : wire'[q] = wire[q]
      /\ \A q \in Pages : wire[q] \in Seq(Events)
  BY <1>1
<1>3. Has(wire'[p], "edited") /\ ~EndsIn(wire'[p], "sign")
  BY <1>1, <1>2, Sent
<1>4. ~Quiet'
  BY <1>3 DEF Quiet
<1>5. ASSUME Live', NEW q \in Pages, Signing(q)'
      PROVE  FALSE
  <2>1. q # p /\ EndsIn(wire[q], "sign")
    BY <1>2, <1>3, <1>5 DEF Signing
  <2>2. Has(wire[q], "sign")
    <3>1. wire[q] # <<>>
      BY <1>2, <2>1 DEF EndsIn
    <3>2. Len(wire[q]) \in 1..Len(wire[q])
      BY <1>2, <2>1 DEF EndsIn
    <3> QED BY <2>1, <3>2 DEF EndsIn, Has
  <2>3. "sign" \in Range(wire[q])
    BY <1>2, <2>2, HasRange
  <2> QED BY <1>5, <2>1, <2>3 DEF Live
<1>6. SeenHost'
  <2> SUFFICES ASSUME Live', dto' # None PROVE ~Pending(Host)'
    BY DEF SeenHost
  <2>1. Host \in Pages /\ Live /\ dto # None
    BY EditingAssumption DEF Live
  <2>2. ~Has(wire[Host], "sign")
    BY <2>1 DEF RInv, Seen, SeenHost, Pending
  <2>3. ~Has(wire'[Host], "sign")
    BY <1>1, <1>2, <2>1, <2>2, Sent
  <2> QED BY <2>3 DEF Pending
<1>7. SeenFull' /\ SeenDto'
  BY <1>4, <1>5 DEF SeenFull, SeenDto
<1> QED BY <1>6, <1>7 DEF Seen

\* Page p is loaded again with nothing to lose.
LEMMA SeenReload ==
  ASSUME RInv, NEW p \in Pages, Reload(p)
  PROVE  Seen'
<1>1. /\ local' = [local EXCEPT ![p] = Empty(subject)] /\ synced' = synced \ {p}
      /\ dto' = (IF p = Host THEN None ELSE dto)
      /\ raced' = (raced \/ ~Below(local[p], server))
      /\ UNCHANGED <<subject, server, wire, signed, started, approved>>
  BY DEF Reload, trial, events, Below
<1>2. local \in [Pages -> Docs] /\ local'[p] = Empty(subject) /\ \A r \in Pages \ {p} : local'[r] = local[r]
  <2>1. local \in [Pages -> Docs]
    BY Replicated DEF RInv
  <2> QED BY <1>1, <2>1
<1>3. ASSUME NEW q \in Pages, Full(q), Below(local[p], server)
      PROVE  Full(q)'
  <2>1. Peak(Sight(q), local, server) /\ approved[q] = Content(Sight(q))
    BY <1>3 DEF Full
  <2>2. Sight(q)' = Sight(q)
    <3>1. CASE q # p \/ q \notin synced
      BY <1>1, <1>2, <3>1 DEF Sight
    <3>2. CASE q = p /\ q \in synced
      <4>1. Sight(q) = local[p] /\ Sight(q)' = server
        BY <1>1, <3>2 DEF Sight
      <4>2. Below(server, local[p])
        BY <2>1, <4>1 DEF Peak
      <4>3. local[p] = server
        BY <1>3, <4>2, Replicated, Determined DEF RInv, Below
      <4> QED BY <4>1, <4>3
    <3> QED BY <3>1, <3>2
  <2>3. Below(Empty(subject), Sight(q))
    <3>1. Made(Empty(subject)) \subseteq Made(local[q]) /\ Made(Empty(subject)) \subseteq Made(server)
      BY Replica, Replicated DEF Sound, RInv, DInv
    <3>2. Empty(subject).dead = {}
      BY EmptyOK, Replicated DEF RInv
    <3>3. Made(Empty(subject)) \subseteq Made(Sight(q))
      BY <3>1 DEF Sight
    <3> QED BY <3>2, <3>3, Inclusion DEF Below
  <2>4. Peak(Sight(q)', local', server')
    BY <1>1, <1>2, <2>1, <2>2, <2>3 DEF Peak
  <2> QED BY <1>1, <2>1, <2>2, <2>4, FullNext
<1>4. SeenFull'
  BY <1>1, <1>3 DEF RInv, Seen, SeenFull, Live, Signing, Quiet
<1>5. SeenHost' /\ SeenDto'
  BY <1>1 DEF RInv, Seen, SeenHost, SeenDto, Live, Pending, Quiet
<1> QED BY <1>4, <1>5 DEF Seen

\* A member signs what has all there is, or races.
LEMMA SeenSign ==
  ASSUME RInv, NEW p \in Pages, Sign(p)
  PROVE  Seen'
<1>1. /\ wire' = [wire EXCEPT ![p] = Append(@, "sign")] /\ p \in synced
      /\ approved' = [approved EXCEPT ![p] = Content(local[p])]
      /\ raced' = (raced \/ Behind(local[p]) \/ ~Below(server, local[p]) \/ dto # None)
      /\ UNCHANGED <<subject, local, server, synced, signed, dto, started>>
  BY DEF Sign, trial, docs, start, Below
<1>2. wire \in [Pages -> Seq(Events)] /\ "sign" \in Events /\ approved \in [Pages -> Seq(Values(subject)) \cup {None}]
  BY Wires DEF RInv, Events, DInv, TypeOK
<1>3. /\ wire'[p] = Append(wire[p], "sign") /\ \A q \in Pages \ {p} : wire'[q] = wire[q]
      /\ approved'[p] = Content(local[p]) /\ \A q \in Pages \ {p} : approved'[q] = approved[q]
      /\ \A q \in Pages : wire[q] \in Seq(Events)
  BY <1>1, <1>2
<1>4. Quiet' => Quiet
  <2>1. Has(wire[p], "edited") => Has(wire'[p], "edited")
    <3>1. wire[p] \in Seq(Events)
      BY <1>3
    <3> QED BY <1>2, <1>3, <3>1, Sent
  <2> QED BY <1>3, <2>1 DEF Quiet
<1>5. Sight(p)' = local[p] /\ Sight(p) = local[p] /\ \A q \in Pages : Sight(q)' = Sight(q)
  BY <1>1 DEF Sight
<1>6. Live' => Full(p)'
  <2> SUFFICES ASSUME Live' PROVE Full(p)'
    OBVIOUS
  <2>1. Peak(local[p], local', server')
    BY <1>1 DEF Live, Behind, Peak, Below
  <2> QED BY <1>1, <1>3, <1>5, <2>1, FullNext
<1>7. ASSUME NEW q \in Pages \ {p}, Full(q)
      PROVE  Full(q)'
  <2>1. Peak(Sight(q)', local', server') /\ approved'[q] = Content(Sight(q)')
    BY <1>1, <1>3, <1>5, <1>7 DEF Full
  <2> QED BY <1>1, <2>1, FullNext
<1>8. SeenFull'
  <2>1. \A q \in Pages \ {p} : Signing(q)' <=> Signing(q)
    BY <1>3 DEF Signing
  <2>2. Live' => Live
    BY <1>1 DEF Live
  <2> QED BY <1>1, <1>4, <1>6, <1>7, <2>1, <2>2 DEF RInv, Seen, SeenFull
<1>9. SeenHost' /\ SeenDto'
  BY <1>1 DEF SeenHost, SeenDto, Live
<1> QED BY <1>8, <1>9 DEF Seen

\* contract:edited arrives and clears every signature; member:sign arrives last.
LEMMA SeenReceive ==
  ASSUME RInv, NEW p \in Pages, Receive(p)
  PROVE  Seen'
<1>1. /\ wire' = [wire EXCEPT ![p] = Tail(@)] /\ wire[p] # <<>>
      /\ signed' = (IF Head(wire[p]) = "sign" THEN signed \cup {p} ELSE {})
      /\ UNCHANGED <<subject, local, server, synced, dto, started, approved, raced>>
  BY DEF Receive, trial, docs, start, history
<1>2. wire \in [Pages -> Seq(Events)]
  BY Wires DEF RInv
<1>3. /\ wire'[p] = Tail(wire[p]) /\ \A q \in Pages \ {p} : wire'[q] = wire[q]
      /\ wire[p] \in Seq(Events)
  BY <1>1, <1>2
<1>4. /\ Head(wire[p]) \in Events
      /\ \A y : Has(wire[p], y) <=> y = Head(wire[p]) \/ Has(wire'[p], y)
      /\ EndsIn(wire'[p], "sign") => EndsIn(wire[p], "sign")
      /\ Has(wire[p], "sign") /\ ~Has(wire[p], "edited") => EndsIn(wire[p], "sign")
  BY <1>1, <1>3, Arrived
<1>5. Quiet' /\ Head(wire[p]) = "sign" => Quiet
  <2>1. Head(wire[p]) = "sign" => Head(wire[p]) # "edited"
    OBVIOUS
  <2>2. Head(wire[p]) = "sign" /\ ~Has(wire'[p], "edited") => ~Has(wire[p], "edited")
    BY <1>4, <2>1
  <2> QED BY <1>3, <2>2 DEF Quiet
<1>6. ASSUME NEW q \in Pages, Full(q)
      PROVE  Full(q)'
  <2>1. Sight(q)' = Sight(q)
    BY <1>1 DEF Sight
  <2>2. Peak(Sight(q)', local', server') /\ approved'[q] = Content(Sight(q)')
    BY <1>1, <1>6, <2>1 DEF Full
  <2> QED BY <1>1, <2>2, FullNext
<1>7. SeenFull'
  <2> SUFFICES ASSUME Live', NEW q \in Pages, Signing(q)' \/ (Quiet' /\ q \in signed')
               PROVE  Full(q)
    BY <1>6 DEF SeenFull
  <2>1. Live
    BY <1>1 DEF Live
  <2>2. CASE Signing(q)'
    <3>1. Signing(q)
      BY <1>3, <1>4, <2>2 DEF Signing
    <3> QED BY <2>1, <3>1 DEF RInv, Seen, SeenFull
  <2>3. CASE Quiet' /\ q \in signed'
    <3>1. Head(wire[p]) = "sign" /\ Quiet
      BY <1>1, <1>5, <2>3
    <3>2. q \in signed \/ (q = p /\ Has(wire[p], "sign") /\ ~Has(wire[p], "edited"))
      BY <1>1, <1>4, <2>3, <3>1 DEF Quiet
    <3>3. q \in signed \/ Signing(q)
      BY <1>4, <3>2 DEF Signing
    <3> QED BY <2>1, <3>1, <3>3 DEF RInv, Seen, SeenFull
  <2> QED BY <2>2, <2>3
<1>8. \A q \in Pages : Pending(q)' => Pending(q)
  BY <1>3, <1>4 DEF Pending
<1>9. SeenHost'
  BY <1>1, <1>8, EditingAssumption DEF RInv, Seen, SeenHost, Live
<1>10. SeenDto'
  <2> SUFFICES ASSUME Live', dto' # None, Host \in signed', Quiet', NEW q \in Pages, q \in signed' \/ Pending(q)'
               PROVE  approved'[q] = dto'
    BY DEF SeenDto
  <2>1. Live /\ dto # None /\ Head(wire[p]) = "sign" /\ Quiet
    BY <1>1, <1>5 DEF Live
  <2>2. Has(wire[p], "sign")
    BY <1>4, <2>1
  <2>3. Host # p
    BY <2>1, <2>2 DEF RInv, Seen, SeenHost, Pending
  <2>4. Host \in signed
    BY <1>1, <2>1, <2>3
  <2>5. q \in signed \/ Pending(q)
    BY <1>1, <1>8, <2>1, <2>2 DEF Pending
  <2> QED BY <1>1, <2>1, <2>4, <2>5 DEF RInv, Seen, SeenDto
<1> QED BY <1>7, <1>9, <1>10 DEF Seen

\* The host signed what it sends, as everybody did whose signature stands.
LEMMA SeenStart ==
  ASSUME RInv, (\E force \in BOOLEAN : StartFocus(force)) \/ CreateRoomRule \/ StartTimer
  PROVE  Seen'
<1>1. /\ UNCHANGED <<subject, local, server, synced, wire, signed, approved>>
      /\ Live' => Live
      /\ dto' # None => dto' = dto \/ \E force \in BOOLEAN : StartFocus(force)
  <2>1. UNCHANGED <<trial, docs, events, approved>>
    BY DEF StartFocus, CreateRoomRule, StartTimer, history
  <2>2. started = None
    BY DEF StartFocus, CreateRoomRule, StartTimer
  <2>3. Live' => Live
    BY <2>2 DEF StartFocus, CreateRoomRule, StartTimer, history, Live
  <2>4. dto' # None => dto' = dto \/ \E force \in BOOLEAN : StartFocus(force)
    BY DEF CreateRoomRule, StartTimer
  <2> QED BY <2>1, <2>3, <2>4 DEF trial, docs, events
<1>2. ASSUME NEW q \in Pages, Full(q)
      PROVE  Full(q)'
  <2>1. Sight(q)' = Sight(q)
    BY <1>1 DEF Sight
  <2>2. Peak(Sight(q)', local', server') /\ approved'[q] = Content(Sight(q)')
    BY <1>1, <1>2, <2>1 DEF Full
  <2> QED BY <1>1, <2>2, FullNext
<1>3. SeenFull'
  BY <1>1, <1>2 DEF RInv, Seen, SeenFull, Signing, Quiet
<1>4. CASE dto' = None \/ dto' = dto
  BY <1>1, <1>3, <1>4 DEF RInv, Seen, SeenHost, SeenDto, Pending, Quiet
<1>5. CASE \E force \in BOOLEAN : StartFocus(force)
  <2>1. Host \in synced /\ Host \in signed /\ dto' = Content(local[Host]) /\ Host \in Pages
    BY <1>5, EditingAssumption DEF StartFocus
  <2>2. SeenHost'
    BY <1>1, <2>1 DEF RInv, AtMostOne, SeenHost, Pending
  <2>3. SeenDto'
    <3> SUFFICES ASSUME Live', Quiet', NEW q \in Pages, q \in signed' \/ Pending(q)'
                 PROVE  approved'[q] = dto'
      BY DEF SeenDto
    <3>1. Live /\ Quiet /\ (q \in signed \/ Pending(q))
      BY <1>1 DEF Quiet, Pending
    <3>2. Full(Host)
      BY <2>1, <3>1 DEF RInv, Seen, SeenFull
    <3>3. Full(q)
      <4>1. CASE q \in signed
        BY <3>1, <4>1 DEF RInv, Seen, SeenFull
      <4>2. CASE Pending(q)
        <5>1. wire[q] \in Seq(Events) /\ Has(wire[q], "sign") /\ ~Has(wire[q], "edited")
          BY <3>1, <4>2, Wires DEF RInv, Pending, Quiet
        <5>2. wire[q] # <<>>
          BY <5>1 DEF Has
        <5>3. Signing(q)
          BY <5>1, <5>2, Arrived DEF Signing
        <5> QED BY <3>1, <5>3 DEF RInv, Seen, SeenFull
      <4> QED BY <3>1, <4>1, <4>2
    <3>4. approved[q] = approved[Host]
      BY <2>1, <3>2, <3>3, OneContent DEF RInv
    <3>5. approved[Host] = Content(local[Host])
      BY <2>1, <3>2 DEF Full, Sight
    <3> QED BY <1>1, <2>1, <3>4, <3>5
  <2> QED BY <1>3, <2>2, <2>3 DEF Seen
<1> QED BY <1>1, <1>4, <1>5

-----------------------------------------------------------------------------
(* What a session runs by *)

\* A member has one signature, on its way or arrived.
LEMMA OneSignature ==
  ASSUME RInv, Next
  PROVE  AtMostOne'
<1>1. wire \in [Pages -> Seq(Events)] /\ "sign" \in Events /\ "edited" \in Events
  BY Wires DEF RInv, Events
<1>2. ASSUME NEW p \in Pages, wire' = [wire EXCEPT ![p] = Append(@, "edited")], signed' = signed
      PROVE  AtMostOne'
  <2>1. wire'[p] = Append(wire[p], "edited") /\ (\A q \in Pages \ {p} : wire'[q] = wire[q]) /\ wire[p] \in Seq(Events)
    BY <1>1, <1>2
  <2>2. "edited" # "sign"
    OBVIOUS
  <2>3. (Has(wire'[p], "sign") => Has(wire[p], "sign")) /\ (Once(wire[p]) => Once(wire'[p]))
    BY <1>1, <2>1, <2>2, Sent
  <2> QED BY <1>2, <2>1, <2>3 DEF RInv, AtMostOne, Pending
<1>3. ASSUME NEW p \in Pages, Sign(p)
      PROVE  AtMostOne'
  <2>1. /\ wire' = [wire EXCEPT ![p] = Append(@, "sign")] /\ signed' = signed
        /\ p \notin signed /\ "sign" \notin Range(wire[p])
    BY <1>3 DEF Sign
  <2>2. wire'[p] = Append(wire[p], "sign") /\ (\A q \in Pages \ {p} : wire'[q] = wire[q]) /\ wire[p] \in Seq(Events)
    BY <1>1, <2>1
  <2>3. ~Has(wire[p], "sign")
    BY <2>1, <2>2, HasRange
  <2>4. Once(wire[p]) => Once(wire'[p])
    BY <1>1, <2>2, <2>3, Sent
  <2> QED BY <2>1, <2>2, <2>4 DEF RInv, AtMostOne, Pending
<1>4. ASSUME NEW p \in Pages, Receive(p)
      PROVE  AtMostOne'
  <2>1. /\ wire' = [wire EXCEPT ![p] = Tail(@)] /\ wire[p] # <<>>
        /\ signed' = (IF Head(wire[p]) = "sign" THEN signed \cup {p} ELSE {})
    BY <1>4 DEF Receive
  <2>2. wire'[p] = Tail(wire[p]) /\ (\A q \in Pages \ {p} : wire'[q] = wire[q]) /\ wire[p] \in Seq(Events)
    BY <1>1, <2>1
  <2>3. /\ Has(wire'[p], "sign") => Has(wire[p], "sign")
        /\ Once(wire[p]) => Once(wire'[p]) /\ (Head(wire[p]) = "sign" => ~Has(wire'[p], "sign"))
    BY <2>1, <2>2, Arrived
  <2> QED BY <2>1, <2>2, <2>3 DEF RInv, AtMostOne, Pending
<1>5. CASE wire' = wire /\ signed' = signed
  BY <1>5 DEF RInv, AtMostOne, Pending
<1>6. \/ \E p \in Pages : Push(p) \/ Pull(p) \/ Reload(p) \/ Sign(p) \/ Receive(p) \/ EditsAs(p)
      \/ \E force \in BOOLEAN : StartFocus(force)
      \/ CreateRoomRule \/ StartTimer
  BY Steps DEF RInv
<1>7. ASSUME NEW p \in Pages, Push(p) \/ Reload(p)
      PROVE  AtMostOne'
  BY <1>5, <1>7 DEF Push, Reload, events
<1>8. ASSUME NEW p \in Pages, Pull(p)
      PROVE  AtMostOne'
  BY <1>2, <1>5, <1>8 DEF Pull, Transact
<1>9. ASSUME NEW p \in Pages, EditsAs(p)
      PROVE  AtMostOne'
  BY <1>2, <1>9 DEF EditsAs, Edit, Transact
<1>10. CASE (\E force \in BOOLEAN : StartFocus(force)) \/ CreateRoomRule \/ StartTimer
  BY <1>5, <1>10 DEF StartFocus, CreateRoomRule, StartTimer, events
<1> QED BY <1>3, <1>4, <1>6, <1>7, <1>8, <1>9, <1>10

\* What is stored is the rule that is started.
LEMMA StoredKept ==
  ASSUME RInv, Next
  PROVE  Stored'
<1>1. \/ \E p \in Pages : Push(p) \/ Pull(p) \/ Reload(p) \/ Sign(p) \/ Receive(p) \/ EditsAs(p)
      \/ \E force \in BOOLEAN : StartFocus(force)
      \/ CreateRoomRule \/ StartTimer
  BY Steps DEF RInv
<1>2. ASSUME NEW p \in Pages, Push(p) \/ Pull(p) \/ Reload(p) \/ Sign(p) \/ Receive(p) \/ EditsAs(p)
      PROVE  template' = template /\ dto' \in {dto, None}
  BY <1>2 DEF Push, Pull, Reload, Sign, Receive, EditsAs, Edit, start
<1> QED BY <1>1, <1>2 DEF StartFocus, CreateRoomRule, StartTimer, Stored, RInv

LEMMA SeenNext ==
  ASSUME RInv, Next
  PROVE  Seen'
<1>1. \/ \E p \in Pages : Push(p) \/ Pull(p) \/ Reload(p) \/ Sign(p) \/ Receive(p) \/ EditsAs(p)
      \/ \E force \in BOOLEAN : StartFocus(force)
      \/ CreateRoomRule \/ StartTimer
  BY Steps DEF RInv
<1>2. ASSUME NEW p \in Pages, Pull(p)
      PROVE  Seen'
  <2>1. /\ p \notin synced \/ ~Below(server, local[p])
        /\ synced' = synced \cup {p}
        /\ UNCHANGED <<subject, server, signed, dto, started, approved>>
    BY <1>2 DEF Pull, trial, start, Below
  <2>2. PICK d \in Merge(local[p], server) :
          \/ /\ local' = [local EXCEPT ![p] = d]
             /\ UNCHANGED <<fresh, wire, raced>>
          \/ Transact(p, d, 1, 0, <<DefaultTier>>)
    BY <1>2 DEF Pull
  <2>3. CASE local' = [local EXCEPT ![p] = d] /\ UNCHANGED <<fresh, wire, raced>>
    BY <2>1, <2>3, SeenPull
  <2>4. CASE Transact(p, d, 1, 0, <<DefaultTier>>)
    <3>1. /\ wire' = [wire EXCEPT ![p] = Append(@, "edited")]
          /\ raced' = (raced \/ \E q \in Pages \ {p} : "sign" \in Range(wire[q]))
      BY <2>4 DEF Transact
    <3> QED BY <2>1, <3>1, SeenEdit
  <2> QED BY <2>2, <2>3, <2>4
<1>3. ASSUME NEW p \in Pages, EditsAs(p)
      PROVE  Seen'
  <2>1. /\ wire' = [wire EXCEPT ![p] = Append(@, "edited")]
        /\ raced' = (raced \/ \E q \in Pages \ {p} : "sign" \in Range(wire[q]))
        /\ dto' = dto /\ started' = started
    BY <1>3 DEF EditsAs, Edit, Transact, start
  <2> QED BY <2>1, SeenEdit
<1> QED BY <1>1, <1>2, <1>3, SeenPush, SeenReload, SeenSign, SeenReceive, SeenStart

\* Without a race a session starts with those whose last signature stands, and
\* what they signed is what createRoomRule stored.
LEMMA RunsNext ==
  ASSUME RInv, Next
  PROVE  RunsAsSeen'
<1>1. started = None
  BY Running
<1>2. CASE StartTimer
  <2> SUFFICES ASSUME started' # None, ~raced', NEW p \in started' PROVE approved'[p] = template'
    BY DEF RunsAsSeen
  <2>1. /\ dto # None /\ template # None /\ Host \in signed /\ started' = signed
        /\ approved' = approved /\ template' = template
    BY <1>1, <1>2 DEF StartTimer
  <2>2. ~raced /\ \A q \in Pages : "edited" \notin Range(wire[q])
    BY <1>2 DEF StartTimer
  <2>3. Quiet
    BY <2>2, Wires, HasRange DEF RInv, Quiet
  <2>4. signed \subseteq Pages
    BY DEF RInv, DInv, TypeOK
  <2>5. approved[p] = dto
    BY <1>1, <2>1, <2>2, <2>3, <2>4 DEF RInv, Seen, SeenDto, Live
  <2> QED BY <2>1, <2>5 DEF RInv, Stored
<1>3. CASE started' = started
  BY <1>1, <1>3 DEF RunsAsSeen
<1>4. \/ \E p \in Pages : Push(p) \/ Pull(p) \/ Reload(p) \/ Sign(p) \/ Receive(p) \/ EditsAs(p)
      \/ \E force \in BOOLEAN : StartFocus(force)
      \/ CreateRoomRule \/ StartTimer
  BY Steps DEF RInv
<1>5. ASSUME NEW p \in Pages, Push(p) \/ Pull(p) \/ Reload(p) \/ Sign(p) \/ Receive(p) \/ EditsAs(p)
      PROVE  started' = started
  BY <1>5 DEF Push, Pull, Reload, Sign, Receive, EditsAs, Edit, start
<1>6. ASSUME (\E force \in BOOLEAN : StartFocus(force)) \/ CreateRoomRule
      PROVE  started' = started
  BY <1>6 DEF StartFocus, CreateRoomRule
<1> QED BY <1>2, <1>3, <1>4, <1>5, <1>6

LEMMA InitRuns == ASSUME Init PROVE RInv
<1>1. /\ wire = [p \in Pages |-> <<>>] /\ signed = {} /\ dto = None /\ template = None /\ started = None
  BY DEF Init
<1>2. \A p \in Pages : Len(wire[p]) = 0
  BY <1>1
<1>3. \A p \in Pages : Once(wire[p]) /\ ~Pending(p) /\ ~Signing(p)
  BY <1>2 DEF Once, Pending, Signing, Has, EndsIn
<1> QED BY <1>1, <1>3, InitDocs
        DEF RInv, AtMostOne, Stored, Seen, SeenFull, SeenHost, SeenDto, RunsAsSeen

LEMMA RunsStutter == ASSUME RInv, UNCHANGED vars PROVE RInv'
<1>1. DInv'
  BY DocsNext DEF RInv
<1>2. UNCHANGED <<subject, local, server, synced, wire, signed, dto, template, started, approved, raced>>
  BY DEF vars, trial, docs, events, start, history
<1>3. AtMostOne' /\ Stored' /\ SeenHost' /\ SeenDto' /\ RunsAsSeen'
  BY <1>2 DEF RInv, AtMostOne, Stored, Seen, SeenHost, SeenDto, RunsAsSeen, Live, Pending, Quiet
<1>4. SeenFull'
  <2>1. ASSUME NEW q \in Pages, Full(q)
        PROVE  Full(q)'
    <3>1. Sight(q)' = Sight(q)
      BY <1>2 DEF Sight
    <3>2. Peak(Sight(q)', local', server') /\ approved'[q] = Content(Sight(q)')
      BY <1>2, <2>1, <3>1 DEF Full
    <3> QED BY <1>2, <3>2, FullNext
  <2> QED BY <1>2, <2>1 DEF RInv, Seen, SeenFull, Live, Signing, Quiet
<1> QED BY <1>1, <1>3, <1>4 DEF RInv, Seen

\* Everybody in a session signed the contract it runs by, as their own page showed
\* it (handleSignToggle, handleContractEdited, handleStartFocus, startTimer),
\* unless one overtook another, for every number of members and of edits.
THEOREM AlwaysRunsAsSeen == Spec => []RunsAsSeen
<1>1. Init => RInv
  BY InitRuns
<1>2. RInv /\ Next => RInv'
  <2> SUFFICES ASSUME RInv, Next PROVE RInv'
    OBVIOUS
  <2>1. DInv'
    BY DocsNext DEF RInv
  <2> QED BY <2>1, OneSignature, StoredKept, SeenNext, RunsNext DEF RInv
<1>3. RInv /\ [Next]_vars => RInv'
  BY <1>2, RunsStutter
<1>4. RInv => RunsAsSeen
  BY DEF RInv
<1> QED BY <1>1, <1>3, <1>4, PTL DEF Spec
=============================================================================
