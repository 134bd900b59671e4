----------------------------- MODULE VfsProofs -----------------------------
(***************************************************************************)
(* Theorems about Vfs, VfsCopy and VfsRead, for any number of nodes, any   *)
(* set of paths, any depth of calls and any limit on the size of a file.   *)
(***************************************************************************)
EXTENDS VfsCopy, VfsRead, SequenceTheorems, FiniteSetTheorems, WellFoundedInduction, TLAPS

-----------------------------------------------------------------------------
(* Facts about sequences and numbers.                                      *)

(* Removing one element, position by position.                             *)
LEMMA RemoveAtProperties ==
  ASSUME NEW S, NEW s \in Seq(S), NEW i \in 1..Len(s)
  PROVE  /\ RemoveAt(s, i) \in Seq(S)
         /\ Len(RemoveAt(s, i)) = Len(s) - 1
         /\ \A k \in 1..(i - 1) : RemoveAt(s, i)[k] = s[k]
         /\ \A k \in i..(Len(s) - 1) : RemoveAt(s, i)[k] = s[k + 1]
<1> DEFINE front == SubSeq(s, 1, i - 1)
           back  == SubSeq(s, i + 1, Len(s))
<1>1. /\ front \in Seq(S) /\ Len(front) = i - 1
      /\ \A k \in 1..(i - 1) : front[k] = s[k]
  BY SubSeqProperties
<1>2. /\ back \in Seq(S) /\ Len(back) = Len(s) - i
      /\ \A k \in 1..(Len(s) - i) : back[k] = s[i + k]
  BY SubSeqProperties
<1> HIDE DEF front, back
<1>3. /\ front \o back \in Seq(S) /\ Len(front \o back) = Len(front) + Len(back)
      /\ \A k \in 1..(Len(front) + Len(back)) : (front \o back)[k] =
                  IF k <= Len(front) THEN front[k] ELSE back[k - Len(front)]
  <2>1. front \in Seq(S) /\ back \in Seq(S)
    BY <1>1, <1>2
  <2> QED
    BY <2>1, ConcatProperties, Zenon
<1>4. RemoveAt(s, i) = front \o back
  BY DEF RemoveAt, front, back
<1>5. Len(front \o back) = Len(s) - 1
  BY <1>1, <1>2, <1>3
<1>6. \A k \in 1..(i - 1) : (front \o back)[k] = s[k]
  BY <1>1, <1>2, <1>3
<1>7. \A k \in i..(Len(s) - 1) : (front \o back)[k] = s[k + 1]
  BY <1>1, <1>2, <1>3
<1> QED
  BY <1>3, <1>4, <1>5, <1>6, <1>7

(* The same for an element put at the end.                                 *)
LEMMA AppendFacts ==
  ASSUME NEW S, NEW s \in Seq(S), NEW e \in S
  PROVE  /\ Append(s, e) \in Seq(S)
         /\ Len(Append(s, e)) = Len(s) + 1
         /\ \A k \in 1..Len(s) : Append(s, e)[k] = s[k]
         /\ Append(s, e)[Len(s) + 1] = e
OBVIOUS

(* The same for an element put in front.                                   *)
LEMMA ConsFacts ==
  ASSUME NEW S, NEW s \in Seq(S), NEW e \in S
  PROVE  /\ <<e>> \o s \in Seq(S)
         /\ Len(<<e>> \o s) = Len(s) + 1
         /\ (<<e>> \o s)[1] = e
         /\ \A k \in 2..(Len(s) + 1) : (<<e>> \o s)[k] = s[k - 1]
<1>1. <<e>> \in Seq(S) /\ Len(<<e>>) = 1 /\ <<e>>[1] = e
  OBVIOUS
<1> DEFINE one == <<e>>
<1>2. one \in Seq(S) /\ Len(one) = 1 /\ one[1] = e
  BY <1>1
<1> HIDE DEF one
<1>3. /\ one \o s \in Seq(S) /\ Len(one \o s) = Len(one) + Len(s)
      /\ \A k \in 1..(Len(one) + Len(s)) : (one \o s)[k] =
                  IF k <= Len(one) THEN one[k] ELSE s[k - Len(one)]
  BY <1>2, ConcatProperties, Zenon
<1>4. /\ one \o s \in Seq(S) /\ Len(one \o s) = Len(s) + 1
      /\ (one \o s)[1] = e
      /\ \A k \in 2..(Len(s) + 1) : (one \o s)[k] = s[k - 1]
  BY <1>2, <1>3
<1> QED
  BY <1>4 DEF one

(* A set of natural numbers has a first one.                               *)
LEMMA Least ==
  ASSUME NEW S \in SUBSET Nat, S # {}
  PROVE  \E m \in S : \A k \in S : m <= k
<1>1. PICK m \in S : \A k \in S : <<k, m>> \notin OpToRel(<, Nat)
  BY NatLessThanWellFounded, WFMin, Zenon
<1>2. \A k \in S : ~(k < m)
  BY <1>1, Zenon DEF OpToRel
<1> QED
  BY <1>2

-----------------------------------------------------------------------------
(* Sibling chains.                                                         *)

LEMMA AppendChain ==
  ASSUME NEW S, NEW s \in Seq(S), NEW e \in S
  PROVE  /\ Append(s, e) \in Seq(S)
         /\ \A x : Has(Append(s, e), x) <=> Has(s, x) \/ x = e
         /\ NoTwice(s) /\ ~Has(s, e) => NoTwice(Append(s, e))
<1> DEFINE t == Append(s, e)
<1>1. /\ t \in Seq(S) /\ Len(t) = Len(s) + 1 /\ Len(s) \in Nat
      /\ \A k \in 1..Len(s) : t[k] = s[k]
      /\ t[Len(s) + 1] = e
  BY AppendFacts
<1> HIDE DEF t
<1>2. ASSUME NEW x PROVE Has(t, x) <=> Has(s, x) \/ x = e
  <2>1. ASSUME Has(t, x) PROVE Has(s, x) \/ x = e
    BY <1>1, <2>1 DEF Has
  <2>2. ASSUME Has(s, x) PROVE Has(t, x)
    BY <1>1, <2>2 DEF Has
  <2>3. Has(t, e)
    BY <1>1 DEF Has
  <2> QED
    BY <2>1, <2>2, <2>3
<1>3. ASSUME NoTwice(s), ~Has(s, e) PROVE NoTwice(t)
  BY <1>1, <1>3 DEF NoTwice, Has
<1> QED
  BY <1>1, <1>2, <1>3 DEF t

LEMMA InsertChain ==
  ASSUME NEW S, NEW s \in Seq(S), NEW e \in S
  PROVE  /\ Insert(s, e) \in Seq(S)
         /\ \A x : Has(Insert(s, e), x) <=> Has(s, x) \/ x = e
         /\ NoTwice(s) /\ ~Has(s, e) => NoTwice(Insert(s, e))
<1> DEFINE t == Insert(s, e)
<1>1. /\ t \in Seq(S) /\ Len(t) = Len(s) + 1 /\ Len(s) \in Nat
      /\ t[1] = e
      /\ \A k \in 2..(Len(s) + 1) : t[k] = s[k - 1]
  BY ConsFacts DEF Insert
<1> HIDE DEF t
<1>2. ASSUME NEW x PROVE Has(t, x) <=> Has(s, x) \/ x = e
  <2>1. ASSUME NEW k \in 1..Len(t), t[k] = x PROVE Has(s, x) \/ x = e
    <3>1. CASE k = 1
      BY <1>1, <2>1, <3>1
    <3>2. CASE k # 1
      <4>1. k - 1 \in 1..Len(s) /\ t[k] = s[k - 1]
        BY <1>1, <3>2
      <4> QED
        BY <2>1, <4>1 DEF Has
    <3> QED
      BY <3>1, <3>2
  <2>2. ASSUME NEW k \in 1..Len(s), s[k] = x PROVE Has(t, x)
    <3>1. k + 1 \in 2..(Len(s) + 1) /\ k + 1 \in 1..Len(t) /\ (k + 1) - 1 = k
      BY <1>1
    <3>2. t[k + 1] = x
      BY <1>1, <2>2, <3>1
    <3> QED
      BY <3>1, <3>2 DEF Has
  <2>3. Has(t, e)
    BY <1>1 DEF Has
  <2> QED
    BY <2>1, <2>2, <2>3 DEF Has
<1>3. ASSUME NoTwice(s), ~Has(s, e) PROVE NoTwice(t)
  <2> SUFFICES ASSUME NEW i \in 1..Len(t), NEW j \in 1..Len(t), t[i] = t[j]
               PROVE  i = j
    BY DEF NoTwice
  <2>1. ASSUME NEW k \in 1..Len(t), k # 1
        PROVE  k - 1 \in 1..Len(s) /\ t[k] = s[k - 1] /\ t[k] # e
    <3>1. k - 1 \in 1..Len(s) /\ t[k] = s[k - 1]
      BY <1>1, <2>1
    <3> QED
      BY <1>3, <3>1 DEF Has
  <2>2. CASE i = 1 \/ j = 1
    BY <1>1, <2>1, <2>2
  <2>3. CASE i # 1 /\ j # 1
    <3>1. /\ i - 1 \in 1..Len(s) /\ j - 1 \in 1..Len(s) /\ s[i - 1] = s[j - 1]
      BY <2>1, <2>3
    <3>2. i - 1 = j - 1
      BY <1>3, <3>1 DEF NoTwice
    <3> QED
      BY <3>2
  <2> QED
    BY <2>2, <2>3
<1> QED
  BY <1>1, <1>2, <1>3 DEF t

(* The place the search finds.                                             *)
Place(s, x) == CHOOSE i \in 1..Len(s) : s[i] = x /\ \A j \in 1..(i - 1) : s[j] # x

LEMMA PlaceFacts ==
  ASSUME NEW S, NEW s \in Seq(S), NEW x, Has(s, x)
  PROVE  /\ Place(s, x) \in 1..Len(s) /\ s[Place(s, x)] = x
         /\ \A j \in 1..(Place(s, x) - 1) : s[j] # x
         /\ Without(s, x) = RemoveAt(s, Place(s, x))
<1> DEFINE hits == {i \in 1..Len(s) : s[i] = x}
<1>1. hits \in SUBSET Nat /\ hits # {} /\ Len(s) \in Nat
  BY DEF Has
<1>2. PICK m \in hits : \A k \in hits : m <= k
  BY <1>1, Least
<1>3. m \in 1..Len(s) /\ s[m] = x
  BY <1>2
<1>4. \A j \in 1..(m - 1) : s[j] # x
  BY <1>1, <1>2, <1>3
<1>5. \E i \in 1..Len(s) : s[i] = x /\ \A j \in 1..(i - 1) : s[j] # x
  BY <1>3, <1>4, Zenon
<1> QED
  BY <1>5, Zenon DEF Place, Without

LEMMA RemoveChain ==
  ASSUME NEW S, NEW s \in Seq(S), NEW p \in 1..Len(s)
  PROVE  /\ RemoveAt(s, p) \in Seq(S)
         /\ \A y : Has(RemoveAt(s, p), y) => Has(s, y)
         /\ \A y : y # s[p] /\ Has(s, y) => Has(RemoveAt(s, p), y)
         /\ NoTwice(s) => NoTwice(RemoveAt(s, p)) /\ ~Has(RemoveAt(s, p), s[p])
<1> DEFINE t == RemoveAt(s, p)
<1>1. /\ t \in Seq(S) /\ Len(t) = Len(s) - 1 /\ Len(s) \in Nat /\ p \in Nat
      /\ \A k \in 1..(p - 1) : t[k] = s[k]
      /\ \A k \in p..(Len(s) - 1) : t[k] = s[k + 1]
  <2>1. /\ RemoveAt(s, p) \in Seq(S) /\ Len(RemoveAt(s, p)) = Len(s) - 1
        /\ \A k \in 1..(p - 1) : RemoveAt(s, p)[k] = s[k]
        /\ \A k \in p..(Len(s) - 1) : RemoveAt(s, p)[k] = s[k + 1]
    BY RemoveAtProperties, Zenon
  <2>2. Len(s) \in Nat /\ p \in Nat
    OBVIOUS
  <2> QED
    BY <2>1, <2>2, Zenon
<1> HIDE DEF t
<1> DEFINE from(k) == IF k < p THEN k ELSE k + 1
<1>2. ASSUME NEW k \in 1..Len(t)
      PROVE  from(k) \in 1..Len(s) /\ from(k) # p /\ t[k] = s[from(k)]
  <2>1. CASE k < p
    BY <1>1, <2>1
  <2>2. CASE ~(k < p)
    BY <1>1, <2>2
  <2> QED
    BY <2>1, <2>2
<1>3. \A k, l \in 1..Len(t) : from(k) = from(l) => k = l
  BY <1>1
<1>4. ASSUME NEW k \in 1..Len(s), k # p PROVE \E l \in 1..Len(t) : t[l] = s[k]
  <2>1. CASE k < p
    <3>1. k \in 1..Len(t) /\ t[k] = s[k]
      BY <1>1, <2>1
    <3> QED
      BY <3>1
  <2>2. CASE k > p
    <3>1. k - 1 \in 1..Len(t) /\ k - 1 \in p..(Len(s) - 1) /\ (k - 1) + 1 = k
      BY <1>1, <2>2
    <3>2. t[k - 1] = s[k]
      BY <1>1, <3>1
    <3> QED
      BY <3>1, <3>2
  <2> QED
    BY <1>1, <1>4, <2>1, <2>2
<1> HIDE DEF from
<1>5. \A y : Has(t, y) => Has(s, y)
  BY <1>2 DEF Has
<1>6. ASSUME NEW y, y # s[p], Has(s, y) PROVE Has(t, y)
  <2>1. PICK k \in 1..Len(s) : s[k] = y
    BY <1>6 DEF Has
  <2> QED
    BY <1>4, <1>6, <2>1 DEF Has
<1>7. ASSUME NoTwice(s) PROVE NoTwice(t) /\ ~Has(t, s[p])
  <2>1. ~Has(t, s[p])
    BY <1>2, <1>7 DEF NoTwice, Has
  <2>2. NoTwice(t)
    BY <1>2, <1>3, <1>7 DEF NoTwice
  <2> QED
    BY <2>1, <2>2
<1> QED
  BY <1>1, <1>5, <1>6, <1>7 DEF t

(* What the unlinking of x leaves of a chain.                              *)
LEMMA WithoutChain ==
  ASSUME NEW S, NEW s \in Seq(S), NEW x
  PROVE  /\ Without(s, x) \in Seq(S)
         /\ \A y : Has(Without(s, x), y) => Has(s, y)
         /\ \A y : y # x /\ Has(s, y) => Has(Without(s, x), y)
         /\ NoTwice(s) => NoTwice(Without(s, x)) /\ ~Has(Without(s, x), x)
         /\ ~Has(s, x) => Without(s, x) = s
<1>1. CASE Has(s, x)
  <2>1. /\ Place(s, x) \in 1..Len(s) /\ s[Place(s, x)] = x
        /\ Without(s, x) = RemoveAt(s, Place(s, x))
    BY <1>1, PlaceFacts
  <2> DEFINE p == Place(s, x)
  <2> HIDE DEF p
  <2>2. p \in 1..Len(s) /\ s[p] = x /\ Without(s, x) = RemoveAt(s, p)
    BY <2>1 DEF p
  <2>3. /\ RemoveAt(s, p) \in Seq(S)
        /\ \A y : Has(RemoveAt(s, p), y) => Has(s, y)
        /\ \A y : y # s[p] /\ Has(s, y) => Has(RemoveAt(s, p), y)
        /\ NoTwice(s) => NoTwice(RemoveAt(s, p)) /\ ~Has(RemoveAt(s, p), s[p])
    BY <2>2, RemoveChain
  <2> QED
    BY <1>1, <2>2, <2>3
<1>2. CASE ~Has(s, x)
  BY <1>2 DEF Without
<1> QED
  BY <1>1, <1>2

(* Putting an element in front and taking it out again changes nothing.    *)
LEMMA WithoutInserted ==
  ASSUME NEW S, NEW s \in Seq(S), NEW e \in S
  PROVE  Without(Insert(s, e), e) = s
<1> DEFINE t == Insert(s, e)
<1>1. /\ t \in Seq(S) /\ Len(t) = Len(s) + 1 /\ Len(s) \in Nat
      /\ t[1] = e
      /\ \A k \in 2..(Len(s) + 1) : t[k] = s[k - 1]
  BY ConsFacts DEF Insert
<1> HIDE DEF t
<1>2. Has(t, e)
  BY <1>1 DEF Has
<1> DEFINE p == Place(t, e)
<1>3. /\ p \in 1..Len(t) /\ t[p] = e
      /\ \A j \in 1..(p - 1) : t[j] # e
      /\ Without(t, e) = RemoveAt(t, p)
  BY <1>1, <1>2, PlaceFacts
<1> HIDE DEF p
<1>4. p = 1
  BY <1>1, <1>3
<1> DEFINE u == RemoveAt(t, p)
<1>5. /\ u \in Seq(S) /\ Len(u) = Len(t) - 1
      /\ \A k \in p..(Len(t) - 1) : u[k] = t[k + 1]
  BY <1>1, <1>3, RemoveAtProperties
<1>6. Without(t, e) = u
  BY <1>3
<1> HIDE DEF u
<1>7. ASSUME NEW k \in 1..Len(s) PROVE u[k] = s[k]
  <2>1. k \in p..(Len(t) - 1) /\ k + 1 \in 2..(Len(s) + 1) /\ (k + 1) - 1 = k
    BY <1>1, <1>4
  <2> QED
    BY <1>1, <1>5, <2>1
<1>8. Len(u) = Len(s)
  BY <1>1, <1>5
<1>9. u = s
  BY <1>5, <1>7, <1>8
<1> QED
  BY <1>6, <1>9 DEF t

-----------------------------------------------------------------------------
(* There is room for what init_filesystem creates.                         *)
LEMMA Sizes ==
  /\ Len(TopDirs) \in Nat /\ Len(TopDirs) > 0 /\ MaxNodes \in Nat
  /\ InitNodes \subseteq Ids /\ root \in Ids /\ 2 \in Ids /\ Len(TopDirs) + 2 \in Ids
<1>1. TopDirs \in Seq(Words) /\ Len(TopDirs) > 0 /\ MaxNodes \in Nat /\ MaxNodes > Len(TopDirs) + 1
  BY VfsAssumption, Zenon
<1>2. Len(TopDirs) \in Nat
  BY <1>1
<1> QED
  BY <1>1, <1>2 DEF InitNodes, Ids, root

(* The way up and the way down.                                            *)

LEMMA UpFacts ==
  ASSUME TypeOK, NEW n \in Cells
  PROVE  /\ Up(n) \in SUBSET Cells /\ n \in Up(n) /\ UpClosed(Up(n))
         /\ \A S \in SUBSET Cells : n \in S /\ UpClosed(S) => Up(n) \subseteq S
<1>1. \A c \in Cells \ {root, NULL} : parent[c] \in Cells
  BY DEF TypeOK, Cells
<1>2. UpClosed(Up(n))
  BY <1>1 DEF UpClosed, Up
<1> QED
  BY <1>2 DEF Up

(* Except for its start, whatever the walk meets is the parent of something*)
(* the walk has met before.                                                *)
LEMMA UpCause ==
  ASSUME TypeOK, NEW n \in Cells, NEW m \in Up(n), m # n
  PROVE  \E x \in Up(n) \ {root, NULL} : parent[x] = m
<1> DEFINE S == Up(n) \ {m}
<1>1. SUFFICES ASSUME \A x \in Up(n) \ {root, NULL} : parent[x] # m PROVE FALSE
  OBVIOUS
<1>2. /\ Up(n) \in SUBSET Cells /\ n \in Up(n) /\ UpClosed(Up(n))
      /\ \A T \in SUBSET Cells : n \in T /\ UpClosed(T) => Up(n) \subseteq T
  BY UpFacts
<1>3. UpClosed(S)
  BY <1>1, <1>2 DEF UpClosed
<1>4. S \in SUBSET Cells /\ n \in S
  BY <1>2
<1> QED
  BY <1>2, <1>3, <1>4

LEMMA UpOfRoot ==
  ASSUME TypeOK
  PROVE  Up(root) = {root}
<1>1. root \in Cells
  BY DEF TypeOK, Cells
<1>2. {root} \in SUBSET Cells /\ UpClosed({root})
  BY <1>1 DEF UpClosed
<1> QED
  BY <1>1, <1>2, UpFacts

LEMMA UpOfParent ==
  ASSUME TypeOK, NEW n \in Ids \ {root}
  PROVE  Up(n) = {n} \cup Up(parent[n])
<1> DEFINE d == parent[n]
<1>1. n \in Cells /\ d \in Cells /\ n # NULL
  BY DEF TypeOK, Cells, Ids, NULL
<1>2. /\ Up(n) \in SUBSET Cells /\ n \in Up(n) /\ UpClosed(Up(n))
      /\ \A S \in SUBSET Cells : n \in S /\ UpClosed(S) => Up(n) \subseteq S
  BY <1>1, UpFacts
<1> HIDE DEF d
<1>3. /\ Up(d) \in SUBSET Cells /\ d \in Up(d) /\ UpClosed(Up(d))
      /\ \A S \in SUBSET Cells : d \in S /\ UpClosed(S) => Up(d) \subseteq S
  BY <1>1, UpFacts
<1>4. d \in Up(n)
  BY <1>1, <1>2 DEF UpClosed, d
<1>5. UpClosed({n} \cup Up(d))
  BY <1>3 DEF UpClosed, d
<1>6. {n} \cup Up(d) \in SUBSET Cells
  BY <1>1, <1>3
<1>7. Up(n) \subseteq {n} \cup Up(d)
  BY <1>2, <1>5, <1>6
<1>8. Up(d) \subseteq Up(n)
  BY <1>2, <1>3, <1>4
<1> QED
  BY <1>2, <1>7, <1>8 DEF d

(* Who meets n meets what n meets.                                         *)
LEMMA UpTransitive ==
  ASSUME TypeOK, NEW n \in Cells, NEW m \in Up(n)
  PROVE  Up(m) \subseteq Up(n)
<1>1. /\ Up(n) \in SUBSET Cells /\ UpClosed(Up(n))
  BY UpFacts
<1> QED
  BY <1>1, UpFacts

LEMMA BelowFacts ==
  ASSUME NEW ks \in [Ids -> Seq(Ids)], NEW n \in Ids
  PROVE  /\ Below(ks, n) \in SUBSET Ids /\ n \in Below(ks, n)
         /\ \A m \in Below(ks, n) : \A c : Has(ks[m], c) => c \in Below(ks, n)
         /\ \A S \in SUBSET Ids : n \in S /\ (\A m \in S : \A c : Has(ks[m], c) => c \in S)
               => Below(ks, n) \subseteq S
<1>1. \A m \in Ids : \A i \in 1..Len(ks[m]) : ks[m][i] \in Ids
  OBVIOUS
<1>2. \A S \in SUBSET Ids :
        DownClosed(ks, S) <=> \A m \in S : \A c : Has(ks[m], c) => c \in S
  BY Zenon DEF DownClosed, Has
<1>3. DownClosed(ks, Below(ks, n))
  BY <1>1 DEF DownClosed, Below
<1>4. Below(ks, n) \in SUBSET Ids /\ n \in Below(ks, n)
  BY DEF Below
<1>5. \A S \in SUBSET Ids : n \in S /\ DownClosed(ks, S) => Below(ks, n) \subseteq S
  BY DEF Below
<1> QED
  BY <1>2, <1>3, <1>4, <1>5

(* Except for its top, whatever is below n is on the chain of something    *)
(* below n.                                                                *)
LEMMA BelowCause ==
  ASSUME NEW ks \in [Ids -> Seq(Ids)], NEW n \in Ids, NEW m \in Below(ks, n), m # n
  PROVE  \E x \in Below(ks, n) : Has(ks[x], m)
<1> DEFINE S == Below(ks, n) \ {m}
<1>1. SUFFICES ASSUME \A x \in Below(ks, n) : ~Has(ks[x], m) PROVE FALSE
  OBVIOUS
<1>2. /\ Below(ks, n) \in SUBSET Ids /\ n \in Below(ks, n)
      /\ \A x \in Below(ks, n) : \A c : Has(ks[x], c) => c \in Below(ks, n)
      /\ \A T \in SUBSET Ids : n \in T /\ (\A x \in T : \A c : Has(ks[x], c) => c \in T)
            => Below(ks, n) \subseteq T
  BY BelowFacts
<1>3. \A x \in S : \A c : Has(ks[x], c) => c \in S
  BY <1>1, <1>2
<1>4. S \in SUBSET Ids /\ n \in S
  BY <1>2
<1> QED
  BY <1>2, <1>3, <1>4, Zenon

-----------------------------------------------------------------------------
(* TreeShape, said of chains and their members.                            *)

LEMMA ShapeFacts ==
  ASSUME TypeOK, TreeShape
  PROVE  /\ root \in nodes /\ type[root] = "dir" /\ parent[root] = root
         /\ \A n \in Ids : kids[n] \in Seq(Ids) /\ NoTwice(kids[n])
         /\ \A n \in Ids : \A c : Has(kids[n], c) =>
               n \in nodes /\ type[n] = "dir" /\ c \in nodes \ {root} /\ c \in Ids /\ parent[c] = n
<1>1. \A n \in Ids : kids[n] \in Seq(Ids) /\ NoTwice(kids[n])
  BY DEF TypeOK, TreeShape
<1>2. \A n \in Ids : \A c : Has(kids[n], c) =>
         n \in nodes /\ type[n] = "dir" /\ c \in nodes \ {root} /\ c \in Ids /\ parent[c] = n
  BY DEF TypeOK, TreeShape, Has
<1> QED
  BY <1>1, <1>2 DEF TreeShape

LEMMA ShapeNext ==
  ASSUME root \in nodes', type'[root] = "dir", parent'[root] = root,
         \A n \in Ids : NoTwice(kids'[n]),
         \A n \in Ids : \A c : Has(kids'[n], c) =>
            n \in nodes' /\ type'[n] = "dir" /\ c \in nodes' \ {root} /\ parent'[c] = n
  PROVE  TreeShape'
BY DEF TreeShape, NoTwice, Has

LEMMA UnlinkedFacts ==
  ASSUME TypeOK, TreeShape, NEW n \in nodes
  PROVE  /\ Unlinked(n) \in [Ids -> Seq(Ids)]
         /\ \A m \in Ids : m # parent[n] => Unlinked(n)[m] = kids[m]
         /\ parent[n] \in Ids => Unlinked(n)[parent[n]] = Without(kids[parent[n]], n)
         /\ \A m \in Ids : NoTwice(Unlinked(n)[m]) /\ ~Has(Unlinked(n)[m], n)
         /\ \A m \in Ids : \A c : Has(Unlinked(n)[m], c) => Has(kids[m], c)
         /\ \A m \in Ids : \A c : c # n /\ Has(kids[m], c) => Has(Unlinked(n)[m], c)
<1>1. /\ \A m \in Ids : kids[m] \in Seq(Ids) /\ NoTwice(kids[m])
      /\ \A m \in Ids : \A c : Has(kids[m], c) => parent[c] = m
  BY ShapeFacts
<1> DEFINE d == parent[n]
           w == Without(kids[d], n)
<1>2. kids \in [Ids -> Seq(Ids)]
  BY DEF TypeOK
<1>3. ASSUME d \in Ids
      PROVE  /\ w \in Seq(Ids)
             /\ \A y : Has(w, y) => Has(kids[d], y)
             /\ \A y : y # n /\ Has(kids[d], y) => Has(w, y)
             /\ NoTwice(w) /\ ~Has(w, n)
  <2> HIDE DEF d
  <2>1. kids[d] \in Seq(Ids) /\ NoTwice(kids[d])
    BY <1>1, <1>3
  <2> QED
    BY <2>1, WithoutChain
<1>4. Unlinked(n) = [kids EXCEPT ![d] = w]
  BY DEF Unlinked
<1>5. \A m \in Ids : m # d => ~Has(kids[m], n)
  BY <1>1
<1>6. ASSUME d \in Ids, NEW m \in Ids
      PROVE  Unlinked(n)[m] = IF m = d THEN w ELSE kids[m]
  <2> HIDE DEF d, w
  <2> QED
    BY <1>2, <1>4, <1>6
<1>7. ASSUME d \notin Ids
      PROVE  Unlinked(n) = kids
  <2> HIDE DEF d, w
  <2> QED
    BY <1>2, <1>4, <1>7
<1>8. Unlinked(n) \in [Ids -> Seq(Ids)]
  <2> HIDE DEF d, w
  <2> QED
    BY <1>2, <1>3, <1>4
<1> HIDE DEF w
<1>9. CASE d \in Ids
  <2>1. \A m \in Ids : m # d => Unlinked(n)[m] = kids[m]
    BY <1>6, <1>9
  <2>2. Unlinked(n)[d] = w
    BY <1>6, <1>9
  <2>3. \A m \in Ids : NoTwice(Unlinked(n)[m]) /\ ~Has(Unlinked(n)[m], n)
    BY <1>1, <1>3, <1>5, <1>9, <2>1, <2>2
  <2>4. \A m \in Ids : \A c : Has(Unlinked(n)[m], c) => Has(kids[m], c)
    BY <1>3, <1>9, <2>1, <2>2
  <2>5. \A m \in Ids : \A c : c # n /\ Has(kids[m], c) => Has(Unlinked(n)[m], c)
    BY <1>3, <1>9, <2>1, <2>2
  <2> QED
    BY <1>8, <2>1, <2>2, <2>3, <2>4, <2>5 DEF w
<1>10. CASE d \notin Ids
  BY <1>1, <1>5, <1>7, <1>8, <1>10
<1> QED
  BY <1>9, <1>10

-----------------------------------------------------------------------------
(* Following a path.                                                       *)

LEMMA FindFacts ==
  ASSUME NEW ks \in [Ids -> Seq(Ids)], NEW d \in Ids, NEW nm
  PROVE  FindIn(ks, d, nm) = NULL \/ Has(ks[d], FindIn(ks, d, nm))
<1> DEFINE hits == Hits(ks, d, nm)
<1>1. CASE hits = {}
  BY <1>1 DEF FindIn
<1>2. CASE hits # {}
  <2>1. hits \in SUBSET Nat
    BY DEF Hits
  <2>2. \E i \in hits : \A j \in hits : i <= j
    BY <1>2, <2>1, Least
  <2> DEFINE i == CHOOSE i \in hits : \A j \in hits : i <= j
  <2>3. i \in hits
    BY <2>2, Zenon
  <2>4. FindIn(ks, d, nm) = ks[d][i]
    BY <1>2 DEF FindIn
  <2> HIDE DEF i
  <2>5. i \in 1..Len(ks[d])
    BY <2>3 DEF Hits
  <2> QED
    BY <2>4, <2>5, Zenon DEF Has
<1> QED
  BY <1>1, <1>2

(* The steps of Follow exist, for every number of components.              *)
StepsOf(f, n, comps, L) ==
  f = [k \in 0..L |-> IF k = 0 THEN n ELSE Enter(f[k - 1], comps[k])]

LEMMA StepsExist ==
  ASSUME NEW n, NEW comps, NEW L \in Nat
  PROVE  \E f : StepsOf(f, n, comps, L)
<1> DEFINE IsSteps(f, l) == f = [k \in 0..l |-> IF k = 0 THEN n ELSE Enter(f[k - 1], comps[k])]
           Bad == {l \in Nat : ~\E f : IsSteps(f, l)}
<1> USE DEF StepsOf
<1>1. SUFFICES Bad = {}
  OBVIOUS
<1>2. ASSUME Bad # {} PROVE FALSE
  <2>1. PICK l \in Bad : \A k \in Bad : l <= k
    <3>1. Bad \in SUBSET Nat
      OBVIOUS
    <3> HIDE DEF Bad
    <3> QED
      BY <1>2, <3>1, Least
  <2>2. CASE l = 0
    <3> DEFINE f == [k \in 0..0 |-> n]
    <3>1. f = [k \in 0..0 |-> IF k = 0 THEN n ELSE Enter(f[k - 1], comps[k])]
      <4>1. \A k \in 0..0 : k = 0
        OBVIOUS
      <4> QED
        BY <4>1
    <3>2. IsSteps(f, 0)
      BY <3>1
    <3> QED
      BY <2>1, <2>2, <3>2
  <2>3. CASE l # 0
    <3>1. l - 1 \in Nat /\ ~(l <= l - 1) /\ l \in Nat
      BY <2>1, <2>3
    <3>2. PICK g : IsSteps(g, l - 1)
      BY <2>1, <3>1
    <3> DEFINE f == [k \in 0..l |-> IF k = l THEN Enter(g[l - 1], comps[l]) ELSE g[k]]
    <3>3. ASSUME NEW k \in 0..l
          PROVE  f[k] = IF k = 0 THEN n ELSE Enter(f[k - 1], comps[k])
      <4>1. CASE k = l
        <5>1. l - 1 \in 0..l /\ l - 1 # l
          BY <3>1
        <5>2. f[l - 1] = g[l - 1] /\ f[l] = Enter(g[l - 1], comps[l])
          BY <5>1
        <5> QED
          BY <2>3, <4>1, <5>2
      <4>2. CASE k # l
        <5>1. k \in 0..(l - 1)
          BY <3>1, <4>2
        <5>2. g[k] = IF k = 0 THEN n ELSE Enter(g[k - 1], comps[k])
          BY <3>2, <5>1
        <5>3. f[k] = g[k]
          BY <4>2
        <5>4. k # 0 => k - 1 \in 0..l /\ k - 1 # l
          BY <5>1
        <5>5. k # 0 => f[k - 1] = g[k - 1]
          BY <5>4
        <5> HIDE DEF f
        <5> QED
          BY <5>2, <5>3, <5>5
      <4> QED
        BY <4>1, <4>2
    <3>4. IsSteps(f, l)
      BY <3>3
    <3> QED
      BY <2>1, <3>4
  <2> QED
    BY <2>2, <2>3
<1> QED
  BY <1>2

(* A set that no component of a path leaves is not left by a path.         *)
LEMMA FollowStays ==
  ASSUME NEW G, NEW n \in G, NEW comps, Len(comps) \in Nat,
         \A g \in G : \A k \in 1..Len(comps) : Enter(g, comps[k]) \in G
  PROVE  Follow(n, comps) \in G
<1> DEFINE L == Len(comps)
<1>1. \E f : StepsOf(f, n, comps, L)
  BY StepsExist, Zenon
<1> DEFINE to == CHOOSE f : StepsOf(f, n, comps, L)
<1>2. StepsOf(to, n, comps, L)
  BY <1>1, Zenon
<1>3. Follow(n, comps) = to[L]
  BY DEF Follow, StepsOf
<1> HIDE DEF to
<1> DEFINE Out == {k \in 0..L : to[k] \notin G}
<1>4. ASSUME Out # {} PROVE FALSE
  <2>1. PICK k \in Out : \A j \in Out : k <= j
    <3>1. Out \in SUBSET Nat
      OBVIOUS
    <3> HIDE DEF Out
    <3> QED
      BY <1>4, <3>1, Least
  <2>2. k # 0
    BY <1>2, <2>1 DEF StepsOf
  <2>3. k \in 1..L /\ k - 1 \in 0..L /\ ~(k <= k - 1) /\ k \in 0..L
    BY <2>1, <2>2
  <2>4. to[k - 1] \in G
    BY <2>1, <2>3
  <2>5. to[k] = Enter(to[k - 1], comps[k])
    BY <1>2, <2>2, <2>3 DEF StepsOf
  <2> QED
    BY <2>1, <2>3, <2>4, <2>5
<1>5. L \in 0..L
  OBVIOUS
<1> QED
  BY <1>3, <1>4, <1>5

-----------------------------------------------------------------------------
(* Everything on the way up from n is allocated and linked.                *)
Anchored(n) == \A m \in Up(n) : m \in nodes /\ (m = root \/ Has(kids[parent[m]], m))

(* The invariant, and what a path can lead to under it.                    *)
Inv == TypeOK /\ TreeShape /\ CurrentDirIsLinked

Reached == {g \in Ids : Anchored(g) /\ (Meets(current_dir, root) => Meets(g, root))} \cup {NULL}

LEMMA AnchoredRoot ==
  ASSUME TypeOK, TreeShape
  PROVE  Anchored(root) /\ Meets(root, root)
BY UpOfRoot, ShapeFacts DEF Anchored, Meets

LEMMA AnchoredFacts ==
  ASSUME TypeOK, TreeShape, NEW n \in Ids, Anchored(n)
  PROVE  /\ n \in nodes /\ parent[n] \in nodes /\ parent[n] \in Ids /\ type[parent[n]] = "dir"
         /\ n # root => Has(kids[parent[n]], n)
         /\ Anchored(parent[n])
         /\ Meets(n, root) => Meets(parent[n], root)
<1> USE DEF Ids, Cells, NULL, root
<1>1. n \in Cells /\ n \in Up(n) /\ UpClosed(Up(n))
  BY UpFacts
<1>2. n \in nodes /\ (n = root \/ Has(kids[parent[n]], n))
  BY <1>1 DEF Anchored
<1>3. CASE n = root
  BY <1>2, <1>3, ShapeFacts DEF TypeOK
<1>4. CASE n # root
  <2>1. parent[n] \in Up(n)
    BY <1>1, <1>4 DEF UpClosed
  <2>2. parent[n] \in nodes /\ parent[n] \in Ids
    BY <2>1 DEF Anchored, TypeOK
  <2>3. type[parent[n]] = "dir"
    BY <1>2, <1>4, <2>2, ShapeFacts
  <2>4. Up(n) = {n} \cup Up(parent[n])
    BY <1>4, UpOfParent
  <2>5. Anchored(parent[n])
    BY <2>4 DEF Anchored
  <2>6. Meets(n, root) => Meets(parent[n], root)
    BY <1>4, <2>4 DEF Meets
  <2> QED
    BY <1>2, <1>4, <2>2, <2>3, <2>5, <2>6
<1> QED
  BY <1>3, <1>4

LEMMA AnchoredChild ==
  ASSUME TypeOK, TreeShape, NEW n \in Ids, Anchored(n), NEW c, Has(kids[n], c)
  PROVE  /\ c \in Ids /\ c # root /\ parent[c] = n
         /\ Anchored(c)
         /\ Meets(n, root) => Meets(c, root)
<1>1. c \in Ids /\ c \in nodes \ {root} /\ parent[c] = n
  BY ShapeFacts
<1>2. Up(c) = {c} \cup Up(n)
  BY <1>1, UpOfParent
<1>3. Anchored(c)
  BY <1>1, <1>2 DEF Anchored
<1> QED
  BY <1>1, <1>2, <1>3 DEF Meets

LEMMA FindReached ==
  ASSUME Inv, NEW n \in Reached \ {NULL}, NEW nm
  PROVE  /\ FindChild(n, nm) \in Reached
         /\ FindChild(n, nm) # NULL => Has(kids[n], FindChild(n, nm)) /\ FindChild(n, nm) \in nodes \ {root}
<1>1. n \in Ids /\ Anchored(n) /\ (Meets(current_dir, root) => Meets(n, root))
  BY DEF Reached
<1>2. FindChild(n, nm) = NULL \/ Has(kids[n], FindChild(n, nm))
  BY <1>1, FindFacts DEF FindChild, Inv, TypeOK
<1>3. CASE FindChild(n, nm) = NULL
  BY <1>3 DEF Reached
<1>4. CASE Has(kids[n], FindChild(n, nm))
  <2> DEFINE c == FindChild(n, nm)
  <2> HIDE DEF c
  <2>1. Has(kids[n], c)
    BY <1>4 DEF c
  <2>2. /\ c \in Ids /\ Anchored(c)
        /\ Meets(n, root) => Meets(c, root)
    BY <1>1, <2>1, AnchoredChild DEF Inv
  <2>3. c \in Reached
    BY <1>1, <2>2 DEF Reached
  <2>4. c \in nodes \ {root}
    BY <1>1, <2>1, ShapeFacts DEF Inv
  <2> QED
    BY <2>1, <2>3, <2>4 DEF c
<1> QED
  BY <1>2, <1>3, <1>4

LEMMA RootReached ==
  ASSUME Inv
  PROVE  /\ root \in Reached \ {NULL} /\ root \in Ids /\ root \in nodes
         /\ current_dir \in Reached \ {NULL} /\ current_dir \in nodes
         /\ HomeRoot \in Reached
         /\ HomeRoot # NULL => HomeRoot \in nodes \ {root} /\ Has(kids[parent[HomeRoot]], HomeRoot)
<1>1. root \in Ids /\ root \in nodes /\ root # NULL
  BY DEF Inv, TypeOK, root, NULL
<1>2. root \in Reached
  BY <1>1, AnchoredRoot DEF Reached, Inv
<1>3. Anchored(current_dir) /\ current_dir \in Ids /\ current_dir # NULL
  BY DEF Inv, CurrentDirIsLinked, Anchored, TypeOK, Ids, NULL
<1>4. current_dir \in Reached /\ current_dir \in nodes
  BY <1>3, AnchoredFacts DEF Reached, Inv
<1>5. /\ HomeRoot \in Reached
      /\ HomeRoot # NULL => HomeRoot \in nodes \ {root} /\ Has(kids[parent[HomeRoot]], HomeRoot)
  <2> DEFINE home == FindChild(root, <<"home">>)
             hr   == FindChild(home, <<"root">>)
  <2>1. home \in Reached
    BY <1>1, <1>2, FindReached
  <2>2. HomeRoot = IF home = NULL THEN NULL ELSE hr
    BY DEF HomeRoot, HomeRootIn, FindChild
  <2>3. CASE home = NULL
    BY <2>2, <2>3 DEF Reached
  <2>4. CASE home # NULL
    <3> HIDE DEF home
    <3>1. hr \in Reached /\ (hr # NULL => Has(kids[home], hr) /\ hr \in nodes \ {root})
      BY <2>1, <2>4, FindReached
    <3>2. home \in Ids
      BY <2>1, <2>4 DEF Reached
    <3> HIDE DEF hr
    <3>3. hr # NULL => parent[hr] = home
      BY <3>1, <3>2, ShapeFacts DEF Inv
    <3> QED
      BY <2>2, <2>4, <3>1, <3>3
  <2> QED
    BY <2>3, <2>4
<1> QED
  BY <1>1, <1>2, <1>3, <1>4, <1>5

LEMMA EnterReached ==
  ASSUME Inv, NEW n \in Reached, NEW comp
  PROVE  Enter(n, comp) \in Reached
<1>1. CASE n = NULL
  BY <1>1 DEF Enter, Reached
<1>2. CASE n # NULL /\ comp = ".."
  <2>1. n \in Ids /\ Anchored(n) /\ (Meets(current_dir, root) => Meets(n, root))
    BY <1>2 DEF Reached
  <2>2. /\ parent[n] \in Ids /\ Anchored(parent[n])
        /\ Meets(n, root) => Meets(parent[n], root)
    BY <2>1, AnchoredFacts DEF Inv
  <2> QED
    BY <1>2, <2>1, <2>2 DEF Enter, Reached
<1>3. CASE n # NULL /\ comp # ".." /\ comp \in {"", "."}
  BY <1>3 DEF Enter
<1>4. CASE n # NULL /\ comp # ".." /\ comp \notin {"", "."}
  BY <1>4, FindReached DEF Enter
<1> QED
  BY <1>1, <1>2, <1>3, <1>4

(* What users type are paths.                                              *)
LEMMA TypedPaths == NewPaths \subseteq Path /\ Paths \subseteq Path
<1>1. Paths \subseteq Path /\ NewPaths \subseteq Paths
  BY VfsAssumption, Zenon
<1> QED
  BY <1>1

(* Whatever a path leads to is allocated and linked all the way up, and    *)
(* below root if the current directory is.                                 *)
LEMMA ResolveReached ==
  ASSUME Inv, NEW p \in Path
  PROVE  /\ Resolve(p) \in Reached
         /\ DirPart(p) \in Reached
         /\ NamePart(p) \in Seq(Words) /\ WholeName(p) \in Seq(Words)
<1>1. p.anchor \in {"", "/", "~"} /\ p.comps \in Seq(Words)
  BY DEF Path
<1>2. p.comps \in Seq(Words)
  BY <1>1, Zenon
<1>3. \A a : Start(a) \in Reached
  BY RootReached DEF Start
<1>4. \A n \in Reached : \A cs : Len(cs) \in Nat => Follow(n, cs) \in Reached
  BY EnterReached, FollowStays
<1>5. Resolve(p) \in Reached
  <2>1. Len(p.comps) \in Nat
    BY <1>2
  <2> QED
    BY <1>3, <1>4, <2>1, Zenon DEF Resolve
<1>6. DirPart(p) \in Reached
  <2>1. CASE HasSlash(p) /\ p.comps # <<>>
    <3>1. Len(Front(p.comps)) \in Nat
      <4>1. Len(p.comps) \in Nat /\ Len(p.comps) >= 1
        BY <1>2, <2>1
      <4>2. Len(SubSeq(p.comps, 1, Len(p.comps) - 1)) = Len(p.comps) - 1
        BY <1>2, <4>1, SubSeqProperties
      <4> QED
        BY <4>1, <4>2 DEF Front
    <3>2. DirPart(p) = Follow(Start(p.anchor), Front(p.comps))
      BY <2>1 DEF DirPart
    <3> QED
      BY <1>3, <1>4, <3>1, <3>2
  <2>2. CASE ~(HasSlash(p) /\ p.comps # <<>>)
    BY <2>2, RootReached DEF DirPart
  <2> QED
    BY <2>1, <2>2
<1>7. p.anchor \in Words /\ <<p.anchor>> \in Seq(Words) /\ <<>> \in Seq(Words)
  <2>1. "" \in Words /\ "/" \in Words /\ "~" \in Words
    BY VfsAssumption
  <2>2. p.anchor \in Words
    BY <1>1, <2>1
  <2> DEFINE a == p.anchor
  <2> HIDE DEF a
  <2>3. a \in Words
    BY <2>2 DEF a
  <2>4. <<a>> \in Seq(Words)
    BY <2>3
  <2> QED
    BY <2>2, <2>4 DEF a
<1>8. NamePart(p) \in Seq(Words)
  <2>1. CASE p.comps # <<>>
    <3>1. p.comps[Len(p.comps)] \in Words
      BY <1>2, <2>1
    <3> DEFINE e == p.comps[Len(p.comps)]
    <3> HIDE DEF e
    <3>2. <<e>> \in Seq(Words)
      BY <3>1 DEF e
    <3>3. NamePart(p) = <<>> \/ NamePart(p) = <<e>>
      BY <2>1 DEF NamePart, Named, Last, e
    <3> QED
      BY <1>7, <3>2, <3>3
  <2>2. CASE p.comps = <<>>
    <3>1. NamePart(p) = <<>> \/ NamePart(p) = <<p.anchor>>
      BY <2>2 DEF NamePart
    <3> QED
      BY <1>7, <3>1
  <2> QED
    BY <2>1, <2>2
<1>9. WholeName(p) \in Seq(Words)
  <2>1. CASE p.anchor = ""
    BY <1>1, <2>1 DEF WholeName
  <2>2. CASE p.anchor # ""
    <3>1. <<p.anchor>> \o p.comps \in Seq(Words)
      BY <1>2, <1>7, ConsFacts
    <3> QED
      BY <2>2, <3>1 DEF WholeName
  <2> QED
    BY <2>1, <2>2
<1> QED
  BY <1>5, <1>6, <1>8, <1>9

-----------------------------------------------------------------------------
(* The invariant holds at first and is kept by every effect a call has.    *)

LEMMA CurrentFacts ==
  ASSUME Inv
  PROVE  /\ Up(current_dir) \in SUBSET Cells /\ current_dir \in Up(current_dir)
         /\ UpClosed(Up(current_dir))
         /\ \A m \in Up(current_dir) :
               /\ m \in nodes /\ m \in Ids /\ m # NULL /\ type[m] = "dir"
               /\ m # root => /\ Has(kids[parent[m]], m)
                              /\ parent[m] \in Up(current_dir) /\ parent[m] \in Ids
               /\ m # current_dir => \E x : Has(kids[m], x)
<1> DEFINE S == Up(current_dir)
<1>1. current_dir \in Cells /\ type[current_dir] = "dir"
  BY DEF Inv, TypeOK, Cells, CurrentDirIsLinked
<1>2. S \in SUBSET Cells /\ current_dir \in S /\ UpClosed(S)
  BY <1>1, UpFacts DEF Inv
<1>3. \A m \in S : m \in nodes /\ m \in Ids /\ m # NULL /\ (m = root \/ Has(kids[parent[m]], m))
  <2>1. \A m \in S : m \in nodes /\ (m = root \/ Has(kids[parent[m]], m))
    BY Zenon DEF Inv, CurrentDirIsLinked
  <2>2. \A m \in nodes : m \in Ids /\ m # NULL
    BY DEF Inv, TypeOK, Ids, NULL
  <2> HIDE DEF S
  <2> QED
    BY <2>1, <2>2
<1>4. ASSUME NEW m \in S, m # root PROVE parent[m] \in S /\ parent[m] \in Ids
  BY <1>2, <1>3, <1>4 DEF UpClosed
<1>5. ASSUME NEW m \in S, m # current_dir PROVE type[m] = "dir" /\ \E x : Has(kids[m], x)
  <2>1. PICK x \in S \ {root, NULL} : parent[x] = m
    BY <1>1, <1>5, UpCause DEF Inv
  <2>2. Has(kids[m], x)
    BY <1>3, <2>1
  <2> QED
    BY <1>3, <2>2, ShapeFacts DEF Inv
<1> QED
  BY <1>1, <1>2, <1>3, <1>4, <1>5

(* Any closed set around the new current directory will do.                *)
LEMMA LinkedNext ==
  ASSUME NEW S \in SUBSET Cells, current_dir' \in S,
         \A c \in S \ {root, NULL} : parent'[c] \in S,
         \A m \in S : m \in nodes' /\ (m = root \/ Has(kids'[parent'[m]], m)),
         type'[current_dir'] = "dir"
  PROVE  CurrentDirIsLinked'
<1>1. UpClosed(S)'
  BY DEF UpClosed
<1>2. Up(current_dir)' \subseteq S
  BY <1>1 DEF Up
<1> QED
  BY <1>2 DEF CurrentDirIsLinked, Has

LEMMA RootLinkedNext ==
  ASSUME current_dir' = root, root \in nodes', type'[root] = "dir"
  PROVE  CurrentDirIsLinked'
<1>1. {root} \in SUBSET Cells
  BY Sizes DEF Cells
<1> QED
  BY <1>1, LinkedNext

LEMMA CreateInv ==
  ASSUME Inv, NEW d \in nodes, type[d] = "dir", NEW nm \in Seq(Words),
         NEW t \in {"dir", "file"}, NEW len \in {None} \cup 1..MaxData,
         Create(d, nm, t, len)
  PROVE  Inv'
<1> USE DEF Inv
<1>1. PICK n \in Ids \ nodes :
        /\ nodes' = nodes \cup {n}
        /\ kids' = [kids EXCEPT ![d] = Append(@, n), ![n] = <<>>]
        /\ parent' = [parent EXCEPT ![n] = d]
        /\ name' = [name EXCEPT ![n] = nm]
        /\ type' = [type EXCEPT ![n] = t]
        /\ data' = [data EXCEPT ![n] = len]
        /\ UNCHANGED <<current_dir, sudo_mode, status>>
  BY DEF Create
<1>2. d \in Ids /\ n \in Ids /\ n # d /\ n \notin nodes /\ n # root
  BY DEF TypeOK
<1>3. /\ \A m \in Ids : kids[m] \in Seq(Ids) /\ NoTwice(kids[m])
      /\ \A m \in Ids : \A c : Has(kids[m], c) =>
            m \in nodes /\ type[m] = "dir" /\ c \in nodes \ {root} /\ parent[c] = m /\ c \in Ids
  BY ShapeFacts
<1>4. /\ Append(kids[d], n) \in Seq(Ids) /\ NoTwice(Append(kids[d], n))
      /\ \A c : Has(Append(kids[d], n), c) <=> Has(kids[d], c) \/ c = n
  <2>1. ~Has(kids[d], n) /\ kids[d] \in Seq(Ids) /\ NoTwice(kids[d])
    BY <1>2, <1>3
  <2> QED
    BY <1>2, <2>1, AppendChain
<1>5. /\ kids' \in [Ids -> Seq(Ids)]
      /\ kids'[d] = Append(kids[d], n) /\ kids'[n] = <<>>
      /\ \A m \in Ids : m # d /\ m # n => kids'[m] = kids[m]
  <2> DEFINE a == Append(kids[d], n)
  <2>1. kids' = [kids EXCEPT ![d] = a, ![n] = <<>>]
    BY <1>1
  <2>2. a \in Seq(Ids) /\ <<>> \in Seq(Ids) /\ kids \in [Ids -> Seq(Ids)]
    BY <1>4 DEF TypeOK
  <2>3. kids'[d] = a /\ kids'[n] = <<>>
    <3> HIDE DEF a
    <3> QED
      BY <1>2, <2>1, <2>2
  <2>4. /\ kids' \in [Ids -> Seq(Ids)]
        /\ \A m \in Ids : m # d /\ m # n => kids'[m] = kids[m]
    <3> HIDE DEF a
    <3> QED
      BY <2>1, <2>2
  <2> QED
    BY <2>3, <2>4
<1>6. /\ parent'[n] = d /\ type'[n] = t
      /\ \A m \in Ids : m # n => parent'[m] = parent[m] /\ type'[m] = type[m]
  BY <1>1, <1>2 DEF TypeOK
<1>7. TypeOK'
  <2>1. parent' \in [Ids -> Ids \cup {NULL}]
    BY <1>1, <1>2 DEF TypeOK
  <2>2. name' \in [Ids -> Seq(Words)] /\ type' \in [Ids -> {"dir", "file"}]
    BY <1>1 DEF TypeOK
  <2>3. data' \in [Ids -> {None} \cup 1..MaxData]
    BY <1>1 DEF TypeOK
  <2> QED
    BY <1>1, <1>2, <1>5, <2>1, <2>2, <2>3 DEF TypeOK
<1>8. ~Has(<<>>, n) /\ NoTwice(<<>>) /\ \A c : ~Has(<<>>, c)
  BY DEF Has, NoTwice
<1>9. TreeShape'
  <2>1. root \in nodes' /\ type'[root] = "dir" /\ parent'[root] = root
    BY <1>1, <1>2, <1>6, ShapeFacts DEF TypeOK
  <2>2. ASSUME NEW m \in Ids PROVE NoTwice(kids'[m])
    <3>1. CASE m = d
      BY <1>4, <1>5, <3>1
    <3>2. CASE m = n
      BY <1>5, <1>8, <3>2
    <3>3. CASE m # d /\ m # n
      BY <1>3, <1>5, <3>3
    <3> QED
      BY <3>1, <3>2, <3>3
  <2>3. ASSUME NEW m \in Ids, NEW c, Has(kids'[m], c)
        PROVE  m \in nodes' /\ type'[m] = "dir" /\ c \in nodes' \ {root} /\ parent'[c] = m
    <3>1. CASE m = d
      <4>1. Has(kids[d], c) \/ c = n
        BY <1>4, <1>5, <2>3, <3>1
      <4>2. CASE c = n
        BY <1>1, <1>2, <1>6, <3>1, <4>2
      <4>3. CASE Has(kids[d], c)
        <5>1. c \in nodes \ {root} /\ parent[c] = d /\ c \in Ids
          BY <1>2, <1>3, <4>3
        <5> QED
          BY <1>1, <1>2, <1>6, <3>1, <5>1
      <4> QED
        BY <4>1, <4>2, <4>3
    <3>2. CASE m # d /\ m # n
      <4>1. m \in nodes /\ type[m] = "dir" /\ c \in nodes \ {root} /\ parent[c] = m /\ c \in Ids
        BY <1>3, <1>5, <2>3, <3>2
      <4> QED
        BY <1>1, <1>2, <1>6, <3>2, <4>1
    <3>3. CASE m = n
      BY <1>5, <1>8, <2>3, <3>3
    <3> QED
      BY <3>1, <3>2, <3>3
  <2> QED
    BY <2>1, <2>2, <2>3, ShapeNext
<1>10. CurrentDirIsLinked'
  <2> DEFINE S == Up(current_dir)
  <2>1. /\ S \in SUBSET Cells /\ current_dir \in S /\ UpClosed(S)
        /\ \A m \in S : /\ m \in nodes /\ m \in Ids /\ type[m] = "dir"
                        /\ m # root => /\ Has(kids[parent[m]], m)
                                       /\ parent[m] \in S /\ parent[m] \in Ids
    BY CurrentFacts
  <2> HIDE DEF S
  <2>2. \A m \in S : m # n
    BY <1>2, <2>1
  <2>3. ASSUME NEW c \in S \ {root, NULL} PROVE parent'[c] \in S
    BY <1>6, <2>1, <2>2
  <2>4. ASSUME NEW m \in S, m # root PROVE Has(kids'[parent'[m]], m)
    <3>1. parent'[m] = parent[m] /\ parent[m] \in Ids /\ parent[m] # n /\ Has(kids[parent[m]], m)
      BY <1>6, <2>1, <2>2, <2>4
    <3> QED
      BY <1>4, <1>5, <3>1
  <2>5. type'[current_dir'] = "dir" /\ current_dir' = current_dir
    BY <1>1, <1>6, <2>1, <2>2
  <2> QED
    BY <1>1, <2>1, <2>3, <2>4, <2>5, LinkedNext
<1> QED
  BY <1>7, <1>9, <1>10

(* Freeing a set of nodes that nothing kept has on its chain.              *)
LEMMA FreeTree ==
  ASSUME Inv, NEW dead \in SUBSET Ids, root \notin dead, NEW ks \in [Ids -> Seq(Ids)],
         \A m \in Ids : NoTwice(ks[m]),
         \A m \in Ids : \A c : Has(ks[m], c) => Has(kids[m], c),
         \A m \in Ids \ dead : \A c : Has(ks[m], c) => c \notin dead,
         Free(dead, ks), current_dir' \in Ids, sudo_mode' \in BOOLEAN,
         status' \in {"ok", "hung", "fault"}
  PROVE  /\ TypeOK' /\ TreeShape'
         /\ nodes' = nodes \ dead
         /\ \A m \in Ids \ dead : /\ kids'[m] = ks[m] /\ parent'[m] = parent[m]
                                  /\ type'[m] = type[m] /\ name'[m] = name[m] /\ data'[m] = data[m]
<1> USE DEF Inv
<1>1. /\ nodes' = nodes \ dead
      /\ kids'   = [n \in Ids |-> IF n \in dead THEN <<>> ELSE ks[n]]
      /\ parent' = [n \in Ids |-> IF n \in dead THEN NULL ELSE parent[n]]
      /\ name'   = [n \in Ids |-> IF n \in dead THEN <<>> ELSE name[n]]
      /\ type'   = [n \in Ids |-> IF n \in dead THEN "dir" ELSE type[n]]
      /\ data'   = [n \in Ids |-> IF n \in dead THEN None ELSE data[n]]
  BY DEF Free
<1>2. \A m \in Ids \ dead : /\ kids'[m] = ks[m] /\ parent'[m] = parent[m]
                            /\ type'[m] = type[m] /\ name'[m] = name[m] /\ data'[m] = data[m]
  BY <1>1
<1>3. \A m \in dead : kids'[m] = <<>>
  BY <1>1
<1>4. TypeOK'
  <2>1. kids' \in [Ids -> Seq(Ids)] /\ name' \in [Ids -> Seq(Words)]
    BY <1>1, SMTT(30) DEF TypeOK
  <2>2. parent' \in [Ids -> Ids \cup {NULL}]
    BY <1>1 DEF TypeOK
  <2>3. type' \in [Ids -> {"dir", "file"}] /\ data' \in [Ids -> {None} \cup 1..MaxData]
    BY <1>1 DEF TypeOK
  <2> QED
    BY <1>1, <2>1, <2>2, <2>3 DEF TypeOK
<1>5. ~\E c : Has(<<>>, c)
  BY DEF Has
<1>6. NoTwice(<<>>)
  BY DEF NoTwice
<1>7. TreeShape'
  <2>1. root \in nodes' /\ type'[root] = "dir" /\ parent'[root] = root
    BY <1>1, <1>2, Sizes, ShapeFacts
  <2>2. \A m \in Ids : NoTwice(kids'[m])
    BY <1>2, <1>3, <1>6
  <2>3. ASSUME NEW m \in Ids, NEW c, Has(kids'[m], c)
        PROVE  m \in nodes' /\ type'[m] = "dir" /\ c \in nodes' \ {root} /\ parent'[c] = m
    <3>1. m \notin dead
      BY <1>3, <1>5, <2>3
    <3>2. Has(kids[m], c) /\ c \notin dead
      BY <1>2, <2>3, <3>1
    <3>3. m \in nodes /\ type[m] = "dir" /\ c \in nodes \ {root} /\ c \in Ids /\ parent[c] = m
      BY <3>2, ShapeFacts
    <3> QED
      BY <1>1, <1>2, <3>1, <3>2, <3>3
  <2> QED
    BY <2>1, <2>2, <2>3, ShapeNext
<1> QED
  BY <1>1, <1>2, <1>4, <1>7

LEMMA FreeLinked ==
  ASSUME Inv, NEW dead \in SUBSET Ids, NEW ks,
         nodes' = nodes \ dead,
         \A m \in Ids \ dead : kids'[m] = ks[m] /\ parent'[m] = parent[m] /\ type'[m] = type[m],
         current_dir' = current_dir,
         \A m \in Up(current_dir) : m \notin dead,
         \A m \in Ids : \A c \in Up(current_dir) : Has(kids[m], c) => Has(ks[m], c)
  PROVE  CurrentDirIsLinked'
<1> DEFINE S == Up(current_dir)
<1>1. /\ S \in SUBSET Cells /\ current_dir \in S
      /\ \A m \in S : /\ m \in nodes /\ m \in Ids /\ type[m] = "dir"
                      /\ m # root => /\ Has(kids[parent[m]], m)
                                     /\ parent[m] \in S /\ parent[m] \in Ids
  BY CurrentFacts
<1>2. \A m \in S : m \notin dead
  OBVIOUS
<1>3. \A m \in Ids : \A c \in S : Has(kids[m], c) => Has(ks[m], c)
  OBVIOUS
<1> HIDE DEF S
<1>4. \A c \in S \ {root, NULL} : parent'[c] \in S
  BY <1>1, <1>2
<1>5. ASSUME NEW m \in S, m # root PROVE Has(kids'[parent'[m]], m)
  <2>1. /\ parent'[m] = parent[m] /\ parent[m] \in Ids \ dead
        /\ Has(ks[parent[m]], m)
    BY <1>1, <1>2, <1>3, <1>5
  <2> QED
    BY <2>1
<1>6. \A m \in S : m \in nodes'
  BY <1>1, <1>2
<1>7. type'[current_dir'] = "dir"
  BY <1>1, <1>2
<1> QED
  BY <1>1, <1>4, <1>5, <1>6, <1>7, LinkedNext

(* The end of vfs_rm and vfs_rmdir.                                        *)
LEMMA RemoveOneInv ==
  ASSUME Inv, NEW n \in nodes, n # root, n # current_dir, \A c : ~Has(kids[n], c),
         Free({n}, Unlinked(n)), UNCHANGED <<current_dir, sudo_mode, status>>
  PROVE  Inv'
<1> DEFINE ks == Unlinked(n)
<1>1. /\ n \in Ids /\ ks \in [Ids -> Seq(Ids)]
      /\ \A m \in Ids : NoTwice(ks[m]) /\ ~Has(ks[m], n)
      /\ \A m \in Ids : \A c : Has(ks[m], c) => Has(kids[m], c)
      /\ \A m \in Ids : \A c : c # n /\ Has(kids[m], c) => Has(ks[m], c)
  BY UnlinkedFacts DEF Inv, TypeOK
<1>2. Free({n}, ks)
  OBVIOUS
<1> HIDE DEF ks
<1>3. /\ current_dir' \in Ids /\ sudo_mode' \in BOOLEAN /\ status' \in {"ok", "hung", "fault"}
      /\ current_dir' = current_dir
  BY DEF Inv, TypeOK
<1>4. /\ TypeOK' /\ TreeShape' /\ nodes' = nodes \ {n}
      /\ \A m \in Ids \ {n} : kids'[m] = ks[m] /\ parent'[m] = parent[m] /\ type'[m] = type[m]
  <2> DEFINE dead == {n}
  <2>1. dead \in SUBSET Ids /\ root \notin dead
    BY <1>1
  <2>2. \A m \in Ids : NoTwice(ks[m])
    BY <1>1
  <2>3. \A m \in Ids \ dead : \A c : Has(ks[m], c) => c \notin dead
    BY <1>1
  <2>4. Free(dead, ks)
    BY <1>2
  <2> HIDE DEF dead
  <2>5. /\ TypeOK' /\ TreeShape' /\ nodes' = nodes \ dead
        /\ \A m \in Ids \ dead : /\ kids'[m] = ks[m] /\ parent'[m] = parent[m]
                                 /\ type'[m] = type[m] /\ name'[m] = name[m] /\ data'[m] = data[m]
    BY <1>1, <1>3, <2>1, <2>2, <2>3, <2>4, FreeTree
  <2> QED
    BY <2>5 DEF dead
<1>5. \A m \in Up(current_dir) : m \notin {n}
  BY CurrentFacts
<1>6. CurrentDirIsLinked'
  BY <1>1, <1>3, <1>4, <1>5, FreeLinked
<1> QED
  BY <1>4, <1>6 DEF Inv

(* What is below n in the tree without n: no chain leads into it.          *)
LEMMA BelowUnlinked ==
  ASSUME Inv, NEW n \in nodes, n # root
  PROVE  LET dead == Below(Unlinked(n), n)
         IN  /\ dead \in SUBSET Ids /\ root \notin dead /\ n \in dead
             /\ \A m \in Ids \ dead : \A c : Has(Unlinked(n)[m], c) => c \notin dead
             /\ n \notin Up(current_dir) => \A m \in Up(current_dir) : m \notin dead
<1> DEFINE ks   == Unlinked(n)
           dead == Below(ks, n)
<1>1. /\ n \in Ids /\ ks \in [Ids -> Seq(Ids)]
      /\ \A m \in Ids : ~Has(ks[m], n)
      /\ \A m \in Ids : \A c : Has(ks[m], c) => Has(kids[m], c)
  BY UnlinkedFacts DEF Inv, TypeOK
<1>2. \A m \in Ids : \A c : Has(ks[m], c) => c \in Ids \ {root} /\ parent[c] = m
  BY <1>1, ShapeFacts DEF Inv
<1> HIDE DEF ks
<1>3. /\ dead \in SUBSET Ids /\ n \in dead
      /\ \A m \in dead : \A c : Has(ks[m], c) => c \in dead
      /\ \A S \in SUBSET Ids : n \in S /\ (\A m \in S : \A c : Has(ks[m], c) => c \in S)
            => dead \subseteq S
  BY <1>1, BelowFacts
<1>4. root \notin dead
  <2> DEFINE S == Ids \ {root}
  <2>1. S \in SUBSET Ids /\ n \in S /\ \A m \in S : \A c : Has(ks[m], c) => c \in S
    BY <1>1, <1>2
  <2> QED
    BY <1>3, <2>1
<1>5. ASSUME NEW m \in Ids \ dead, NEW c, Has(ks[m], c), c \in dead PROVE FALSE
  <2>1. c # n
    BY <1>1, <1>5
  <2>2. PICK x \in dead : Has(ks[x], c)
    BY <1>1, <1>5, <2>1, BelowCause
  <2>3. x = m
    BY <1>2, <1>3, <1>5, <2>2
  <2> QED
    BY <1>5, <2>2, <2>3
<1>6. ASSUME n \notin Up(current_dir) PROVE \A m \in Up(current_dir) : m \notin dead
  <2> DEFINE U == Up(current_dir)
             S == dead \ U
  <2>1. \A m \in U : m # root => parent[m] \in U
    BY CurrentFacts
  <2>2. n \in S /\ S \in SUBSET Ids
    BY <1>3, <1>6
  <2> HIDE DEF U
  <2>3. \A m \in S : \A c : Has(ks[m], c) => c \in S
    BY <1>2, <1>3, <2>1
  <2>4. dead \subseteq S
    BY <1>3, <2>2, <2>3
  <2> QED
    BY <2>4 DEF U
<1> QED
  BY <1>3, <1>4, <1>5, <1>6 DEF ks

(* The end of vfs_rm_r: everything below n is freed, or nothing.           *)
LEMMA RemoveTreeInv ==
  ASSUME Inv, NEW n \in nodes, n # root,
         Leave(n), Free(FreedBy(Unlinked(n), n), Unlinked(n)), UNCHANGED <<sudo_mode, status>>
  PROVE  Inv'
<1> DEFINE ks   == Unlinked(n)
           dead == FreedBy(ks, n)
<1>1. /\ n \in Ids /\ ks \in [Ids -> Seq(Ids)]
      /\ \A m \in Ids : NoTwice(ks[m])
      /\ \A m \in Ids : \A c : Has(ks[m], c) => Has(kids[m], c)
      /\ \A m \in Ids : \A c : c # n /\ Has(kids[m], c) => Has(ks[m], c)
  BY UnlinkedFacts DEF Inv, TypeOK
<1>2. /\ dead \in SUBSET Ids /\ root \notin dead
      /\ \A m \in Ids \ dead : \A c : Has(ks[m], c) => c \notin dead
      /\ n \notin Up(current_dir) => \A m \in Up(current_dir) : m \notin dead
  <2>1. CASE dead = {}
    BY <2>1
  <2>2. CASE dead = Below(ks, n)
    BY <2>2, BelowUnlinked
  <2>3. dead = {} \/ dead = Below(ks, n)
    BY DEF FreedBy
  <2> QED
    BY <2>1, <2>2, <2>3
<1>3. Free(dead, ks)
  OBVIOUS
<1> HIDE DEF ks, dead
<1>4. /\ current_dir' \in Ids /\ sudo_mode' \in BOOLEAN /\ status' \in {"ok", "hung", "fault"}
  BY Sizes DEF Inv, TypeOK, Leave
<1>5. /\ TypeOK' /\ TreeShape' /\ nodes' = nodes \ dead
      /\ \A m \in Ids \ dead : /\ kids'[m] = ks[m] /\ parent'[m] = parent[m]
                               /\ type'[m] = type[m] /\ name'[m] = name[m] /\ data'[m] = data[m]
  <2>1. /\ dead \in SUBSET Ids /\ root \notin dead
        /\ \A m \in Ids \ dead : \A c : Has(ks[m], c) => c \notin dead
    BY <1>2
  <2>2. /\ \A m \in Ids : NoTwice(ks[m])
        /\ \A m \in Ids : \A c : Has(ks[m], c) => Has(kids[m], c)
        /\ ks \in [Ids -> Seq(Ids)]
    BY <1>1
  <2> QED
    BY <1>3, <1>4, <2>1, <2>2, FreeTree
<1>6. CASE Meets(current_dir, n)
  <2>1. current_dir' = root
    BY <1>6 DEF Leave
  <2>2. root \in nodes' /\ type'[root] = "dir"
    BY <1>5 DEF TreeShape
  <2> QED
    BY <1>5, <2>1, <2>2, RootLinkedNext DEF Inv
<1>7. CASE ~Meets(current_dir, n)
  <2>1. current_dir' = current_dir /\ n \notin Up(current_dir)
    BY <1>7 DEF Leave, Meets
  <2>2. \A m \in Up(current_dir) : m \notin dead /\ m # n
    BY <1>2, <2>1
  <2>3. \A m \in Ids : \A c \in Up(current_dir) : Has(kids[m], c) => Has(ks[m], c)
    BY <1>1, <2>2
  <2>4. CurrentDirIsLinked'
    BY <1>2, <1>5, <2>1, <2>2, <2>3, FreeLinked
  <2> QED
    BY <1>5, <2>4 DEF Inv
<1> QED
  BY <1>6, <1>7

(* The end of vfs_rm_r on root: everything below it is freed.              *)
LEMMA RemoveAllInv ==
  ASSUME Inv, current_dir' = root,
         Free(Below(kids, root) \ {root}, [kids EXCEPT ![root] = <<>>]),
         UNCHANGED <<sudo_mode, status>>
  PROVE  Inv'
<1> DEFINE ks   == [kids EXCEPT ![root] = <<>>]
           dead == Below(kids, root) \ {root}
<1>1. kids \in [Ids -> Seq(Ids)] /\ root \in Ids
  BY Sizes DEF Inv, TypeOK
<1>2. /\ ks \in [Ids -> Seq(Ids)] /\ ks[root] = <<>>
      /\ \A m \in Ids : m # root => ks[m] = kids[m]
  BY <1>1
<1>3. Free(dead, ks)
  OBVIOUS
<1> HIDE DEF ks
<1>4. NoTwice(<<>>) /\ \A c : ~Has(<<>>, c)
  BY DEF NoTwice, Has
<1>5. ASSUME NEW m \in Ids
      PROVE  NoTwice(ks[m]) /\ \A c : Has(ks[m], c) => Has(kids[m], c)
  <2>1. CASE m = root
    BY <1>2, <1>4, <2>1
  <2>2. CASE m # root
    BY <1>2, <2>2, ShapeFacts DEF Inv
  <2> QED
    BY <2>1, <2>2
<1>6. Below(kids, root) \in SUBSET Ids
  BY <1>1, BelowFacts
<1>7. ASSUME NEW m \in Ids \ dead, NEW c, Has(ks[m], c), c \in dead PROVE FALSE
  <2>1. m # root /\ m \notin Below(kids, root) /\ Has(kids[m], c)
    BY <1>2, <1>4, <1>7
  <2>2. PICK x \in Below(kids, root) : Has(kids[x], c)
    BY <1>1, <1>7, BelowCause
  <2>3. parent[c] = m /\ parent[c] = x
    BY <1>6, <2>1, <2>2, ShapeFacts DEF Inv
  <2> QED
    BY <2>1, <2>2, <2>3
<1>8. dead \in SUBSET Ids /\ root \notin dead
  BY <1>6
<1> HIDE DEF dead
<1>9. /\ current_dir' \in Ids /\ sudo_mode' \in BOOLEAN /\ status' \in {"ok", "hung", "fault"}
  BY <1>1 DEF Inv, TypeOK
<1>10. TypeOK' /\ TreeShape'
  BY <1>2, <1>3, <1>5, <1>7, <1>8, <1>9, FreeTree
<1>11. root \in nodes' /\ type'[root] = "dir"
  BY <1>10 DEF TreeShape
<1> QED
  BY <1>10, <1>11, RootLinkedNext DEF Inv

(* A node changes its place: it becomes the first child of d, whoever had  *)
(* it before.  mv does it with any d, and a renaming with the parent.      *)
LEMMA Relink ==
  ASSUME Inv, NEW n \in nodes, n # root, NEW d \in nodes, type[d] = "dir", Anchored(d),
         kids' = [Unlinked(n) EXCEPT ![d] = Insert(@, n)],
         parent'[n] = d, \A m \in Ids : m # n => parent'[m] = parent[m],
         UNCHANGED <<nodes, type, current_dir>>
  PROVE  kids' \in [Ids -> Seq(Ids)] /\ TreeShape' /\ CurrentDirIsLinked'
<1> DEFINE ks == Unlinked(n)
           w  == Insert(ks[d], n)
<1>1. /\ n \in Ids /\ d \in Ids /\ ks \in [Ids -> Seq(Ids)]
      /\ \A m \in Ids : NoTwice(ks[m]) /\ ~Has(ks[m], n)
      /\ \A m \in Ids : \A c : Has(ks[m], c) => Has(kids[m], c)
      /\ \A m \in Ids : \A c : c # n /\ Has(kids[m], c) => Has(ks[m], c)
  BY UnlinkedFacts DEF Inv, TypeOK
<1>2. kids' = [ks EXCEPT ![d] = w]
  OBVIOUS
<1>3. /\ w \in Seq(Ids) /\ NoTwice(w)
      /\ \A c : Has(w, c) <=> Has(ks[d], c) \/ c = n
  <2> HIDE DEF ks
  <2>1. ks[d] \in Seq(Ids) /\ NoTwice(ks[d]) /\ ~Has(ks[d], n)
    BY <1>1
  <2> QED
    BY <1>1, <2>1, InsertChain
<1> HIDE DEF w, ks
<1>4. /\ kids' \in [Ids -> Seq(Ids)] /\ kids'[d] = w
      /\ \A m \in Ids : m # d => kids'[m] = ks[m]
  <2>1. d \in Ids /\ ks \in [Ids -> Seq(Ids)] /\ w \in Seq(Ids)
    BY <1>1, <1>3
  <2>2. kids' \in [Ids -> Seq(Ids)] /\ kids'[d] = w
    BY <1>2, <2>1
  <2>3. \A m \in Ids : m # d => kids'[m] = ks[m]
    BY <1>2, <2>1
  <2> QED
    BY <2>2, <2>3
<1>5. /\ nodes' = nodes /\ type' = type /\ current_dir' = current_dir
      /\ \A m \in Ids : m # n => parent'[m] = parent[m]
      /\ parent'[n] = d
  OBVIOUS
<1>6. ASSUME NEW m \in Ids, NEW c
      PROVE  Has(kids'[m], c) <=> Has(ks[m], c) \/ (m = d /\ c = n)
  <2>1. CASE m = d
    BY <1>3, <1>4, <2>1
  <2>2. CASE m # d
    BY <1>4, <2>2
  <2> QED
    BY <2>1, <2>2
<1>7. /\ root \in nodes /\ type[root] = "dir" /\ parent[root] = root /\ root \in Ids
      /\ \A m \in Ids : \A c : Has(kids[m], c) =>
            m \in nodes /\ type[m] = "dir" /\ c \in nodes \ {root} /\ c \in Ids /\ parent[c] = m
  BY ShapeFacts, Sizes DEF Inv
<1>8. TreeShape'
  <2>1. root \in nodes' /\ type'[root] = "dir" /\ parent'[root] = root
    BY <1>5, <1>7
  <2>2. ASSUME NEW m \in Ids PROVE NoTwice(kids'[m])
    <3>1. CASE m = d
      BY <1>3, <1>4, <3>1
    <3>2. CASE m # d
      BY <1>1, <1>4, <3>2
    <3> QED
      BY <3>1, <3>2
  <2>3. ASSUME NEW m \in Ids, NEW c, Has(kids'[m], c)
        PROVE  m \in nodes' /\ type'[m] = "dir" /\ c \in nodes' \ {root} /\ parent'[c] = m
    <3>1. CASE Has(ks[m], c)
      <4>1. c # n /\ Has(kids[m], c)
        BY <1>1, <3>1
      <4> QED
        BY <1>5, <1>7, <4>1
    <3>2. CASE m = d /\ c = n
      BY <1>5, <3>2
    <3> QED
      BY <1>6, <2>3, <3>1, <3>2
  <2> QED
    BY <2>1, <2>2, <2>3, ShapeNext
<1>9. CurrentDirIsLinked'
  <2> DEFINE C == Up(current_dir)
             D == Up(d)
             S == C \cup D
  <2>1. /\ C \in SUBSET Cells /\ current_dir \in C /\ type[current_dir] = "dir"
        /\ \A m \in C : /\ m \in nodes /\ m \in Ids
                        /\ m # root => /\ Has(kids[parent[m]], m)
                                       /\ parent[m] \in C /\ parent[m] \in Ids
    BY CurrentFacts
  <2>2. d \in Cells
    BY <1>1 DEF Cells
  <2>3. /\ D \in SUBSET Cells /\ d \in D
        /\ \A m \in D : /\ m \in nodes /\ m \in Ids
                        /\ m # root => /\ Has(kids[parent[m]], m) /\ parent[m] \in D
    <3>1. D \in SUBSET Cells /\ d \in D /\ UpClosed(D)
      BY <2>2, UpFacts DEF Inv
    <3>2. \A m \in D : m \in nodes /\ (m = root \/ Has(kids[parent[m]], m))
      BY DEF Anchored
    <3>3. \A m \in nodes : m \in Ids /\ m # NULL
      BY DEF Inv, TypeOK, Ids, NULL
    <3> HIDE DEF D
    <3> QED
      BY <3>1, <3>2, <3>3 DEF UpClosed
  <2> HIDE DEF C, D
  <2>4. ASSUME NEW m \in D, m # root PROVE parent[m] \in Ids
    <3>1. parent[m] \in Cells /\ parent[m] \in nodes
      BY <2>3, <2>4
    <3> QED
      BY <3>1 DEF Inv, TypeOK
  <2>5. \A m \in S : /\ m \in nodes /\ m \in Ids
                     /\ m # root => /\ Has(kids[parent[m]], m)
                                    /\ parent[m] \in S /\ parent[m] \in Ids
    BY <2>1, <2>3, <2>4
  <2>6. S \in SUBSET Cells /\ current_dir \in S /\ d \in S
    BY <2>1, <2>3
  <2> HIDE DEF S
  <2>7. \A c \in S \ {root, NULL} : parent'[c] \in S
    BY <1>5, <2>5, <2>6
  <2>8. ASSUME NEW m \in S, m # root PROVE Has(kids'[parent'[m]], m)
    <3>1. CASE m = n
      BY <1>1, <1>5, <1>6, <3>1
    <3>2. CASE m # n
      <4>1. parent'[m] = parent[m] /\ parent[m] \in Ids /\ Has(ks[parent[m]], m)
        BY <1>1, <1>5, <2>5, <2>8, <3>2
      <4> QED
        BY <1>6, <4>1
    <3> QED
      BY <3>1, <3>2
  <2> QED
    BY <1>5, <2>1, <2>5, <2>6, <2>7, <2>8, LinkedNext
<1> QED
  BY <1>4, <1>8, <1>9

LEMMA MoveIntoInv ==
  ASSUME Inv, NEW n \in nodes, n # root, NEW d \in nodes, type[d] = "dir", Anchored(d),
         MoveInto(n, d)
  PROVE  Inv'
<1>1. n \in Ids /\ d \in Ids /\ parent \in [Ids -> Ids \cup {NULL}]
  BY DEF Inv, TypeOK
<1>2. /\ parent' = [parent EXCEPT ![n] = d]
      /\ UNCHANGED <<nodes, name, type, data, current_dir, sudo_mode, status>>
      /\ kids' = [Unlinked(n) EXCEPT ![d] = Insert(@, n)]
  BY DEF MoveInto
<1>3. /\ parent' \in [Ids -> Ids \cup {NULL}] /\ parent'[n] = d
      /\ \A m \in Ids : m # n => parent'[m] = parent[m]
  BY <1>1, <1>2
<1>4. kids' \in [Ids -> Seq(Ids)] /\ TreeShape' /\ CurrentDirIsLinked'
  BY <1>2, <1>3, Relink
<1> QED
  BY <1>2, <1>3, <1>4 DEF Inv, TypeOK

LEMMA RenameInv ==
  ASSUME Inv, NEW n \in nodes, n # root, Anchored(n), NEW nm \in Seq(Words),
         Rename(n, nm)
  PROVE  Inv'
<1> DEFINE d == parent[n]
<1>1. n \in Ids
  BY DEF Inv, TypeOK
<1>2. d \in nodes /\ type[d] = "dir" /\ Anchored(d)
  BY <1>1, AnchoredFacts DEF Inv
<1>3. /\ name' = [name EXCEPT ![n] = nm]
      /\ UNCHANGED <<nodes, parent, type, data, current_dir, sudo_mode, status>>
      /\ kids' = [Unlinked(n) EXCEPT ![d] = Insert(@, n)]
  BY DEF Rename
<1>4. parent'[n] = d /\ \A m \in Ids : m # n => parent'[m] = parent[m]
  BY <1>3
<1> HIDE DEF d
<1>5. kids' \in [Ids -> Seq(Ids)] /\ TreeShape' /\ CurrentDirIsLinked'
  BY <1>2, <1>3, <1>4, Relink
<1>6. name' \in [Ids -> Seq(Words)]
  BY <1>3 DEF Inv, TypeOK
<1> QED
  BY <1>3, <1>5, <1>6 DEF Inv, TypeOK

(* Calls that change neither the tree nor where the user is in it.         *)
LEMMA SameTreeInv ==
  ASSUME Inv, UNCHANGED <<nodes, kids, parent, name, type, current_dir>>,
         data' \in [Ids -> {None} \cup 1..MaxData], sudo_mode' \in BOOLEAN,
         status' \in {"ok", "hung", "fault"}
  PROVE  Inv'
<1>1. TypeOK'
  BY DEF Inv, TypeOK
<1>2. TreeShape'
  BY DEF Inv, TreeShape
<1>3. CurrentDirIsLinked'
  BY DEF Inv, CurrentDirIsLinked, Up, UpClosed
<1> QED
  BY <1>1, <1>2, <1>3 DEF Inv

LEMMA InitInv == Init => Inv
<1> SUFFICES ASSUME Init PROVE Inv
  OBVIOUS
<1> DEFINE L == Len(TopDirs)
<1>1. /\ L \in Nat /\ L > 0 /\ InitNodes \subseteq Ids
      /\ root \in Ids /\ 2 \in Ids /\ L + 2 \in Ids /\ InitNodes = 1..(L + 2)
  BY Sizes DEF InitNodes
<1>2. /\ nodes = InitNodes /\ current_dir = L + 2 /\ sudo_mode = FALSE /\ status = "ok"
      /\ type = [n \in Ids |-> "dir"] /\ data = [n \in Ids |-> None]
      /\ kids = [n \in Ids |-> IF n = root THEN [i \in 1..L |-> i + 1]
                               ELSE IF n = 2 THEN <<L + 2>> ELSE <<>>]
      /\ parent = [n \in Ids |-> IF n = L + 2 THEN 2
                                 ELSE IF n \in InitNodes THEN root ELSE NULL]
  BY DEF Init
<1>3. name \in [Ids -> Seq(Words)]
  <2>1. name = [n \in Ids |-> IF n = root THEN <<"/">>
                              ELSE IF n = L + 2 THEN <<"root">>
                              ELSE IF n \in InitNodes THEN <<TopDirs[n - 1]>>
                              ELSE <<>>]
    BY Zenon DEF Init
  <2>2. \A w \in Words : <<w>> \in Seq(Words)
    OBVIOUS
  <2>3. "/" \in Words /\ "root" \in Words /\ TopDirs \in Seq(Words)
    <3>1. {"", "/", "~", "root"} \subseteq Words /\ TopDirs \in Seq(Words)
      BY VfsAssumption, Zenon
    <3> QED
      BY <3>1, Zenon
  <2>4. <<"/">> \in Seq(Words) /\ <<"root">> \in Seq(Words)
    BY <2>2, <2>3, Zenon
  <2>5. \A n \in InitNodes : n # root /\ n # L + 2 => n - 1 \in 1..L
    BY <1>1 DEF root
  <2>6. \A n \in InitNodes : n # root /\ n # L + 2 => <<TopDirs[n - 1]>> \in Seq(Words)
    BY <2>2, <2>3, <2>5
  <2>7. <<>> \in Seq(Words)
    OBVIOUS
  <2> DEFINE slash == <<"/">>
             rt == <<"root">>
  <2> HIDE DEF slash, rt
  <2>8. name = [n \in Ids |-> IF n = root THEN slash
                              ELSE IF n = L + 2 THEN rt
                              ELSE IF n \in InitNodes THEN <<TopDirs[n - 1]>>
                              ELSE <<>>]
    BY <2>1, Zenon DEF slash, rt
  <2>9. slash \in Seq(Words) /\ rt \in Seq(Words)
    BY <2>4, Zenon DEF slash, rt
  <2> QED
    BY <2>6, <2>7, <2>8, <2>9
<1> HIDE DEF L
<1> DEFINE top == [i \in 1..L |-> i + 1]
           one == <<L + 2>>
<1>4. /\ top \in Seq(Ids) /\ Len(top) = L /\ \A i \in 1..L : top[i] = i + 1
      /\ one \in Seq(Ids) /\ Len(one) = 1 /\ one[1] = L + 2
      /\ <<>> \in Seq(Ids) /\ Len(<<>>) = 0
  <2>1. \A i \in 1..L : i + 1 \in Ids
    BY <1>1
  <2> QED
    BY <1>1, <2>1
<1>5. kids = [n \in Ids |-> IF n = root THEN top ELSE IF n = 2 THEN one ELSE <<>>]
  BY <1>2
<1> HIDE DEF top, one
<1>6. /\ kids \in [Ids -> Seq(Ids)] /\ kids[root] = top /\ kids[2] = one
      /\ \A n \in Ids : n # root /\ n # 2 => kids[n] = <<>>
  BY <1>1, <1>4, <1>5 DEF root
<1>7. /\ parent \in [Ids -> Ids \cup {NULL}] /\ parent[L + 2] = 2
      /\ \A n \in InitNodes : n # L + 2 => parent[n] = root
  BY <1>1, <1>2
<1>8. TypeOK
  <2>1. root \in nodes
    BY <1>1, <1>2 DEF root
  <2>2. type \in [Ids -> {"dir", "file"}]
    BY <1>2
  <2>3. data \in [Ids -> {None} \cup 1..MaxData]
    BY <1>2
  <2>4. status \in {"ok", "hung", "fault"}
    BY <1>2
  <2> QED
    BY <1>1, <1>2, <1>3, <1>6, <1>7, <2>1, <2>2, <2>3, <2>4 DEF TypeOK
<1>9. TreeShape
  <2>1. root \in nodes /\ type[root] = "dir" /\ parent[root] = root
    BY <1>1, <1>2, <1>7 DEF root
  <2>2. ASSUME NEW n \in Ids
        PROVE  /\ NoTwice(kids[n])
               /\ \A i \in 1..Len(kids[n]) : /\ n \in nodes
                                             /\ type[n] = "dir"
                                             /\ kids[n][i] \in nodes \ {root}
                                             /\ parent[kids[n][i]] = n
    <3>1. CASE n = root
      <4>1. NoTwice(top)
        BY <1>1, <1>4 DEF NoTwice
      <4>2. ASSUME NEW i \in 1..L
            PROVE  top[i] \in InitNodes \ {root} /\ parent[top[i]] = root
        <5>1. top[i] = i + 1 /\ i + 1 \in InitNodes /\ i + 1 # root /\ i + 1 # L + 2
          BY <1>1, <1>4 DEF root
        <5> QED
          BY <1>7, <5>1
      <4> QED
        BY <1>1, <1>2, <1>4, <1>6, <2>1, <3>1, <4>1, <4>2
    <3>2. CASE n = 2
      <4>1. NoTwice(one)
        BY <1>4 DEF NoTwice
      <4>2. 2 \in InitNodes /\ L + 2 \in InitNodes /\ L + 2 # root
        BY <1>1 DEF root
      <4>3. \A i \in 1..1 : i = 1
        OBVIOUS
      <4> QED
        BY <1>1, <1>2, <1>4, <1>6, <1>7, <3>2, <4>1, <4>2, <4>3
    <3>3. CASE n # root /\ n # 2
      <4>1. kids[n] = <<>>
        BY <1>6, <3>3
      <4> QED
        BY <4>1 DEF NoTwice
    <3> QED
      BY <3>1, <3>2, <3>3
  <2> QED
    BY <2>1, <2>2 DEF TreeShape
<1>10. CurrentDirIsLinked
  <2> DEFINE S == {L + 2, 2, root}
  <2>1. S \in SUBSET Cells /\ current_dir \in S
    BY <1>1, <1>2 DEF Cells
  <2>2. parent[2] = root
    BY <1>1, <1>7
  <2>3. UpClosed(S)
    BY <1>7, <2>2 DEF UpClosed
  <2>4. Has(kids[2], L + 2) /\ Has(kids[root], 2)
    <3>1. top[1] = 2 /\ 1 \in 1..Len(top) /\ one[1] = L + 2 /\ 1 \in 1..Len(one)
      BY <1>1, <1>4
    <3>2. Has(top, 2) /\ Has(one, L + 2)
      BY <3>1, Zenon DEF Has
    <3> QED
      BY <1>6, <3>2
  <2>5. ASSUME NEW n \in S PROVE n \in nodes /\ (n = root \/ Has(kids[parent[n]], n))
    <3>1. L + 2 \in nodes /\ 2 \in nodes /\ root \in nodes
      BY <1>1, <1>2 DEF root
    <3>2. Has(kids[parent[L + 2]], L + 2) /\ Has(kids[parent[2]], 2)
      BY <1>7, <2>2, <2>4
    <3> QED
      BY <3>1, <3>2
  <2>6. Up(current_dir) \subseteq S
    BY <2>1, <2>3 DEF Up
  <2>7. type[current_dir] = "dir"
    BY <1>1, <1>2
  <2> QED
    BY <2>5, <2>6, <2>7 DEF CurrentDirIsLinked
<1> QED
  BY <1>8, <1>9, <1>10 DEF Inv

(* What is known of a node that a path leads to.                           *)
LEMMA ReachedFacts ==
  ASSUME Inv, NEW n \in Reached, n # NULL
  PROVE  /\ n \in Ids /\ n \in nodes /\ Anchored(n)
         /\ Meets(current_dir, root) => Meets(n, root)
<1>1. n \in Ids /\ Anchored(n) /\ (Meets(current_dir, root) => Meets(n, root))
  BY DEF Reached
<1> QED
  BY <1>1, AnchoredFacts DEF Inv

LEMMA NodesAreIds ==
  ASSUME Inv, NEW n \in nodes
  PROVE  n \in Ids /\ n # NULL /\ data[n] \in {None} \cup 1..MaxData /\ name[n] \in Seq(Words)
BY DEF Inv, TypeOK, Ids, NULL

LEMMA HangInv ==
  ASSUME Inv, Hang
  PROVE  Inv'
<1>1. data' \in [Ids -> {None} \cup 1..MaxData] /\ sudo_mode' \in BOOLEAN
  BY DEF Hang, tree, Inv, TypeOK
<1> QED
  BY <1>1, SameTreeInv DEF Hang, tree

LEMMA CreateAtInv ==
  ASSUME Inv, NEW p \in Path, NEW t \in {"dir", "file"}, NEW len \in {None} \cup 1..MaxData,
         CreateAt(p, t, len)
  PROVE  Inv'
<1>1. PICK d \in nodes : type[d] = "dir" /\ Checked(d, Create(d, NamePart(p), t, len))
  BY DEF CreateAt
<1>2. CASE Hang
  BY <1>2, HangInv
<1>3. CASE Create(d, NamePart(p), t, len)
  BY <1>1, <1>3, ResolveReached, CreateInv
<1> QED
  BY <1>1, <1>2, <1>3 DEF Checked

LEMMA CdInv ==
  ASSUME Inv, NEW p \in Path, Cd(p)
  PROVE  Inv'
<1>1. PICK d \in nodes : d = Resolve(p) /\ type[d] = "dir" /\ current_dir' = d
  BY DEF Cd
<1>2. /\ UNCHANGED <<sudo_mode, status>>
      /\ UNCHANGED <<nodes, kids, parent, name, type, data>>
  BY DEF Cd, tree
<1>3. d \in Ids /\ d # NULL
  BY NodesAreIds
<1>4. Anchored(d)
  BY <1>1, <1>3, ResolveReached, ReachedFacts
<1>5. TypeOK' /\ TreeShape'
  BY <1>1, <1>2, <1>3 DEF Inv, TypeOK, TreeShape
<1>6. Up(current_dir)' = Up(d)
  BY <1>1, <1>2 DEF Up, UpClosed
<1>7. CurrentDirIsLinked'
  BY <1>1, <1>2, <1>4, <1>6 DEF CurrentDirIsLinked, Anchored
<1> QED
  BY <1>5, <1>7 DEF Inv

LEMMA RmInv ==
  ASSUME Inv, NEW p \in Path, Rm(p)
  PROVE  Inv'
<1>1. PICK d \in nodes, n \in nodes :
        /\ d = DirPart(p) /\ n = FindChild(d, NamePart(p))
        /\ Checked(n, /\ type[n] = "file"
                      /\ Free({n}, Unlinked(n))
                      /\ UNCHANGED <<current_dir, sudo_mode, status>>)
  BY DEF Rm
<1>2. CASE Hang
  BY <1>2, HangInv
<1>3. CASE /\ type[n] = "file"
           /\ Free({n}, Unlinked(n))
           /\ UNCHANGED <<current_dir, sudo_mode, status>>
  <2>1. d \in Reached \ {NULL} /\ n # NULL
    BY <1>1, ResolveReached, NodesAreIds
  <2>2. n # root
    BY <1>1, <2>1, FindReached
  <2>3. n # current_dir /\ \A c : ~Has(kids[n], c)
    BY <1>3, NodesAreIds, ShapeFacts, CurrentFacts DEF Inv
  <2> QED
    BY <1>3, <2>2, <2>3, RemoveOneInv
<1> QED
  BY <1>1, <1>2, <1>3 DEF Checked

LEMMA RmdirInv ==
  ASSUME Inv, NEW p \in Path, Rmdir(p)
  PROVE  Inv'
<1>1. PICK n \in nodes :
        /\ RmdirAllowed(n)
        /\ Checked(n, /\ Free({n}, Unlinked(n))
                      /\ UNCHANGED <<current_dir, sudo_mode, status>>)
  BY DEF Rmdir
<1>2. CASE Hang
  BY <1>2, HangInv
<1>3. CASE /\ Free({n}, Unlinked(n))
           /\ UNCHANGED <<current_dir, sudo_mode, status>>
  <2>1. n # root /\ n # current_dir /\ \A c : ~Has(kids[n], c)
    BY <1>1 DEF RmdirAllowed, Has
  <2> QED
    BY <1>3, <2>1, RemoveOneInv
<1> QED
  BY <1>1, <1>2, <1>3 DEF Checked

LEMMA RmRInv ==
  ASSUME Inv, NEW p \in Path, RmR(p)
  PROVE  Inv'
<1>1. PICK n \in nodes :
        /\ n # root
        /\ \/ Hang
           \/ /\ Leave(n)
              /\ Free(FreedBy(Unlinked(n), n), Unlinked(n))
              /\ UNCHANGED <<sudo_mode, status>>
  BY DEF RmR, Checked
<1> QED
  BY <1>1, HangInv, RemoveTreeInv

LEMMA RmAllInv ==
  ASSUME Inv, NEW p \in Path, RmAll(p)
  PROVE  Inv'
<1>1. \/ Hang
      \/ /\ current_dir' = root
         /\ Free(Below(kids, root) \ {root}, [kids EXCEPT ![root] = <<>>])
         /\ UNCHANGED <<sudo_mode, status>>
  BY DEF RmAll, Checked
<1> QED
  BY <1>1, HangInv, RemoveAllInv

LEMMA MvInv ==
  ASSUME Inv, NEW src \in Path, NEW dst \in Path, Mv(src, dst)
  PROVE  Inv'
<1>1. PICK n \in nodes :
        /\ n = Resolve(src) /\ n # root
        /\ \/ Hang
           \/ \E d \in nodes : d = Resolve(dst) /\ type[d] = "dir" /\ Checked(d, MoveInto(n, d))
           \/ Rename(n, WholeName(dst))
  BY DEF Mv, Checked
<1>2. Anchored(n)
  BY <1>1, NodesAreIds, ResolveReached, ReachedFacts
<1>3. CASE Hang
  BY <1>3, HangInv
<1>4. CASE \E d \in nodes : d = Resolve(dst) /\ type[d] = "dir" /\ Checked(d, MoveInto(n, d))
  <2>1. PICK d \in nodes : /\ d = Resolve(dst) /\ type[d] = "dir"
                           /\ Hang \/ MoveInto(n, d)
    BY <1>4 DEF Checked
  <2>2. Anchored(d)
    BY <2>1, NodesAreIds, ResolveReached, ReachedFacts
  <2> QED
    BY <1>1, <2>1, <2>2, HangInv, MoveIntoInv
<1>5. CASE Rename(n, WholeName(dst))
  BY <1>1, <1>2, <1>5, ResolveReached, RenameInv
<1> QED
  BY <1>1, <1>3, <1>4, <1>5

LEMMA WriteInv ==
  ASSUME Inv, NEW p \in Path, NEW append \in BOOLEAN, Write(p, append)
  PROVE  Inv'
<1>1. MaxData \in Nat \ {0}
  BY VfsAssumption, Zenon
<1>2. CASE CreateAt(p, "file", 1)
  BY <1>1, <1>2, CreateAtInv
<1>3. CASE \E n \in nodes : WriteTo(n, append)
  <2>1. PICK n \in nodes :
          \/ Hang
          \/ /\ data' = [data EXCEPT ![n] = IF append /\ @ # None THEN @ + 1 ELSE 1]
             /\ data'[n] <= MaxData
             /\ UNCHANGED <<nodes, kids, parent, name, type, current_dir, sudo_mode, status>>
    BY <1>3 DEF WriteTo, Checked
  <2>2. CASE /\ data' = [data EXCEPT ![n] = IF append /\ @ # None THEN @ + 1 ELSE 1]
             /\ data'[n] <= MaxData
             /\ UNCHANGED <<nodes, kids, parent, name, type, current_dir, sudo_mode, status>>
    <3> DEFINE new == IF append /\ data[n] # None THEN data[n] + 1 ELSE 1
    <3>1. n \in Ids /\ data \in [Ids -> {None} \cup 1..MaxData]
      BY DEF Inv, TypeOK
    <3>2. data' = [data EXCEPT ![n] = new]
      BY <2>2
    <3>3. new \in Nat \ {0}
      BY <1>1, <3>1
    <3> HIDE DEF new
    <3>4. data'[n] = new
      BY <3>1, <3>2
    <3>5. new \in 1..MaxData
      BY <1>1, <2>2, <3>3, <3>4
    <3>6. data' \in [Ids -> {None} \cup 1..MaxData]
      BY <3>1, <3>2, <3>5
    <3>7. sudo_mode' \in BOOLEAN /\ status' \in {"ok", "hung", "fault"}
      BY <2>2 DEF Inv, TypeOK
    <3> QED
      BY <2>2, <3>6, <3>7, SameTreeInv
  <2> QED
    BY <2>1, <2>2, HangInv
<1> QED
  BY <1>2, <1>3 DEF Write

LEMMA CpInv ==
  ASSUME Inv, NEW src \in Path, NEW dst \in Path, Cp(src, dst)
  PROVE  Inv'
<1>1. PICK n \in nodes :
        \/ \E d \in nodes : type[d] = "dir" /\ Checked(d, Create(d, name[n], "file", data[n]))
        \/ CreateAt(dst, "file", data[n])
  BY DEF Cp
<1>2. data[n] \in {None} \cup 1..MaxData /\ name[n] \in Seq(Words)
  BY NodesAreIds
<1>3. CASE \E d \in nodes : type[d] = "dir" /\ Checked(d, Create(d, name[n], "file", data[n]))
  <2>1. PICK d \in nodes : type[d] = "dir" /\ (Hang \/ Create(d, name[n], "file", data[n]))
    BY <1>3 DEF Checked
  <2> QED
    BY <1>2, <2>1, HangInv, CreateInv
<1>4. CASE CreateAt(dst, "file", data[n])
  BY <1>2, <1>4, CreateAtInv
<1> QED
  BY <1>1, <1>3, <1>4

LEMMA NextInv == Inv /\ [Next]_vars => Inv'
<1> SUFFICES ASSUME Inv, [Next]_vars PROVE Inv'
  OBVIOUS
<1>1. data \in [Ids -> {None} \cup 1..MaxData] /\ sudo_mode \in BOOLEAN
      /\ status \in {"ok", "hung", "fault"}
  BY DEF Inv, TypeOK
<1>2. NewPaths \subseteq Path /\ Paths \subseteq Path
  BY TypedPaths
<1>3. ASSUME NEW p \in NewPaths, Mkdir(p) \/ Touch(p) PROVE Inv'
  BY <1>2, <1>3, CreateAtInv DEF Mkdir, Touch
<1>4. ASSUME NEW p \in Paths, Cd(p) \/ Rm(p) \/ Rmdir(p) \/ RmR(p) \/ RmAll(p) PROVE Inv'
  BY <1>2, <1>4, CdInv, RmInv, RmdirInv, RmRInv, RmAllInv
<1>5. ASSUME NEW p \in NewPaths, NEW append \in BOOLEAN, Write(p, append) PROVE Inv'
  BY <1>2, <1>5, WriteInv
<1>6. ASSUME NEW src \in Paths, NEW dst \in Paths, Mv(src, dst) \/ Cp(src, dst) PROVE Inv'
  BY <1>2, <1>6, MvInv, CpInv
<1>7. CASE Fault
  BY <1>1, <1>7, SameTreeInv DEF Fault, tree
<1>8. CASE Sudo
  BY <1>1, <1>8, SameTreeInv DEF Sudo, tree
<1>9. CASE UNCHANGED vars
  BY <1>1, <1>9, SameTreeInv DEF vars
<1> QED
  BY <1>3, <1>4, <1>5, <1>6, <1>7, <1>8, <1>9 DEF Next, Call

(* Inv is kept by every call, and by the end of the minute of sudo.        *)
THEOREM TreeInvariant == Spec => []Inv
BY InitInv, NextInv, PTL DEF Spec

(* Every variable keeps its type.                                          *)
THEOREM TreeIsTyped == Spec => []TypeOK
<1>1. Inv => TypeOK
  BY DEF Inv
<1> QED
  BY <1>1, TreeInvariant, PTL

(* Sibling chains and parent pointers always agree, and lead to allocated  *)
(* nodes only.                                                             *)
THEOREM TreeKeepsShape == Spec => []TreeShape
<1>1. Inv => TreeShape
  BY DEF Inv
<1> QED
  BY <1>1, TreeInvariant, PTL

(* The current directory, and whatever ".." leads to, stays allocated and  *)
(* linked, whichever directory is moved, renamed or removed.               *)
THEOREM CurrentDirStaysLinked == Spec => []CurrentDirIsLinked
<1>1. Inv => CurrentDirIsLinked
  BY DEF Inv
<1> QED
  BY <1>1, TreeInvariant, PTL

(* All of it together is what every function of vfs.c finds when it is     *)
(* called, whatever was called before.                                     *)
THEOREM TreeStaysSound == Spec => []TreeIsSound
BY TreeInvariant DEF Inv, TreeIsSound

-----------------------------------------------------------------------------
(* A command that never returns.                                           *)

LEMMA EndlessNeedsLost ==
  ASSUME Inv, NEW n \in Reached, n # NULL, Endless(n)
  PROVE  ~Meets(current_dir, root)
BY ReachedFacts DEF Endless, Protected

LEMMA CreateAtHang ==
  ASSUME Inv, status = "ok", status' = "hung",
         NEW p \in Path, NEW t, NEW len, CreateAt(p, t, len)
  PROVE  Hang /\ ~Meets(current_dir, root)
<1>1. PICK d \in nodes : /\ d = DirPart(p)
                         /\ (Endless(d) /\ Hang) \/ Create(d, NamePart(p), t, len)
  BY DEF CreateAt, Checked
<1>2. ~Create(d, NamePart(p), t, len)
  BY DEF Create
<1>3. d \in Reached /\ d # NULL
  BY <1>1, ResolveReached, NodesAreIds
<1> QED
  BY <1>1, <1>2, <1>3, EndlessNeedsLost

LEMMA CallHang ==
  ASSUME Inv, status = "ok", status' = "hung", Call
  PROVE  Hang /\ ~Meets(current_dir, root)
<1>1. NewPaths \subseteq Path /\ Paths \subseteq Path
  BY TypedPaths
<1>2. \A p \in Path : \A n \in nodes : n = Resolve(p) => n \in Reached /\ n # NULL
  BY ResolveReached, NodesAreIds
<1>3. \A n \in Reached \ {NULL} : Endless(n) => ~Meets(current_dir, root)
  BY EndlessNeedsLost
<1>4. ASSUME NEW p \in NewPaths, Mkdir(p) \/ Touch(p)
      PROVE  Hang /\ ~Meets(current_dir, root)
  BY <1>1, <1>4, CreateAtHang DEF Mkdir, Touch
<1>5. ASSUME NEW p \in Path, Cd(p) PROVE FALSE
  BY <1>5 DEF Cd
<1>6. ASSUME NEW p \in Path, Rm(p) PROVE Hang /\ ~Meets(current_dir, root)
  <2>1. PICK d \in nodes, n \in nodes :
          /\ d = DirPart(p) /\ n = FindChild(d, NamePart(p))
          /\ (Endless(n) /\ Hang) \/ UNCHANGED <<current_dir, sudo_mode, status>>
    BY <1>6 DEF Rm, Checked
  <2>2. d \in Reached /\ d # NULL /\ n # NULL
    BY <2>1, ResolveReached, NodesAreIds
  <2>3. n \in Reached
    BY <2>1, <2>2, FindReached
  <2> QED
    BY <1>3, <2>1, <2>2, <2>3
<1>7. ASSUME NEW p \in Path, Rmdir(p) PROVE Hang /\ ~Meets(current_dir, root)
  <2>1. PICK n \in nodes :
          /\ n = Resolve(p)
          /\ (Endless(n) /\ Hang) \/ UNCHANGED <<current_dir, sudo_mode, status>>
    BY <1>7 DEF Rmdir, Checked
  <2> QED
    BY <1>2, <1>3, <2>1
<1>8. ASSUME NEW p \in Path, RmR(p) PROVE Hang /\ ~Meets(current_dir, root)
  <2>1. PICK n \in nodes :
          /\ n = Resolve(p)
          /\ \/ Endless(n) /\ Hang
             \/ ~Meets(current_dir, root) /\ Hang
             \/ UNCHANGED <<sudo_mode, status>>
    BY <1>8 DEF RmR, Checked
  <2> QED
    BY <1>2, <1>3, <2>1
<1>9. ASSUME NEW p \in Path, RmAll(p) PROVE Hang /\ ~Meets(current_dir, root)
  <2>1. (Endless(root) /\ Hang) \/ UNCHANGED <<sudo_mode, status>>
    BY <1>9 DEF RmAll, Checked
  <2> QED
    BY <1>3, <2>1, RootReached
<1>10. ASSUME NEW p \in NewPaths, NEW append \in BOOLEAN, Write(p, append)
       PROVE  Hang /\ ~Meets(current_dir, root)
  <2>1. CASE CreateAt(p, "file", 1)
    BY <1>1, <2>1, CreateAtHang
  <2>2. CASE \E n \in nodes : n = Resolve(p) /\ WriteTo(n, append)
    <3>1. PICK n \in nodes :
            /\ n = Resolve(p)
            /\ \/ Endless(n) /\ Hang
               \/ UNCHANGED <<nodes, kids, parent, name, type, current_dir, sudo_mode, status>>
      BY <2>2 DEF WriteTo, Checked
    <3> QED
      BY <1>1, <1>2, <1>3, <3>1
  <2> QED
    BY <1>10, <2>1, <2>2 DEF Write
<1>11. ASSUME NEW src \in Path, NEW dst \in Path, Mv(src, dst)
       PROVE  Hang /\ ~Meets(current_dir, root)
  <2>1. PICK n \in nodes :
          /\ n = Resolve(src)
          /\ \/ Endless(n) /\ Hang
             \/ \E d \in nodes : d = Resolve(dst) /\ Checked(d, MoveInto(n, d))
             \/ Rename(n, WholeName(dst))
    BY <1>11 DEF Mv, Checked
  <2>2. ~Rename(n, WholeName(dst)) /\ \A d : ~MoveInto(n, d)
    BY DEF Rename, MoveInto
  <2>3. CASE \E d \in nodes : d = Resolve(dst) /\ Checked(d, MoveInto(n, d))
    <3>1. PICK d \in nodes : d = Resolve(dst) /\ ((Endless(d) /\ Hang) \/ MoveInto(n, d))
      BY <2>3 DEF Checked
    <3> QED
      BY <1>2, <1>3, <2>2, <3>1
  <2> QED
    BY <1>2, <1>3, <2>1, <2>2, <2>3
<1>12. ASSUME NEW src \in Path, NEW dst \in Path, Cp(src, dst)
       PROVE  Hang /\ ~Meets(current_dir, root)
  <2>1. PICK n \in nodes :
          \/ \E d \in nodes : /\ d = Resolve(dst)
                              /\ Checked(d, Create(d, name[n], "file", data[n]))
          \/ CreateAt(dst, "file", data[n])
    BY <1>12 DEF Cp
  <2>2. \A d : ~Create(d, name[n], "file", data[n])
    BY DEF Create
  <2>3. CASE \E d \in nodes : /\ d = Resolve(dst)
                              /\ Checked(d, Create(d, name[n], "file", data[n]))
    <3>1. PICK d \in nodes : d = Resolve(dst) /\ Endless(d) /\ Hang
      BY <2>2, <2>3 DEF Checked
    <3> QED
      BY <1>2, <1>3, <3>1
  <2> QED
    BY <2>1, <2>3, CreateAtHang
<1>13. ~Fault /\ ~Sudo
  BY DEF Fault, Sudo
<1> QED
  BY <1>1, <1>4, <1>5, <1>6, <1>7, <1>8, <1>9, <1>10, <1>11, <1>12, <1>13 DEF Call

(* A command hangs only when the current directory is no longer below /.   *)
THEOREM HangOnlyWhenLost == Spec => []HangNeedsLostDirectory
<1>1. Init => HangNeedsLostDirectory
  BY DEF Init, HangNeedsLostDirectory
<1>2. Inv /\ HangNeedsLostDirectory /\ [Next]_vars => HangNeedsLostDirectory'
  <2> SUFFICES ASSUME Inv, HangNeedsLostDirectory, [Next]_vars, status' = "hung"
               PROVE  ~Meets(current_dir, root)'
    BY DEF HangNeedsLostDirectory
  <2>1. CASE UNCHANGED vars
    BY <2>1 DEF vars, HangNeedsLostDirectory, Meets, Up, UpClosed
  <2>2. CASE Next
    <3>1. Hang /\ ~Meets(current_dir, root)
      BY <2>2, CallHang DEF Next
    <3> QED
      BY <3>1 DEF Hang, tree, Meets, Up, UpClosed
  <2> QED
    BY <2>1, <2>2
<1> QED
  BY <1>1, <1>2, TreeInvariant, PTL DEF Spec

-----------------------------------------------------------------------------
(* What a call without sudo leaves alone: n is kept when nothing of it     *)
(* changes but the place of /home/root among its children.                 *)
Kept(n) ==
  /\ n \in nodes'
  /\ <<name[n], type[n], data[n], parent[n]>>' = <<name[n], type[n], data[n], parent[n]>>
  /\ Without(kids'[n], HomeRoot) = Without(kids[n], HomeRoot)

LEMMA UnprotectedFacts ==
  ASSUME Inv, NEW x \in nodes, Unprotected(x)
  PROVE  HomeRoot # NULL /\ HomeRoot \in Up(x) /\ x # root
<1>1. HomeRoot # NULL /\ HomeRoot \in Up(x)
  BY DEF Unprotected, UnprotectedIn, HomeRoot, Meets
<1>2. HomeRoot # root
  BY <1>1, RootReached
<1>3. Up(root) = {root}
  BY UpOfRoot DEF Inv
<1> QED
  BY <1>1, <1>2, <1>3

(* Unlinking something unprotected disturbs a protected directory only when*)
(* it is the one that holds /home/root, and /home/root what is unlinked.   *)
LEMMA UnlinkedKeeps ==
  ASSUME Inv, NEW x \in nodes, Unprotected(x), NEW n \in nodes, ~Unprotected(n)
  PROVE  /\ n # x /\ n \in Ids /\ x \in Ids
         /\ Unlinked(x)[n] \in Seq(Ids)
         /\ parent[x] # n => Unlinked(x)[n] = kids[n]
         /\ parent[x] = n => x = HomeRoot
         /\ Without(Unlinked(x)[n], HomeRoot) = Without(kids[n], HomeRoot)
<1>1. HomeRoot # NULL /\ HomeRoot \in Up(x) /\ x # root
  BY UnprotectedFacts
<1>2. n \in Ids /\ x \in Ids
  BY NodesAreIds
<1>3. n # x /\ HomeRoot \notin Up(n)
  BY <1>1 DEF Unprotected, UnprotectedIn, HomeRoot, Meets
<1>4. Unlinked(x) \in [Ids -> Seq(Ids)]
  BY UnlinkedFacts DEF Inv
<1>5. parent[x] # n => Unlinked(x)[n] = kids[n]
  BY <1>2, UnlinkedFacts DEF Inv
<1>6. ASSUME parent[x] = n PROVE x = HomeRoot
  <2>1. Up(x) = {x} \cup Up(n)
    BY <1>1, <1>2, <1>6, UpOfParent DEF Inv
  <2> QED
    BY <1>1, <1>3, <2>1
<1>7. CASE parent[x] = n
  <2>1. Unlinked(x)[n] = Without(kids[n], x)
    BY <1>2, <1>7, UnlinkedFacts DEF Inv
  <2>2. ~Has(Unlinked(x)[n], x)
    BY <1>2, UnlinkedFacts DEF Inv
  <2>3. Without(Unlinked(x)[n], x) = Unlinked(x)[n]
    BY <2>2 DEF Without
  <2> QED
    BY <1>2, <1>3, <1>4, <1>6, <1>7, <2>1, <2>3
<1>8. CASE parent[x] # n
  BY <1>2, <1>3, <1>4, <1>5, <1>8
<1> QED
  BY <1>7, <1>8

LEMMA CreateKeeps ==
  ASSUME Inv, NEW n \in nodes, ~Unprotected(n),
         NEW d \in nodes, Unprotected(d), NEW nm, NEW t, NEW len, Create(d, nm, t, len)
  PROVE  Kept(n)
<1>1. PICK e \in Ids \ nodes :
        /\ nodes' = nodes \cup {e}
        /\ kids' = [kids EXCEPT ![d] = Append(@, e), ![e] = <<>>]
        /\ parent' = [parent EXCEPT ![e] = d]
        /\ name' = [name EXCEPT ![e] = nm]
        /\ type' = [type EXCEPT ![e] = t]
        /\ data' = [data EXCEPT ![e] = len]
  BY DEF Create
<1>2. n # d /\ n # e /\ n \in Ids
  BY NodesAreIds
<1>3. kids'[n] = kids[n]
  <2> DEFINE a == Append(kids[d], e)
  <2>1. kids' = [kids EXCEPT ![d] = a, ![e] = <<>>]
    BY <1>1
  <2> HIDE DEF a
  <2> QED
    BY <1>2, <2>1 DEF Inv, TypeOK
<1>4. parent'[n] = parent[n] /\ name'[n] = name[n] /\ type'[n] = type[n] /\ data'[n] = data[n]
  BY <1>1, <1>2 DEF Inv, TypeOK
<1> QED
  BY <1>1, <1>3, <1>4 DEF Kept

LEMMA CreateAtKeeps ==
  ASSUME Inv, ~sudo_mode, NEW n \in nodes, ~Unprotected(n),
         NEW p, NEW t, NEW len, CreateAt(p, t, len)
  PROVE  Hang \/ Kept(n)
<1>1. PICK d \in nodes : Hang \/ (Unprotected(d) /\ Create(d, NamePart(p), t, len))
  BY DEF CreateAt, Checked
<1> QED
  BY <1>1, CreateKeeps

(* Freeing what is unprotected.                                            *)
LEMMA FreeKeeps ==
  ASSUME Inv, NEW n \in nodes, ~Unprotected(n), NEW x \in nodes, Unprotected(x),
         NEW dead, n \notin dead, Free(dead, Unlinked(x))
  PROVE  Kept(n)
<1>1. n \in Ids /\ Without(Unlinked(x)[n], HomeRoot) = Without(kids[n], HomeRoot)
  BY UnlinkedKeeps
<1>2. n \in nodes'
  BY DEF Free
<1>3. kids'[n] = Unlinked(x)[n]
  BY <1>1 DEF Free
<1>4. parent'[n] = parent[n] /\ name'[n] = name[n] /\ type'[n] = type[n] /\ data'[n] = data[n]
  BY <1>1 DEF Free
<1> QED
  BY <1>1, <1>2, <1>3, <1>4 DEF Kept

(* Everything below x has x above it.                                      *)
LEMMA AboveUnlinked ==
  ASSUME Inv, NEW x \in nodes, NEW n \in Below(Unlinked(x), x)
  PROVE  n \in Ids /\ x \in Up(n)
<1> DEFINE ks == Unlinked(x)
           S  == {m \in Ids : x \in Up(m)}
<1>1. /\ ks \in [Ids -> Seq(Ids)]
      /\ \A m \in Ids : \A c : Has(ks[m], c) => Has(kids[m], c)
  BY UnlinkedFacts DEF Inv
<1>2. x \in Ids /\ x \in Cells
  BY NodesAreIds DEF Cells
<1>3. x \in S
  BY <1>2, UpFacts DEF Inv
<1> HIDE DEF ks
<1>4. ASSUME NEW m \in S, NEW c, Has(ks[m], c) PROVE c \in S
  <2>1. c \in Ids \ {root} /\ parent[c] = m
    BY <1>1, <1>4, ShapeFacts DEF Inv
  <2>2. Up(c) = {c} \cup Up(m)
    BY <2>1, UpOfParent DEF Inv
  <2> QED
    BY <2>1, <2>2
<1>5. Below(ks, x) \subseteq S
  <2>1. S \in SUBSET Ids
    OBVIOUS
  <2> HIDE DEF S
  <2> QED
    BY <1>1, <1>2, <1>3, <1>4, <2>1, BelowFacts
<1> QED
  BY <1>5 DEF ks

(* Below an unprotected node everything is unprotected.                    *)
LEMMA FreedIsUnprotected ==
  ASSUME Inv, NEW n \in nodes, ~Unprotected(n), NEW x \in nodes, Unprotected(x)
  PROVE  n \notin FreedBy(Unlinked(x), x)
<1>1. SUFFICES ASSUME n \in Below(Unlinked(x), x) PROVE FALSE
  BY DEF FreedBy
<1>2. n \in Ids /\ x \in Up(n)
  BY <1>1, AboveUnlinked
<1>3. Up(x) \subseteq Up(n)
  BY <1>2, UpTransitive DEF Inv, Cells
<1> QED
  BY <1>3 DEF Unprotected, UnprotectedIn, Meets

LEMMA MoveIntoKeeps ==
  ASSUME Inv, NEW n \in nodes, ~Unprotected(n), NEW x \in nodes, Unprotected(x),
         NEW d \in nodes, Unprotected(d), MoveInto(x, d)
  PROVE  Kept(n)
<1>1. /\ n \in Ids /\ n # x /\ n # d
      /\ Without(Unlinked(x)[n], HomeRoot) = Without(kids[n], HomeRoot)
  BY UnlinkedKeeps
<1>2. kids'[n] = Unlinked(x)[n]
  <2> DEFINE ks == Unlinked(x)
             w  == Insert(ks[d], x)
  <2>1. kids' = [ks EXCEPT ![d] = w] /\ ks \in [Ids -> Seq(Ids)]
    BY UnlinkedFacts DEF MoveInto, Inv
  <2> HIDE DEF ks, w
  <2>2. kids'[n] = ks[n]
    BY <1>1, <2>1
  <2> QED
    BY <2>2 DEF ks
<1>3. parent'[n] = parent[n]
  BY <1>1 DEF MoveInto, Inv, TypeOK
<1>4. n \in nodes' /\ name'[n] = name[n] /\ type'[n] = type[n] /\ data'[n] = data[n]
  BY DEF MoveInto
<1> QED
  BY <1>1, <1>2, <1>3, <1>4 DEF Kept

LEMMA RenameKeeps ==
  ASSUME Inv, NEW n \in nodes, ~Unprotected(n), NEW x \in nodes, Unprotected(x),
         NEW nm, Rename(x, nm)
  PROVE  Kept(n)
<1> DEFINE ks == Unlinked(x)
           d  == parent[x]
           w  == Insert(ks[d], x)
<1>1. /\ n \in Ids /\ x \in Ids /\ n # x
      /\ ks[n] \in Seq(Ids)
      /\ parent[x] = n => x = HomeRoot
      /\ Without(ks[n], HomeRoot) = Without(kids[n], HomeRoot)
  BY UnlinkedKeeps
<1>2. kids' = [ks EXCEPT ![d] = w] /\ ks \in [Ids -> Seq(Ids)]
  BY UnlinkedFacts DEF Rename, Inv
<1>3. n \in nodes' /\ type'[n] = type[n] /\ data'[n] = data[n] /\ parent'[n] = parent[n]
  BY DEF Rename
<1>4. name'[n] = name[n]
  BY <1>1 DEF Rename, Inv, TypeOK
<1>5. Without(kids'[n], HomeRoot) = Without(kids[n], HomeRoot)
  <2>1. CASE d = n
    <3>1. kids'[n] = Insert(ks[n], x) /\ x = HomeRoot
      <4> HIDE DEF w
      <4>1. kids'[n] = w
        BY <1>1, <1>2, <2>1
      <4> QED
        BY <1>1, <2>1, <4>1 DEF w
    <3>2. Without(Insert(ks[n], x), x) = ks[n]
      BY <1>1, WithoutInserted
    <3>3. ~Has(ks[n], x)
      BY <1>1, UnlinkedFacts DEF Inv
    <3>4. Without(ks[n], x) = ks[n]
      BY <3>3 DEF Without
    <3> QED
      BY <1>1, <3>1, <3>2, <3>4
  <2>2. CASE d # n
    <3> HIDE DEF w, d, ks
    <3>1. kids'[n] = ks[n]
      BY <1>1, <1>2, <2>2
    <3> QED
      BY <1>1, <3>1
  <2> QED
    BY <2>1, <2>2
<1> QED
  BY <1>3, <1>4, <1>5 DEF Kept

LEMMA SameTreeKeeps ==
  ASSUME NEW n \in nodes, UNCHANGED tree
  PROVE  Kept(n)
BY DEF tree, Kept

LEMMA CallKeeps ==
  ASSUME Inv, ~sudo_mode, NEW n \in nodes, ~Unprotected(n), Call
  PROVE  Kept(n)
<1>1. CASE Hang
  BY <1>1, SameTreeKeeps DEF Hang
<1>2. \A p, t, len : CreateAt(p, t, len) => Kept(n)
  BY <1>1, CreateAtKeeps
<1>3. ASSUME NEW p, Mkdir(p) \/ Touch(p) PROVE Kept(n)
  BY <1>2, <1>3 DEF Mkdir, Touch
<1>4. ASSUME NEW p, Cd(p) PROVE Kept(n)
  BY <1>4, SameTreeKeeps DEF Cd
<1>5. ASSUME NEW p, Rm(p) PROVE Kept(n)
  <2>1. PICK x \in nodes : Hang \/ (Unprotected(x) /\ Free({x}, Unlinked(x)))
    BY <1>5 DEF Rm, Checked
  <2>2. ASSUME Unprotected(x), Free({x}, Unlinked(x)) PROVE Kept(n)
    <3>1. n \notin {x}
      BY <2>2
    <3> QED
      BY <2>2, <3>1, FreeKeeps
  <2> QED
    BY <1>1, <2>1, <2>2
<1>6. ASSUME NEW p, Rmdir(p) PROVE Kept(n)
  <2>1. PICK x \in nodes : Hang \/ (Unprotected(x) /\ Free({x}, Unlinked(x)))
    BY <1>6 DEF Rmdir, Checked
  <2>2. ASSUME Unprotected(x), Free({x}, Unlinked(x)) PROVE Kept(n)
    <3>1. n \notin {x}
      BY <2>2
    <3> QED
      BY <2>2, <3>1, FreeKeeps
  <2> QED
    BY <1>1, <2>1, <2>2
<1>7. ASSUME NEW p, RmR(p) PROVE Kept(n)
  <2>1. PICK x \in nodes : Hang \/ (Unprotected(x) /\ Free(FreedBy(Unlinked(x), x), Unlinked(x)))
    BY <1>7 DEF RmR, Checked
  <2>2. ASSUME Unprotected(x), Free(FreedBy(Unlinked(x), x), Unlinked(x)) PROVE Kept(n)
    <3>1. n \notin FreedBy(Unlinked(x), x)
      BY <2>2, FreedIsUnprotected
    <3> QED
      BY <2>2, <3>1, FreeKeeps
  <2> QED
    BY <1>1, <2>1, <2>2
<1>8. ASSUME NEW p, RmAll(p) PROVE Kept(n)
  <2>1. Hang \/ Unprotected(root)
    BY <1>8 DEF RmAll, Checked
  <2>2. ~Unprotected(root)
    BY RootReached, UnprotectedFacts
  <2> QED
    BY <1>1, <2>1, <2>2
<1>9. ASSUME NEW p, NEW append, Write(p, append) PROVE Kept(n)
  <2>1. CASE CreateAt(p, "file", 1)
    BY <1>2, <2>1
  <2>2. CASE \E x \in nodes : WriteTo(x, append)
    <3>1. PICK x \in nodes :
            \/ Hang
            \/ /\ Unprotected(x)
               /\ data' = [data EXCEPT ![x] = IF append /\ @ # None THEN @ + 1 ELSE 1]
               /\ UNCHANGED <<nodes, kids, parent, name, type>>
      BY <2>2 DEF WriteTo, Checked
    <3>2. ASSUME Unprotected(x),
                 data' = [data EXCEPT ![x] = IF append /\ @ # None THEN @ + 1 ELSE 1],
                 UNCHANGED <<nodes, kids, parent, name, type>>
          PROVE  Kept(n)
      <4> DEFINE new == IF append /\ data[x] # None THEN data[x] + 1 ELSE 1
      <4>1. data' = [data EXCEPT ![x] = new]
        BY <3>2
      <4>2. n # x /\ n \in Ids
        BY <3>2, NodesAreIds
      <4> HIDE DEF new
      <4>3. data'[n] = data[n]
        BY <4>1, <4>2 DEF Inv, TypeOK
      <4> QED
        BY <3>2, <4>3 DEF Kept
    <3> QED
      BY <1>1, <3>1, <3>2
  <2> QED
    BY <1>9, <2>1, <2>2 DEF Write
<1>10. ASSUME NEW src, NEW dst, Mv(src, dst) PROVE Kept(n)
  <2>1. PICK x \in nodes :
          \/ Hang
          \/ /\ Unprotected(x)
             /\ \/ \E d \in nodes : Hang \/ (Unprotected(d) /\ MoveInto(x, d))
                \/ Rename(x, WholeName(dst))
    BY <1>10 DEF Mv, Checked
  <2> QED
    BY <1>1, <2>1, MoveIntoKeeps, RenameKeeps
<1>11. ASSUME NEW src, NEW dst, Cp(src, dst) PROVE Kept(n)
  <2>1. PICK x \in nodes :
          \/ \E d \in nodes : Hang \/ (Unprotected(d) /\ Create(d, name[x], "file", data[x]))
          \/ CreateAt(dst, "file", data[x])
    BY <1>11 DEF Cp, Checked
  <2> QED
    BY <1>1, <1>2, <2>1, CreateKeeps
<1>12. CASE Fault \/ Sudo
  BY <1>12, SameTreeKeeps DEF Fault, Sudo
<1> QED
  BY <1>3, <1>4, <1>5, <1>6, <1>7, <1>8, <1>9, <1>10, <1>11, <1>12 DEF Call

LEMMA BelowRoot ==
  ASSUME Inv
  PROVE  Below(kids, root) \subseteq nodes
<1>1. kids \in [Ids -> Seq(Ids)] /\ root \in Ids /\ root \in nodes /\ nodes \in SUBSET Ids
  BY Sizes DEF Inv, TypeOK
<1>2. \A m \in nodes : \A c : Has(kids[m], c) => c \in nodes
  BY NodesAreIds, ShapeFacts DEF Inv
<1> QED
  BY <1>1, <1>2, BelowFacts

(* Nobody changes what is protected without sudo, but for the place that   *)
(* the owner of /home/root gives it in /home.                              *)
THEOREM UserChangesOwnFilesOnly == Spec => PrivilegeIsNeeded
<1>1. Inv /\ [Next]_vars => [PrivilegeStep]_vars
  <2> SUFFICES ASSUME Inv, [Next]_vars PROVE PrivilegeStep
    OBVIOUS
  <2>1. ASSUME NEW n \in Below(kids, root), ~sudo_mode, Protected(n)
        PROVE  Kept(n)
    <3>1. n \in nodes /\ ~Unprotected(n)
      BY <2>1, BelowRoot DEF Protected
    <3>2. CASE UNCHANGED vars
      BY <3>1, <3>2, SameTreeKeeps DEF vars, tree
    <3>3. CASE Next
      BY <2>1, <3>1, <3>3, CallKeeps DEF Next
    <3> QED
      BY <3>2, <3>3
  <2> QED
    BY <2>1 DEF PrivilegeStep, Kept
<1> QED
  BY <1>1, TreeInvariant, PTL DEF Spec, PrivilegeIsNeeded

-----------------------------------------------------------------------------
(* What drops out of the tree.                                             *)
Lost == Below(kids, root) \ Below(kids', root)

(* What drops out of the tree is in gone, when outside of gone every link  *)
(* stays, but for those into gone, and no link leads out of gone.          *)
LEMMA NoneLost ==
  ASSUME Inv, Inv', NEW gone \in SUBSET Ids,
         \A m \in Ids \ gone : \A c : Has(kids[m], c) /\ c \notin gone => Has(kids'[m], c),
         \A m \in gone : \A c : Has(kids[m], c) => c \in gone
  PROVE  Lost \subseteq gone
<1> DEFINE B == Below(kids', root)
           S == B \cup gone
<1>1. kids \in [Ids -> Seq(Ids)] /\ kids' \in [Ids -> Seq(Ids)] /\ root \in Ids
  BY Sizes DEF Inv, TypeOK
<1>2. B \in SUBSET Ids /\ root \in B /\ \A m \in B : \A c : Has(kids'[m], c) => c \in B
  BY <1>1, BelowFacts
<1> HIDE DEF B
<1>3. \A m \in S : \A c : Has(kids[m], c) => c \in S
  BY <1>2
<1>4. S \in SUBSET Ids /\ root \in S
  BY <1>2
<1>5. Below(kids, root) \subseteq S
  BY <1>1, <1>3, <1>4, BelowFacts
<1> QED
  BY <1>5 DEF Lost, B

(* A call that changes no chain loses nothing,                             *)
LEMMA SameKidsLoss ==
  ASSUME kids' = kids
  PROVE  Lost = {}
BY DEF Lost

(* nor does a new node at the end of one.                                  *)
LEMMA CreateLoss ==
  ASSUME Inv, Inv', NEW d \in nodes, NEW nm, NEW t, NEW len, Create(d, nm, t, len)
  PROVE  Lost = {}
<1>1. PICK e \in Ids \ nodes : kids' = [kids EXCEPT ![d] = Append(@, e), ![e] = <<>>]
  BY DEF Create
<1> DEFINE a == Append(kids[d], e)
<1>2. d \in Ids /\ d # e /\ kids[d] \in Seq(Ids) /\ kids \in [Ids -> Seq(Ids)]
  BY NodesAreIds DEF Inv, TypeOK
<1>3. \A c : Has(kids[d], c) => Has(a, c)
  BY <1>2, AppendChain
<1>4. \A c : ~Has(kids[e], c)
  BY <1>1, ShapeFacts DEF Inv
<1>5. kids' = [kids EXCEPT ![d] = a, ![e] = <<>>]
  BY <1>1
<1> HIDE DEF a
<1>6. \A m \in Ids : \A c : Has(kids[m], c) => Has(kids'[m], c)
  <2>1. SUFFICES ASSUME NEW m \in Ids, NEW c, Has(kids[m], c) PROVE Has(kids'[m], c)
    OBVIOUS
  <2>2. m # e
    BY <1>4, <2>1
  <2>3. kids'[m] = IF m = d THEN a ELSE kids[m]
    BY <1>2, <1>5, <2>2
  <2> QED
    BY <1>3, <2>1, <2>3
<1> DEFINE gone == {}
<1>7. gone \in SUBSET Ids /\ \A m \in gone : \A c : Has(kids[m], c) => c \in gone
  OBVIOUS
<1>8. \A m \in Ids \ gone : \A c : Has(kids[m], c) /\ c \notin gone => Has(kids'[m], c)
  BY <1>6
<1> HIDE DEF gone
<1>9. Lost \subseteq gone
  BY <1>7, <1>8, NoneLost
<1> QED
  BY <1>9 DEF gone

(* So vfs_mkdir and vfs_touch lose nothing.                                *)
LEMMA CreateAtLoss ==
  ASSUME Inv, Inv', NEW p, NEW t, NEW len, CreateAt(p, t, len)
  PROVE  Lost = {}
<1>1. PICK d \in nodes : Hang \/ Create(d, NamePart(p), t, len)
  BY DEF CreateAt, Checked
<1>2. Hang => kids' = kids
  BY DEF Hang, tree
<1> QED
  BY <1>1, <1>2, SameKidsLoss, CreateLoss

(* What is freed takes everything below it along, or has nothing below it. *)
LEMMA FreeLoss ==
  ASSUME Inv, Inv', NEW x \in nodes, NEW dead \in SUBSET Ids, x \in dead,
         \A m \in dead : \A c : Has(Unlinked(x)[m], c) => c \in dead,
         Free(dead, Unlinked(x))
  PROVE  Lost \cap nodes' = {}
<1> DEFINE ks == Unlinked(x)
<1>1. \A m \in Ids : \A c : c # x /\ Has(kids[m], c) => Has(ks[m], c)
  BY UnlinkedFacts DEF Inv
<1> HIDE DEF ks
<1>2. nodes' = nodes \ dead /\ \A m \in Ids : m \notin dead => kids'[m] = ks[m]
  BY DEF Free, ks
<1>3. \A m \in Ids \ dead : \A c : Has(kids[m], c) /\ c \notin dead => Has(kids'[m], c)
  BY <1>1, <1>2
<1>4. \A m \in dead : \A c : Has(kids[m], c) => c \in dead
  BY <1>1 DEF ks
<1>5. Lost \subseteq dead
  BY <1>3, <1>4, NoneLost
<1> QED
  BY <1>2, <1>5

(* vfs_rm and vfs_rmdir: a file or an empty directory.                     *)
LEMMA RemoveOneLoss ==
  ASSUME Inv, Inv', NEW x \in nodes, \A c : ~Has(kids[x], c), Free({x}, Unlinked(x))
  PROVE  Lost \cap nodes' = {}
<1>1. x \in Ids
  BY NodesAreIds
<1>2. \A c : ~Has(Unlinked(x)[x], c)
  BY <1>1, UnlinkedFacts DEF Inv
<1> QED
  BY <1>1, <1>2, FreeLoss

(* The two ways out of the tree, as LossStep has them.                     *)
MayGo(n) ==
  \/ ~sudo_mode /\ Unprotected(n) /\ HomeRoot' # HomeRoot
  \/ EndsInCycle(n)'

(* vfs_rm_r: the subtree is freed as a whole, or /home/root was its top.   *)
LEMMA RemoveTreeLoss ==
  ASSUME Inv, Inv', NEW x \in nodes, x # root, sudo_mode \/ Unprotected(x),
         Free(FreedBy(Unlinked(x), x), Unlinked(x)), NEW n \in Lost \cap nodes'
  PROVE  MayGo(n)
<1> DEFINE ks   == Unlinked(x)
           dead == Below(ks, x)
<1>1. ks \in [Ids -> Seq(Ids)] /\ x \in Ids
  BY UnlinkedFacts, NodesAreIds DEF Inv
<1>2. /\ dead \in SUBSET Ids /\ x \in dead
      /\ \A m \in dead : \A c : Has(ks[m], c) => c \in dead
  BY <1>1, BelowFacts
<1>3. CASE sudo_mode \/ UnprotectedIn(ks, x)
  <2>1. FreedBy(ks, x) = dead
    BY <1>3 DEF FreedBy
  <2> HIDE DEF dead
  <2>2. Lost \cap nodes' = {}
    BY <1>2, <2>1, FreeLoss
  <2> QED
    BY <2>2
<1>4. CASE ~(sudo_mode \/ UnprotectedIn(ks, x))
  <2>1. Free({}, ks)
    BY <1>4 DEF FreedBy
  <2> HIDE DEF ks
  <2>2. kids' = ks /\ name' = name
    BY <1>1, <2>1, SMTT(30) DEF Free, Inv, TypeOK
  <2>3. HomeRoot' = HomeRootIn(ks)
    BY <2>2 DEF HomeRoot, HomeRootIn, FindIn, Hits
  <2>4. ~UnprotectedIn(ks, x) /\ UnprotectedIn(kids, x) /\ ~sudo_mode
    BY <1>4 DEF Unprotected
  <2>5. HomeRoot' # HomeRoot
    BY <2>3, <2>4 DEF UnprotectedIn, HomeRoot
  <2>6. n \in dead
    <3>1. \A m \in Ids : \A c : c # x /\ Has(kids[m], c) => Has(ks[m], c)
      BY UnlinkedFacts DEF Inv, ks
    <3> HIDE DEF dead
    <3>2. \A m \in Ids \ dead : \A c : Has(kids[m], c) /\ c \notin dead => Has(kids'[m], c)
      BY <1>2, <2>2, <3>1
    <3>3. \A m \in dead : \A c : Has(kids[m], c) => c \in dead
      BY <1>2, <3>1
    <3>4. Lost \subseteq dead
      BY <1>2, <3>2, <3>3, NoneLost
    <3> QED
      BY <3>4
  <2>7. n \in Ids /\ x \in Up(n)
    BY <2>6, AboveUnlinked DEF ks
  <2>8. Up(x) \subseteq Up(n)
    BY <2>7, UpTransitive DEF Inv, Cells
  <2>9. Unprotected(n)
    BY <2>4, <2>8 DEF Unprotected, UnprotectedIn, Meets
  <2> QED
    BY <2>4, <2>5, <2>9 DEF MayGo
<1> QED
  BY <1>3, <1>4

(* vfs_rm_r on root: only root stays.                                      *)
LEMMA RemoveAllLoss ==
  ASSUME Inv, Free(Below(kids, root) \ {root}, [kids EXCEPT ![root] = <<>>]), Inv'
  PROVE  Lost \cap nodes' = {}
<1>1. kids' \in [Ids -> Seq(Ids)] /\ root \in Ids
  BY Sizes DEF Inv, TypeOK
<1>2. root \in Below(kids', root)
  BY <1>1, BelowFacts
<1>3. nodes' = nodes \ (Below(kids, root) \ {root})
  BY DEF Free
<1> QED
  BY <1>2, <1>3 DEF Lost

(* Who is linked all the way up to root is below root.                     *)
LEMMA AnchoredIsBelow ==
  ASSUME Inv, NEW g \in Ids, Anchored(g), Meets(g, root)
  PROVE  g \in Below(kids, root)
<1> DEFINE B == Below(kids, root)
           Z == Up(g) \ B
<1>1. SUFFICES ASSUME g \notin B PROVE FALSE
  OBVIOUS
<1>2. kids \in [Ids -> Seq(Ids)] /\ root \in Ids
  BY Sizes DEF Inv, TypeOK
<1>3. root \in B /\ \A m \in B : \A c : Has(kids[m], c) => c \in B
  BY <1>2, BelowFacts
<1>4. /\ Up(g) \in SUBSET Cells /\ g \in Up(g) /\ UpClosed(Up(g))
      /\ \A S \in SUBSET Cells : g \in S /\ UpClosed(S) => Up(g) \subseteq S
  BY UpFacts DEF Inv, Cells
<1>5. \A m \in Up(g) : m = root \/ Has(kids[parent[m]], m)
  BY DEF Anchored
<1> HIDE DEF B
<1>6. UpClosed(Z)
  BY <1>3, <1>4, <1>5 DEF UpClosed
<1>7. Z \in SUBSET Cells /\ g \in Z
  BY <1>1, <1>4
<1> HIDE DEF Z
<1>8. root \in Z
  BY <1>4, <1>6, <1>7 DEF Meets
<1> QED
  BY <1>3, <1>8 DEF Z

(* A node moves to the head of the chain of d, of its own directory, too.  *)
LEMMA RelinkLoss ==
  ASSUME Inv, Inv', NEW x \in nodes, x # root, NEW d \in nodes, Anchored(d),
         kids' = [Unlinked(x) EXCEPT ![d] = Insert(@, x)],
         parent'[x] = d, \A m \in Ids : m # x => parent'[m] = parent[m],
         NEW n \in Lost
  PROVE  MayGo(n)
<1> DEFINE ks   == Unlinked(x)
           dead == Below(ks, x)
           top  == Below(kids', root)
           w    == Insert(ks[d], x)
<1>1. /\ x \in Ids /\ d \in Ids /\ root \in Ids
      /\ ks \in [Ids -> Seq(Ids)] /\ kids \in [Ids -> Seq(Ids)] /\ kids' \in [Ids -> Seq(Ids)]
  BY UnlinkedFacts, NodesAreIds, Sizes DEF Inv, TypeOK
<1>2. /\ \A m \in Ids : \A c : c # x /\ Has(kids[m], c) => Has(ks[m], c)
      /\ \A m \in Ids : \A c : Has(ks[m], c) => Has(kids[m], c)
  BY UnlinkedFacts DEF Inv
<1>3. root \notin dead /\ NULL \notin dead
  BY BelowUnlinked DEF Ids, NULL
<1>4. kids' = [ks EXCEPT ![d] = w]
  OBVIOUS
<1> HIDE DEF ks
<1>5. \A c : Has(w, c) <=> c = x \/ Has(ks[d], c)
  BY <1>1, InsertChain, ZenonT(40)
<1> HIDE DEF w
<1>6. /\ Has(kids'[d], x)
      /\ \A m \in Ids : \A c : Has(ks[m], c) => Has(kids'[m], c)
  <2>1. \A m \in Ids : kids'[m] = IF m = d THEN w ELSE ks[m]
    BY <1>1, <1>4
  <2> QED
    BY <1>1, <1>5, <2>1
<1>7. /\ dead \in SUBSET Ids /\ x \in dead
      /\ \A m \in dead : \A c : Has(ks[m], c) => c \in dead
      /\ \A S \in SUBSET Ids : x \in S /\ (\A m \in S : \A c : Has(ks[m], c) => c \in S)
            => dead \subseteq S
  BY <1>1, BelowFacts
<1>8. top \in SUBSET Ids /\ root \in top /\ \A m \in top : \A c : Has(kids'[m], c) => c \in top
  BY <1>1, BelowFacts
<1>9. \A m \in dead : m # x => parent[m] \in dead /\ parent'[m] = parent[m]
  <2>1. SUFFICES ASSUME NEW m \in dead, m # x PROVE parent[m] \in dead /\ parent'[m] = parent[m]
    OBVIOUS
  <2>2. PICK y \in dead : Has(ks[y], m)
    BY <1>1, <2>1, BelowCause
  <2>3. parent[m] = y
    BY <1>2, <1>7, <2>2, ShapeFacts DEF Inv
  <2> QED
    BY <1>7, <2>1, <2>2, <2>3
<1> HIDE DEF dead, top
<1>10. Lost \subseteq dead
  <2>1. \A m \in Ids \ dead : \A c : Has(kids[m], c) /\ c \notin dead => Has(kids'[m], c)
    BY <1>2, <1>6, <1>7
  <2>2. \A m \in dead : \A c : Has(kids[m], c) => c \in dead
    BY <1>2, <1>7
  <2> QED
    BY <1>7, <2>1, <2>2, NoneLost
<1>11. n \in dead /\ n \notin top
  BY <1>10 DEF Lost, top
<1>12. d \notin top
  <2>1. SUFFICES ASSUME d \in top PROVE FALSE
    OBVIOUS
  <2>2. x \in top
    BY <1>6, <1>8, <2>1
  <2>3. \A m \in top : \A c : Has(ks[m], c) => c \in top
    BY <1>6, <1>8
  <2>4. dead \subseteq top
    BY <1>7, <1>8, <2>2, <2>3
  <2> QED
    BY <1>11, <2>4
<1>13. ASSUME NEW T \in SUBSET Cells, n \in T, root \notin T, NULL \notin T,
              \A m \in T : parent'[m] \in T
       PROVE  EndsInCycle(n)'
  <2>1. TypeOK' /\ n \in Cells
    BY <1>13 DEF Inv
  <2>2. UpClosed(T)'
    BY <1>13 DEF UpClosed
  <2>3. \A S \in SUBSET Cells : n \in S /\ UpClosed(S)' => Up(n)' \subseteq S
    BY <2>1 DEF Up
  <2>4. Up(n)' \subseteq T
    BY <1>13, <2>2, <2>3
  <2> QED
    BY <1>13, <2>4 DEF EndsInCycle
<1>14. CASE d \in dead
  <2>1. \A m \in dead : parent'[m] \in dead
    BY <1>9, <1>14
  <2>2. dead \in SUBSET Cells
    BY <1>7 DEF Cells
  <2>3. root \notin dead /\ NULL \notin dead
    BY <1>3 DEF dead
  <2>4. EndsInCycle(n)'
    BY <1>11, <1>13, <2>1, <2>2, <2>3
  <2> QED
    BY <2>4 DEF MayGo
<1>15. CASE d \notin dead
  <2>1. d \notin Below(kids, root)
    BY <1>10, <1>12, <1>15 DEF Lost, top
  <2>2. root \notin Up(d)
    BY <1>1, <2>1, AnchoredIsBelow DEF Meets
  <2>3. Up(d) \in SUBSET Cells /\ d \in Up(d) /\ UpClosed(Up(d))
    BY <1>1, UpFacts DEF Inv, Cells
  <2>4. Up(d) \subseteq nodes
    BY DEF Anchored
  <2>5. NULL \notin Up(d) /\ Up(d) \subseteq Ids
    BY <2>4, NodesAreIds
  <2> DEFINE T == dead \cup Up(d)
  <2>6. \A m \in Up(d) : parent'[m] \in Up(d)
    BY <2>2, <2>3, <2>5 DEF UpClosed
  <2>7. \A m \in T : parent'[m] \in T
    BY <1>9, <2>3, <2>6
  <2>8. T \in SUBSET Cells /\ n \in T /\ root \notin T /\ NULL \notin T
    <3>1. dead \in SUBSET Cells /\ root \notin dead /\ NULL \notin dead
      BY <1>3, <1>7 DEF dead, Cells
    <3> QED
      BY <1>11, <2>2, <2>3, <2>5, <3>1
  <2> HIDE DEF T
  <2>9. EndsInCycle(n)'
    BY <1>13, <2>7, <2>8
  <2> QED
    BY <2>9 DEF MayGo
<1> QED
  BY <1>14, <1>15

(* vfs_mv, of both kinds.                                                  *)
LEMMA MvLoss ==
  ASSUME Inv, Inv', NEW src \in Path, NEW dst \in Path, Mv(src, dst), NEW n \in Lost
  PROVE  MayGo(n)
<1>1. PICK x \in nodes :
        /\ x = Resolve(src) /\ x # root
        /\ \/ Hang
           \/ \E d \in nodes : d = Resolve(dst) /\ (Hang \/ MoveInto(x, d))
           \/ Rename(x, WholeName(dst))
  BY DEF Mv, Checked
<1>2. Resolve(src) \in Reached /\ Resolve(dst) \in Reached
  BY ResolveReached
<1>3. \A m \in nodes : m \in Ids /\ m # NULL
  BY NodesAreIds
<1>4. ~Hang
  BY SameKidsLoss DEF Hang, tree
<1>5. ASSUME NEW d \in nodes, d = Resolve(dst), MoveInto(x, d) PROVE MayGo(n)
  <2>1. Anchored(d)
    BY <1>2, <1>3, <1>5, ReachedFacts
  <2>2. parent'[x] = d /\ \A m \in Ids : m # x => parent'[m] = parent[m]
    BY <1>3, <1>5 DEF MoveInto, Inv, TypeOK
  <2> QED
    BY <1>1, <1>5, <2>1, <2>2, RelinkLoss DEF MoveInto
<1>6. ASSUME NEW nm, Rename(x, nm) PROVE MayGo(n)
  <2>1. Anchored(x) /\ x \in Ids
    BY <1>1, <1>2, <1>3, ReachedFacts
  <2>2. parent[x] \in nodes /\ Anchored(parent[x])
    BY <2>1, AnchoredFacts DEF Inv
  <2>3. parent' = parent /\ kids' = [Unlinked(x) EXCEPT ![parent[x]] = Insert(@, x)]
    BY <1>6 DEF Rename
  <2> QED
    BY <1>1, <2>2, <2>3, RelinkLoss
<1> QED
  BY <1>1, <1>4, <1>5, <1>6

(* Every call of the file system.                                          *)
LEMMA CallLoss ==
  ASSUME Inv, Inv', Call, NEW n \in Lost \cap nodes'
  PROVE  MayGo(n)
<1>1. ~Hang
  BY SameKidsLoss DEF Hang, tree
<1>2. \A p, t, len : ~CreateAt(p, t, len)
  BY CreateAtLoss
<1>3. ~\E p \in NewPaths : Mkdir(p) \/ Touch(p)
  BY <1>2 DEF Mkdir, Touch
<1>4. ~\E p \in Paths : Cd(p)
  BY SameKidsLoss DEF Cd, tree
<1>5. ~\E p \in Paths : Rm(p)
  <2>1. SUFFICES ASSUME NEW p, Rm(p) PROVE FALSE
    OBVIOUS
  <2>2. PICK x \in nodes : type[x] = "file" /\ Free({x}, Unlinked(x))
    BY <1>1, <2>1 DEF Rm, Checked
  <2>3. \A c : ~Has(kids[x], c)
    BY <2>2, NodesAreIds, ShapeFacts DEF Inv
  <2> QED
    BY <2>2, <2>3, RemoveOneLoss
<1>6. ~\E p \in Paths : Rmdir(p)
  <2>1. SUFFICES ASSUME NEW p, Rmdir(p) PROVE FALSE
    OBVIOUS
  <2>2. PICK x \in nodes : kids[x] = <<>> /\ Free({x}, Unlinked(x))
    BY <1>1, <2>1 DEF Rmdir, RmdirAllowed, Checked
  <2>3. \A c : ~Has(kids[x], c)
    BY <2>2 DEF Has
  <2> QED
    BY <2>2, <2>3, RemoveOneLoss
<1>7. ASSUME NEW p, RmR(p) PROVE MayGo(n)
  <2>1. PICK x \in nodes :
          /\ x # root /\ (Unprotected(x) \/ sudo_mode)
          /\ Free(FreedBy(Unlinked(x), x), Unlinked(x))
    BY <1>1, <1>7 DEF RmR, Checked
  <2> QED
    BY <2>1, RemoveTreeLoss
<1>8. ~\E p \in Paths : RmAll(p)
  BY <1>1, RemoveAllLoss DEF RmAll, Checked
<1>9. ~\E p \in NewPaths, append \in BOOLEAN : Write(p, append)
  BY <1>1, <1>2, SameKidsLoss DEF Write, WriteTo, Checked
<1>10. ASSUME NEW src \in Paths, NEW dst \in Paths, Mv(src, dst) PROVE MayGo(n)
  BY <1>10, MvLoss, TypedPaths
<1>11. ~\E src, dst \in Paths : Cp(src, dst)
  BY <1>1, <1>2, CreateLoss DEF Cp, Checked
<1>12. ~Fault /\ ~Sudo
  BY SameKidsLoss DEF Fault, Sudo, tree
<1> QED
  BY <1>3, <1>4, <1>5, <1>6, <1>7, <1>8, <1>9, <1>10, <1>11, <1>12 DEF Call

(* A node that drops out of the tree is freed, unless the user removed     *)
(* /home/root without sudo or moved a directory into itself.               *)
THEOREM NothingElseIsLost == Spec => LostOnlyByHomeOrCycle
<1>1. ASSUME Inv, Inv', Next PROVE LossStep
  <2>1. \A n \in Lost \cap nodes' : MayGo(n)
    BY <1>1, CallLoss DEF Next
  <2> QED
    BY <2>1 DEF LossStep, Lost, MayGo
<1>2. Inv /\ Inv' /\ [Next]_vars => [LossStep]_vars
  BY <1>1
<1>3. Inv /\ [Next]_vars => Inv'
  BY NextInv
<1> QED
  BY <1>2, <1>3, TreeInvariant, PTL DEF Spec, LostOnlyByHomeOrCycle

-----------------------------------------------------------------------------
(* The copy of a directory.                                                *)
CallType == [src : Path, dst : Path, node : Ids, next : Nat]

(* A call is of a directory that is there, at a place within its chain or  *)
(* behind it.                                                              *)
AtWork(c) ==
  /\ c.node \in nodes /\ type[c.node] = "dir"
  /\ c.next >= 1 /\ c.next <= Len(kids[c.node]) + 1

Ready(s) ==
  s \in Seq(CallType) /\ Len(s) <= MaxCalls /\ \A i \in 1..Len(s) : AtWork(s[i])

CopyInv ==
  /\ Inv
  /\ script \in Seq(Command)
  /\ Ready(calls)
  /\ calls # <<>> => job # NoJob
  /\ job.made \in Ids \cup {NULL}

(* strcat with a slash and a name makes a path.                            *)
LEMMA SubIsPath ==
  ASSUME NEW p \in Path, NEW nm \in Seq(Words)
  PROVE  Sub(p, nm) \in Path
<1> DEFINE pieces == IF nm = <<>> THEN <<"">>
                     ELSE [i \in 1..Len(nm) |-> IF nm[i] = "/" THEN "" ELSE nm[i]]
<1>1. "" \in Words
  BY VfsAssumption
<1>2. pieces \in Seq(Words)
  <2>1. \A w \in Words : <<w>> \in Seq(Words)
    OBVIOUS
  <2>2. [i \in 1..Len(nm) |-> IF nm[i] = "/" THEN "" ELSE nm[i]] \in Seq(Words)
    <3> DEFINE n == Len(nm)
               e(i) == IF nm[i] = "/" THEN "" ELSE nm[i]
    <3>1. Len(nm) \in Nat /\ \A i \in 1..Len(nm) : nm[i] \in Words
      OBVIOUS
    <3>2. n \in Nat /\ \A i \in 1..n : e(i) \in Words
      BY <1>1, <3>1, Zenon
    <3> HIDE DEF n, e
    <3>3. [i \in 1..n |-> e(i)] \in Seq(Words)
      BY <3>2
    <3> QED
      BY <3>3 DEF n, e
  <2> QED
    BY <1>1, <2>1, <2>2
<1> HIDE DEF pieces
<1>3. p.anchor \in {"", "/", "~"} /\ p.comps \in Seq(Words)
  BY DEF Path
<1>4. p.comps \o pieces \in Seq(Words)
  BY <1>2, <1>3, ConcatProperties
<1>5. Sub(p, nm) = [p EXCEPT !.comps = @ \o pieces]
  BY DEF Sub, pieces
<1> DEFINE cs == p.comps \o pieces
<1>6. Sub(p, nm) = [p EXCEPT !.comps = cs]
  BY <1>5
<1> HIDE DEF cs
<1>7. cs \in Seq(Words)
  BY <1>4 DEF cs
<1> QED
  BY <1>6, <1>7 DEF Path

(* And the place in a directory is one.                                    *)
LEMMA IntoIsPath ==
  ASSUME Inv, NEW p \in Path, NEW n \in nodes
  PROVE  Into(p, n) \in Path
BY NodesAreIds, SubIsPath DEF Into

(* A step adds one node where the user may write, or none.                 *)
Adds ==
  \/ UNCHANGED tree
  \/ \E d \in nodes, nm \in Seq(Words), t \in {"dir", "file"}, len \in {None} \cup 1..MaxData :
       type[d] = "dir" /\ Allowed(d) /\ Create(d, nm, t, len)

(* Chains only grow then, and directories stay.                            *)
Grows ==
  \A n \in nodes : /\ n \in nodes' /\ type'[n] = type[n]
                   /\ Len(kids[n]) <= Len(kids'[n])

(* A node is hung behind the last of a chain.                              *)
LEMMA AddsGrows ==
  ASSUME Inv, Adds
  PROVE  Grows
<1>1. CASE UNCHANGED tree
  <2>1. \A n \in nodes : Len(kids[n]) \in Nat
    BY NodesAreIds DEF Inv, TypeOK
  <2> QED
    BY <1>1, <2>1 DEF tree, Grows
<1>2. ASSUME NEW d \in nodes, NEW nm, NEW t, NEW len, Create(d, nm, t, len)
      PROVE  Grows
  <2>1. PICK e \in Ids \ nodes :
          /\ nodes' = nodes \cup {e}
          /\ kids' = [kids EXCEPT ![d] = Append(@, e), ![e] = <<>>]
          /\ type' = [type EXCEPT ![e] = t]
    BY <1>2 DEF Create
  <2>2. kids \in [Ids -> Seq(Ids)] /\ type \in [Ids -> {"dir", "file"}]
    BY DEF Inv, TypeOK
  <2>3. SUFFICES ASSUME NEW n \in nodes
                 PROVE  n \in nodes' /\ type'[n] = type[n] /\ Len(kids[n]) <= Len(kids'[n])
    BY DEF Grows
  <2>4. n \in Ids /\ n # e /\ d \in Ids /\ d # e
    BY NodesAreIds
  <2> DEFINE a == Append(kids[d], e)
  <2>5. kids' = [kids EXCEPT ![d] = a, ![e] = <<>>]
    BY <2>1
  <2>6. Len(a) = Len(kids[d]) + 1 /\ Len(kids[d]) \in Nat /\ Len(kids[n]) \in Nat
    BY <2>2, <2>4
  <2> HIDE DEF a
  <2>7. n # d => kids'[n] = kids[n]
    BY <2>2, <2>4, <2>5
  <2>8. kids'[d] = a
    BY <2>2, <2>4, <2>5
  <2>9. type'[n] = type[n]
    BY <2>1, <2>2, <2>4
  <2>10. Len(kids[n]) <= Len(kids'[n])
    BY <2>6, <2>7, <2>8
  <2> QED
    BY <2>1, <2>9, <2>10
<1> QED
  BY <1>1, <1>2 DEF Adds

(* So whoever is at work stays so.                                         *)
LEMMA ReadyNext ==
  ASSUME Inv, Adds, NEW s, Ready(s), calls' = s
  PROVE  Ready(calls)'
<1>1. Grows
  BY AddsGrows
<1>2. ASSUME NEW i \in 1..Len(s) PROVE AtWork(s[i])'
  <2>1. s[i] \in CallType /\ AtWork(s[i])
    BY DEF Ready
  <2>2. s[i].node \in nodes /\ s[i].next \in Nat /\ Len(kids[s[i].node]) \in Nat
    BY <2>1, NodesAreIds DEF AtWork, CallType, Inv, TypeOK
  <2> QED
    BY <1>1, <2>1, <2>2 DEF AtWork, Grows
<1> QED
  BY <1>2 DEF Ready

(* What a step of the copy has to keep.                                    *)
Good == Inv' /\ Adds /\ Ready(calls)'

(* One call of the copy at a time keeps it all: a call that returns,       *)
LEMMA SkipStep ==
  ASSUME Inv, NEW s, Ready(s), Skip(s)
  PROVE  Good
<1>1. UNCHANGED vars /\ calls' = s
  BY DEF Skip
<1>2. Inv'
  BY <1>1, NextInv
<1>3. Adds
  BY <1>1 DEF Adds, vars, tree
<1> QED
  BY <1>1, <1>2, <1>3, ReadyNext DEF Good

(* one that makes a node,                                                  *)
LEMMA MakeStep ==
  ASSUME Inv, Ready(calls), NEW p \in Path, NEW t \in {"dir", "file"},
         NEW len \in {None} \cup 1..MaxData, NEW next, Ready(next), NEW rest, Ready(rest),
         Make(p, t, len, next, rest)
  PROVE  Good
<1>1. CASE Verdict(p) = "made" /\ Create(DirPart(p), NamePart(p), t, len) /\ calls' = next
  <2>1. DirPart(p) \in nodes /\ type[DirPart(p)] = "dir" /\ Allowed(DirPart(p))
    BY <1>1 DEF Verdict, IsDir
  <2>2. NamePart(p) \in Seq(Words)
    BY ResolveReached
  <2>3. Inv'
    BY <1>1, <2>1, <2>2, CreateInv
  <2>4. Adds
    BY <1>1, <2>1, <2>2 DEF Adds
  <2> QED
    BY <1>1, <2>3, <2>4, ReadyNext DEF Good
<1>2. CASE Skip(rest)
  BY <1>2, SkipStep
<1>3. CASE Stuck
  <2>1. Hang /\ calls' = calls
    BY <1>3 DEF Stuck
  <2>2. Inv' /\ Adds
    BY <2>1, HangInv DEF Adds, Hang
  <2> QED
    BY <2>1, <2>2, ReadyNext DEF Good
<1> QED
  BY <1>1, <1>2, <1>3 DEF Make

(* one that copies a file,                                                 *)
LEMMA CopyFileStep ==
  ASSUME Inv, Ready(calls), NEW n \in nodes, NEW dst \in Path, NEW rest, Ready(rest),
         CopyFile(n, dst, rest)
  PROVE  Good
<1>1. Into(dst, n) \in Path /\ data[n] \in {None} \cup 1..MaxData
  BY IntoIsPath, NodesAreIds
<1>2. Make(Into(dst, n), "file", data[n], rest, rest)
  BY DEF CopyFile
<1> QED
  BY <1>1, <1>2, MakeStep

(* one that makes the directory and goes in,                               *)
LEMMA CopyDirStep ==
  ASSUME Inv, Ready(calls), NEW n \in nodes, type[n] = "dir", NEW src \in Path,
         NEW dst \in Path, NEW rest, Ready(rest), Len(rest) < MaxCalls,
         CopyDir(n, src, dst, rest)
  PROVE  Good
<1> DEFINE p == Into(dst, n)
           c == [src |-> src, dst |-> p, node |-> n, next |-> 1]
           s == Append(rest, c)
<1>1. p \in Path
  BY IntoIsPath
<1>2. Make(p, "dir", None, s, rest)
  BY DEF CopyDir
<1> HIDE DEF p
<1>3. c \in CallType
  BY <1>1, NodesAreIds DEF CallType
<1>4. AtWork(c)
  <2>1. kids[n] \in Seq(Ids)
    BY NodesAreIds DEF Inv, TypeOK
  <2>2. Len(kids[n]) \in Nat
    BY <2>1
  <2> QED
    BY <2>2 DEF AtWork
<1> HIDE DEF c
<1>5. rest \in Seq(CallType) /\ \A i \in 1..Len(rest) : AtWork(rest[i])
  BY DEF Ready
<1>6. /\ s \in Seq(CallType) /\ Len(s) = Len(rest) + 1 /\ Len(rest) \in Nat
      /\ \A i \in 1..Len(rest) : s[i] = rest[i]
      /\ s[Len(rest) + 1] = c
  BY <1>3, <1>5, AppendFacts
<1> HIDE DEF s
<1>7. \A i \in 1..Len(s) : i \in 1..Len(rest) \/ i = Len(rest) + 1
  BY <1>6
<1>8. Ready(s)
  BY <1>4, <1>5, <1>6, <1>7, VfsCopyAssumption DEF Ready
<1> QED
  BY <1>1, <1>2, <1>8, MakeStep

(* cp -r of any name,                                                      *)
LEMMA CpRStep ==
  ASSUME Inv, Ready(calls), NEW src \in Path, NEW dst \in Path, NEW rest, Ready(rest),
         CpR(src, dst, rest)
  PROVE  Good
<1>1. CASE Overflow
  <2>1. UNCHANGED <<tree, current_dir, sudo_mode, calls>> /\ status' = "fault"
    BY <1>1 DEF Overflow
  <2>2. data' \in [Ids -> {None} \cup 1..MaxData] /\ sudo_mode' \in BOOLEAN
    BY <2>1 DEF tree, Inv, TypeOK
  <2>3. Inv'
    BY <2>1, <2>2, SameTreeInv DEF tree
  <2>4. Adds
    BY <2>1 DEF Adds
  <2> QED
    BY <2>1, <2>3, <2>4, ReadyNext DEF Good
<1>2. CASE Len(rest) < MaxCalls /\ \E n \in {Resolve(src)} :
             \/ n \notin nodes /\ Skip(rest)
             \/ IsFile(n) /\ CopyFile(n, dst, rest)
             \/ IsDir(n) /\ CopyDir(n, src, dst, rest)
  BY <1>2, SkipStep, CopyFileStep, CopyDirStep DEF IsFile, IsDir
<1> QED
  BY <1>1, <1>2 DEF CpR

(* and cp without -r.                                                      *)
LEMMA CpOneStep ==
  ASSUME Inv, Ready(calls), NEW src \in Path, NEW dst \in Path, NEW rest, Ready(rest),
         CpOne(src, dst, rest)
  PROVE  Good
BY SkipStep, CopyFileStep DEF CpOne, IsFile

(* The turn of the innermost loop.                                         *)
LEMMA FrameFacts ==
  ASSUME Inv, Ready(calls), calls # <<>>
  PROVE  /\ Frame \in CallType /\ AtWork(Frame)
         /\ Frame.node \in Ids /\ Frame.next \in Nat /\ Frame.next >= 1
         /\ Frame.src \in Path /\ Frame.dst \in Path
         /\ kids[Frame.node] \in Seq(Ids) /\ Len(kids[Frame.node]) \in Nat
         /\ Len(calls) \in Nat /\ Len(calls) >= 1 /\ Frame = calls[Len(calls)]
<1>1. calls \in Seq(CallType) /\ \A i \in 1..Len(calls) : AtWork(calls[i])
  BY DEF Ready
<1>2. Len(calls) \in Nat /\ Len(calls) >= 1
  BY <1>1
<1>3. Frame = calls[Len(calls)]
  BY DEF Frame, Last
<1>4. Frame \in CallType /\ AtWork(Frame)
  BY <1>1, <1>2, <1>3
<1>5. /\ Frame.node \in Ids /\ Frame.next \in Nat /\ Frame.next >= 1
      /\ Frame.src \in Path /\ Frame.dst \in Path
  BY <1>4 DEF CallType, AtWork
<1>6. kids[Frame.node] \in Seq(Ids)
  BY <1>5 DEF Inv, TypeOK
<1> QED
  BY <1>2, <1>3, <1>4, <1>5, <1>6

(* The loop has moved on when the child is copied.                         *)
LEMMA GoesReady ==
  ASSUME Inv, Ready(calls), calls # <<>>, Frame.next <= Len(kids[Frame.node])
  PROVE  /\ Ready(Goes)
         /\ Child \in nodes /\ Sub(Frame.src, name[Child]) \in Path
         /\ Sub(Frame.dst, name[Child]) \in Path
<1> DEFINE c == [Frame EXCEPT !.next = @ + 1]
           n == Len(calls)
<1>1. /\ Frame \in CallType /\ AtWork(Frame) /\ n \in Nat /\ n >= 1 /\ Frame = calls[n]
      /\ Frame.node \in Ids /\ Frame.next \in Nat /\ Frame.next >= 1
      /\ kids[Frame.node] \in Seq(Ids) /\ Len(kids[Frame.node]) \in Nat
      /\ Frame.src \in Path /\ Frame.dst \in Path
  BY FrameFacts
<1>2. Goes = [calls EXCEPT ![n] = c]
  BY <1>1 DEF Goes
<1>3. c \in CallType /\ c.node = Frame.node /\ c.next = Frame.next + 1
  BY <1>1 DEF CallType
<1> HIDE DEF c
<1>4. AtWork(c)
  BY <1>1, <1>3 DEF AtWork
<1>5. /\ calls \in Seq(CallType) /\ n <= MaxCalls
      /\ \A i \in 1..n : AtWork(calls[i])
  BY DEF Ready
<1>6. /\ [calls EXCEPT ![n] = c] \in Seq(CallType) /\ Len([calls EXCEPT ![n] = c]) = n
      /\ \A i \in 1..n : [calls EXCEPT ![n] = c][i] = IF i = n THEN c ELSE calls[i]
  BY <1>1, <1>3, <1>5
<1>7. Ready(Goes)
  BY <1>2, <1>4, <1>5, <1>6 DEF Ready
<1>8. Has(kids[Frame.node], Child)
  BY <1>1 DEF Child, Has
<1>9. Child \in nodes
  BY <1>1, <1>8, ShapeFacts DEF Inv
<1> QED
  BY <1>1, <1>7, <1>9, NodesAreIds, SubIsPath

(* The turn of the innermost loop, whatever it finds.                      *)
LEMMA CopyStepGood ==
  ASSUME CopyInv, CopyStep
  PROVE  Good
<1>1. Inv /\ Ready(calls) /\ calls # <<>>
  BY DEF CopyInv, CopyStep
<1>2. CASE Frame.next <= Len(kids[Frame.node]) /\ CopyChild
  <2>1. /\ Ready(Goes)
        /\ Sub(Frame.src, name[Child]) \in Path /\ Sub(Frame.dst, name[Child]) \in Path
    BY <1>1, <1>2, GoesReady
  <2>2. \/ CpR(Sub(Frame.src, name[Child]), Sub(Frame.dst, name[Child]), Goes)
        \/ CpOne(Sub(Frame.src, name[Child]), Sub(Frame.dst, name[Child]), Goes)
    BY <1>2 DEF CopyChild
  <2> QED
    BY <1>1, <2>1, <2>2, CpRStep, CpOneStep
<1>3. CASE Skip(Front(calls))
  <2> DEFINE n == Len(calls) - 1
  <2>1. calls \in Seq(CallType) /\ Len(calls) \in Nat /\ Len(calls) >= 1
    BY <1>1, FrameFacts DEF Ready
  <2>2. /\ n \in Nat /\ n \in Int /\ Front(calls) = SubSeq(calls, 1, n)
        /\ \A i \in 1..n : i \in 1..Len(calls)
        /\ \A i \in 1..n : calls[i] \in CallType
    BY <2>1 DEF Front
  <2> HIDE DEF n
  <2>3. /\ SubSeq(calls, 1, n) \in Seq(CallType)
        /\ Len(SubSeq(calls, 1, n)) = IF 1 <= n THEN n - 1 + 1 ELSE 0
        /\ \A i \in 1..(n - 1 + 1) : SubSeq(calls, 1, n)[i] = calls[1 + i - 1]
    BY <2>2, SubSeqProperties
  <2>4. Len(SubSeq(calls, 1, n)) = n /\ \A i \in 1..n : SubSeq(calls, 1, n)[i] = calls[i]
    BY <2>2, <2>3
  <2>5. n <= MaxCalls
    BY <1>1, <2>1, VfsCopyAssumption DEF Ready, n
  <2>6. \A i \in 1..n : AtWork(calls[i])
    BY <1>1, <2>2 DEF Ready
  <2>7. Ready(Front(calls))
    BY <2>2, <2>3, <2>4, <2>5, <2>6 DEF Ready
  <2> QED
    BY <1>1, <1>3, <2>7, SkipStep
<1> QED
  BY <1>2, <1>3 DEF CopyStep

(* The commands that build the tree make no call.                          *)
LEMMA BuildStep ==
  ASSUME CopyInv, Build
  PROVE  Inv' /\ script' \in Seq(Command) /\ UNCHANGED <<calls, job>> /\ job = NoJob
<1>1. Inv /\ script \in Seq(Command) /\ script # <<>> /\ job = NoJob
  BY DEF CopyInv, Build
<1>2. script' = Tail(script) /\ UNCHANGED <<calls, job>> /\ (Do(Head(script)) \/ UNCHANGED vars)
  BY DEF Build
<1>3. Head(script) \in Command /\ Tail(script) \in Seq(Command)
  BY <1>1
<1>4. ASSUME NEW c \in Command, Do(c) PROVE Inv'
  <2>1. c.p \in Path /\ c.q \in Path
    BY DEF Command
  <2>2. CASE Mkdir(c.p) \/ Touch(c.p)
    BY <1>1, <2>1, <2>2, CreateAtInv DEF Mkdir, Touch
  <2>3. CASE Cd(c.p)
    BY <1>1, <2>1, <2>3, CdInv
  <2>4. CASE Mv(c.p, c.q)
    BY <1>1, <2>1, <2>4, MvInv
  <2>5. CASE Sudo
    <3>1. data \in [Ids -> {None} \cup 1..MaxData] /\ sudo_mode \in BOOLEAN
          /\ status \in {"ok", "hung", "fault"}
      BY <1>1 DEF Inv, TypeOK
    <3> QED
      BY <1>1, <2>5, <3>1, SameTreeInv DEF Sudo, tree
  <2>6. CASE Write(c.p, FALSE)
    BY <1>1, <2>1, <2>6, WriteInv
  <2> QED
    BY <1>4, <2>2, <2>3, <2>4, <2>5, <2>6 DEF Do
<1> QED
  BY <1>1, <1>2, <1>3, <1>4, NextInv

(* cp -r as it is typed.                                                   *)
LEMMA CopyTreeStep ==
  ASSUME CopyInv, NEW src \in Path, NEW dst \in Path, CopyTree(src, dst)
  PROVE  Good /\ job' # NoJob /\ job'.made \in Ids \cup {NULL} /\ UNCHANGED script
<1>1. Inv /\ Ready(calls)
  BY DEF CopyInv
<1>2. PICK n \in nodes : n = Resolve(src) /\ IsDir(n) /\ job' = Ask(n, Into(dst, n))
  BY DEF CopyTree
<1>3. CpR(src, dst, <<>>) /\ UNCHANGED script
  BY DEF CopyTree
<1>4. Ready(<<>>)
  BY VfsCopyAssumption DEF Ready
<1>5. Good
  BY <1>1, <1>3, <1>4, CpRStep
<1>6. job'.of = n /\ job'.made = IF nodes = Ids THEN NULL ELSE Min(Ids \ nodes)
  BY <1>2 DEF Ask
<1>7. n # NULL /\ NoJob.of = NULL
  BY <1>1, NodesAreIds DEF NoJob
<1>8. nodes # Ids => Min(Ids \ nodes) \in Ids
  <2>1. SUFFICES ASSUME nodes # Ids PROVE Min(Ids \ nodes) \in Ids
    OBVIOUS
  <2>2. nodes \subseteq Ids
    BY <1>1 DEF Inv, TypeOK
  <2>3. Ids \ nodes # {}
    BY <2>2, <2>1
  <2>4. Ids \ nodes \in SUBSET Nat
    BY DEF Ids
  <2>5. \E x \in Ids \ nodes : \A y \in Ids \ nodes : x <= y
    BY <2>3, <2>4, Least
  <2> QED
    BY <2>5 DEF Min
<1> QED
  BY <1>3, <1>5, <1>6, <1>7, <1>8

(* The shell starts with no copy at work.                                  *)
LEMMA CopyInitInv == CopyInit => CopyInv
<1> SUFFICES ASSUME CopyInit PROVE CopyInv
  OBVIOUS
<1>1. Init /\ script = Script /\ calls = <<>> /\ job = NoJob
  BY DEF CopyInit
<1>2. Inv
  BY <1>1, InitInv
<1>3. Ready(calls)
  BY <1>1, VfsCopyAssumption DEF Ready
<1>4. script \in Seq(Command)
  BY <1>1, VfsCopyAssumption
<1>5. job.made = NULL
  BY <1>1 DEF NoJob
<1> QED
  BY <1>1, <1>2, <1>3, <1>4, <1>5 DEF CopyInv

(* What is copied, and to where, are paths.                                *)
LEMMA TypedCopies == Sources \subseteq Path /\ Dests \subseteq Path
BY VfsCopyAssumption, Zenon

(* Every step keeps it.                                                    *)
LEMMA CopyNextInv == CopyInv /\ [CopyNext]_allVars => CopyInv'
<1> SUFFICES ASSUME CopyInv, [CopyNext]_allVars PROVE CopyInv'
  OBVIOUS
<1>1. /\ Inv /\ script \in Seq(Command) /\ Ready(calls)
      /\ (calls # <<>> => job # NoJob) /\ job.made \in Ids \cup {NULL}
  BY DEF CopyInv
<1>2. CASE CopyStep
  <2>1. Good /\ UNCHANGED <<script, job>> /\ calls # <<>>
    BY <1>2, CopyStepGood DEF CopyStep
  <2> QED
    BY <1>1, <2>1 DEF CopyInv, Good
<1>3. ASSUME NEW src \in Sources, NEW dst \in Dests, CopyTree(src, dst) PROVE CopyInv'
  <2>1. Good /\ job' # NoJob /\ job'.made \in Ids \cup {NULL} /\ UNCHANGED script
    BY <1>3, CopyTreeStep, TypedCopies
  <2> QED
    BY <1>1, <2>1 DEF CopyInv, Good, NoJob
<1>4. CASE Build
  <2>1. Inv' /\ script' \in Seq(Command) /\ UNCHANGED <<calls, job>> /\ job = NoJob
    BY <1>4, BuildStep
  <2>2. calls' = <<>> /\ job' = NoJob
    BY <1>1, <2>1
  <2>3. Ready(calls)'
    BY <2>2, VfsCopyAssumption DEF Ready
  <2> QED
    BY <1>1, <2>1, <2>2, <2>3 DEF CopyInv, NoJob
<1>5. CASE UNCHANGED allVars
  <2>1. UNCHANGED vars /\ UNCHANGED <<script, calls, job>>
    BY <1>5 DEF allVars, vars
  <2>2. Inv'
    BY <1>1, <2>1, NextInv
  <2>3. Adds
    BY <2>1 DEF Adds, vars, tree
  <2>4. Ready(calls)'
    BY <1>1, <2>1, <2>3, ReadyNext
  <2> QED
    BY <1>1, <2>1, <2>2, <2>4 DEF CopyInv, NoJob
<1> QED
  BY <1>2, <1>3, <1>4, <1>5 DEF CopyNext

(* The strengthening holds whatever is copied, also when a directory is    *)
(* copied into itself or there is no node left: a directory on the stack   *)
(* stays one, and the place in its chain stays in it or right behind it.   *)
THEOREM CopyInvariant == CopySpec => []CopyInv
BY CopyInitInv, CopyNextInv, PTL DEF CopySpec

(* A copy that stops at any turn, for want of nodes too, leaves a sound    *)
(* tree (vfs_cp_r: it makes the directory first and then fills it).        *)
THEOREM CopyKeepsTreeSound == CopySpec => []TreeIsSound
<1>1. CopyInv => TreeIsSound
  BY DEF CopyInv, Inv, TreeIsSound
<1> QED
  BY <1>1, CopyInvariant, PTL

(* No call of vfs_cp_r follows a sibling pointer of a node that is gone:   *)
(* each is at a child of a directory that is there, or done with it.       *)
THEOREM CallsStayAtWork == CopySpec => []CopyTypeOK
<1>1. CopyInv => CopyTypeOK
  <2> SUFFICES ASSUME CopyInv PROVE CopyTypeOK
    OBVIOUS
  <2>1. TypeOK /\ Inv /\ Ready(calls) /\ job.made \in Ids \cup {NULL}
    BY DEF CopyInv, Inv
  <2>2. ASSUME NEW i \in 1..Len(calls)
        PROVE  IsDir(calls[i].node) /\ calls[i].next \in 1..Len(kids[calls[i].node]) + 1
    <3>1. calls[i] \in CallType /\ AtWork(calls[i])
      BY <2>1 DEF Ready
    <3>2. calls[i].node \in Ids /\ calls[i].next \in Nat
      BY <3>1 DEF CallType
    <3>3. Len(kids[calls[i].node]) \in Nat
      BY <2>1, <3>2 DEF TypeOK
    <3> QED
      BY <3>1, <3>2, <3>3 DEF AtWork, IsDir
  <2> QED
    BY <2>1, <2>2 DEF CopyTypeOK, Ready
<1> QED
  BY <1>1, CopyInvariant, PTL

(* Without sudo no copy, whatever its depth, hangs a node in a protected   *)
(* directory: vfs_cp_r asks is_protected again in every call (vfs.c).      *)
THEOREM CopyWritesWhereUserMay == CopySpec => CopyNeedsPrivilege
<1>1. ASSUME CopyInv, [CopyNext]_allVars, NEW d \in nodes, job' # NoJob, ~sudo_mode,
             kids'[d] # kids[d]
      PROVE  ~Protected(d)
  <2>1. Inv
    BY <1>1 DEF CopyInv
  <2>2. Adds
    <3>1. CASE CopyStep
      BY <1>1, <3>1, CopyStepGood DEF Good
    <3>2. ASSUME NEW src \in Sources, NEW dst \in Dests, CopyTree(src, dst) PROVE Adds
      BY <1>1, <3>2, CopyTreeStep, TypedCopies DEF Good
    <3>3. ~Build
      BY <1>1, BuildStep
    <3>4. CASE UNCHANGED allVars
      BY <3>4 DEF Adds, allVars, tree
    <3> QED
      BY <1>1, <3>1, <3>2, <3>3, <3>4 DEF CopyNext
  <2>3. ~UNCHANGED tree
    BY <1>1 DEF tree
  <2>4. PICK e, nm, t, len : e \in nodes /\ Allowed(e) /\ Create(e, nm, t, len)
    BY <2>2, <2>3 DEF Adds
  <2>5. PICK n \in Ids \ nodes : kids' = [kids EXCEPT ![e] = Append(@, n), ![n] = <<>>]
    BY <2>4 DEF Create
  <2>6. d # n /\ d \in Ids /\ kids \in [Ids -> Seq(Ids)]
    BY <2>1, <2>5, NodesAreIds DEF Inv, TypeOK
  <2>7. d = e
    <3> DEFINE a == Append(kids[e], n)
    <3>1. kids' = [kids EXCEPT ![e] = a, ![n] = <<>>]
      BY <2>5
    <3> HIDE DEF a
    <3> QED
      BY <1>1, <2>6, <3>1
  <2> QED
    BY <1>1, <2>4, <2>7 DEF Allowed, Protected
<1>2. CopyInv /\ [CopyNext]_allVars =>
        [\A d \in nodes :
           job' # NoJob /\ ~sudo_mode /\ kids'[d] # kids[d] => ~Protected(d)]_allVars
  BY <1>1
<1> QED
  BY <1>2, CopyInvariant, PTL DEF CopySpec, CopyNeedsPrivilege

-----------------------------------------------------------------------------
(* What a path leads to after a step.                                      *)

(* The search gives the first node of a chain that has the name.           *)
FirstHit(ks, d, nm, i) ==
  /\ i \in 1..Len(ks[d]) /\ name[ks[d][i]] = nm
  /\ \A j \in 1..(i - 1) : name[ks[d][j]] # nm

FindsFirst(ks, d, nm) ==
  /\ \A i : FirstHit(ks, d, nm, i) => FindIn(ks, d, nm) = ks[d][i]
  /\ FindIn(ks, d, nm) = NULL => \A i \in 1..Len(ks[d]) : name[ks[d][i]] # nm
  /\ FindIn(ks, d, nm) # NULL => \E i : FirstHit(ks, d, nm, i)

LEMMA SearchFacts ==
  \A ks \in [Ids -> Seq(Ids)] : \A d \in Ids : \A nm : FindsFirst(ks, d, nm)
<1> SUFFICES ASSUME NEW ks \in [Ids -> Seq(Ids)], NEW d \in Ids, NEW nm
             PROVE  FindsFirst(ks, d, nm)
  OBVIOUS
<1> DEFINE hits == Hits(ks, d, nm)
<1>1. /\ ks[d] \in Seq(Ids) /\ Len(ks[d]) \in Nat
      /\ hits = {i \in 1..Len(ks[d]) : name[ks[d][i]] = nm}
      /\ hits \in SUBSET Nat
  BY DEF Hits
<1>2. \A i \in 1..Len(ks[d]) : ks[d][i] # NULL
  <2>1. \A m \in Ids : m # NULL
    BY DEF Ids, NULL
  <2>2. \A i \in 1..Len(ks[d]) : ks[d][i] \in Ids
    BY <1>1
  <2> QED
    BY <2>1, <2>2
<1>3. hits = {} => FindIn(ks, d, nm) = NULL
  BY DEF FindIn
<1>4. ASSUME hits # {}
      PROVE  \E i : FirstHit(ks, d, nm, i) /\ FindIn(ks, d, nm) = ks[d][i]
  <2>1. \E i \in hits : \A j \in hits : i <= j
    <3> HIDE DEF hits
    <3> QED
      BY <1>1, <1>4, Least
  <2> DEFINE i == CHOOSE i \in hits : \A j \in hits : i <= j
  <2>2. i \in hits /\ \A j \in hits : i <= j
    BY <2>1, Zenon
  <2>3. FindIn(ks, d, nm) = ks[d][i]
    BY <1>4 DEF FindIn
  <2> HIDE DEF i
  <2>4. FirstHit(ks, d, nm, i)
    <3>1. i \in 1..Len(ks[d]) /\ name[ks[d][i]] = nm
      BY <1>1, <2>2
    <3>2. ASSUME NEW j \in 1..(i - 1) PROVE name[ks[d][j]] # nm
      <4>1. j \in 1..Len(ks[d]) /\ ~(i <= j)
        BY <1>1, <3>1
      <4> QED
        BY <1>1, <2>2, <4>1
    <3> QED
      BY <3>1, <3>2 DEF FirstHit
  <2> QED
    BY <2>3, <2>4
<1>5. ASSUME NEW i, NEW j, FirstHit(ks, d, nm, i), FirstHit(ks, d, nm, j) PROVE i = j
  BY <1>1, <1>5 DEF FirstHit
<1>6. ASSUME NEW i, FirstHit(ks, d, nm, i) PROVE i \in hits
  BY <1>1, <1>6 DEF FirstHit
<1> HIDE DEF hits
<1>7. \A i : FirstHit(ks, d, nm, i) => FindIn(ks, d, nm) = ks[d][i]
  BY <1>4, <1>5, <1>6
<1>8. FindIn(ks, d, nm) = NULL => \A i \in 1..Len(ks[d]) : name[ks[d][i]] # nm
  <2>1. FindIn(ks, d, nm) = NULL => hits = {}
    BY <1>2, <1>4 DEF FirstHit
  <2> QED
    BY <1>1, <2>1
<1>9. FindIn(ks, d, nm) # NULL => \E i : FirstHit(ks, d, nm, i)
  BY <1>3, <1>4
<1> QED
  BY <1>7, <1>8, <1>9 DEF FindsFirst

LEMMA FindsNext ==
  ASSUME NEW d \in Ids, NEW nm
  PROVE  (TypeOK => FindsFirst(kids, d, nm))'
<1>1. TypeOK => FindsFirst(kids, d, nm)
  BY SearchFacts DEF TypeOK
<1> QED
  BY <1>1, PTL

(* Where a component leads, as a table, which can be primed.               *)
Leads == [g \in Cells |-> [w \in Words |-> Enter(g, w)]]

LEMMA LeadsIs ==
  ASSUME NEW g \in Cells, NEW w \in Words
  PROVE  Leads[g][w] = Enter(g, w) /\ (Leads[g][w] = Enter(g, w))'
<1>1. Leads[g][w] = Enter(g, w)
  BY DEF Leads
<1> QED
  BY <1>1, PTL

(* A path leads through the table from component to component.             *)
Passes(to, n, comps) ==
  /\ to \in [0..Len(comps) -> Cells] /\ to[0] = n
  /\ \A k \in 1..Len(comps) : to[k] = Leads[to[k - 1]][comps[k]]

LEMMA EnterTyped ==
  ASSUME TypeOK, NEW g \in Cells, NEW c
  PROVE  Enter(g, c) \in Cells
<1>1. g # NULL => g \in Ids
  BY DEF Cells
<1>2. g # NULL => FindChild(g, <<c>>) \in Cells
  <2>1. g # NULL => FindChild(g, <<c>>) = NULL \/ Has(kids[g], FindChild(g, <<c>>))
    BY <1>1, FindFacts DEF FindChild, TypeOK
  <2>2. \A x : g # NULL /\ Has(kids[g], x) => x \in Ids
    BY <1>1 DEF TypeOK, Has
  <2> QED
    BY <2>1, <2>2 DEF Cells
<1> QED
  BY <1>1, <1>2 DEF Enter, TypeOK, Cells

LEMMA FollowPasses ==
  ASSUME NEW n \in Cells, NEW comps \in Seq(Words)
  PROVE  /\ TypeOK => \E to : Passes(to, n, comps) /\ Follow(n, comps) = to[Len(comps)]
         /\ (TypeOK => \E to : Passes(to, n, comps) /\ Follow(n, comps) = to[Len(comps)])'
<1> DEFINE L == Len(comps)
<1>1. ASSUME TypeOK
      PROVE  \E to : Passes(to, n, comps) /\ Follow(n, comps) = to[L]
  <2> DEFINE to == CHOOSE f : StepsOf(f, n, comps, L)
  <2>1. L \in Nat /\ \A k \in 1..L : comps[k] \in Words
    OBVIOUS
  <2>2. \E f : StepsOf(f, n, comps, L)
    BY <2>1, StepsExist, Zenon
  <2>3. StepsOf(to, n, comps, L)
    BY <2>2, Zenon
  <2>4. Follow(n, comps) = to[L]
    BY DEF Follow, StepsOf
  <2> HIDE DEF to
  <2>5. /\ DOMAIN to = 0..L /\ to = [k \in 0..L |-> to[k]]
        /\ \A k \in 0..L : to[k] = IF k = 0 THEN n ELSE Enter(to[k - 1], comps[k])
    BY <2>3 DEF StepsOf
  <2> DEFINE Out == {k \in 0..L : to[k] \notin Cells}
  <2>6. ASSUME Out # {} PROVE FALSE
    <3>1. PICK k \in Out : \A j \in Out : k <= j
      <4>1. Out \in SUBSET Nat
        OBVIOUS
      <4> HIDE DEF Out
      <4> QED
        BY <2>6, <4>1, Least
    <3>2. k \in 0..L /\ k # 0
      BY <2>5, <3>1
    <3>3. k \in 1..L /\ k - 1 \in 0..L /\ ~(k <= k - 1)
      BY <3>2
    <3>4. to[k - 1] \in Cells
      BY <3>1, <3>3
    <3> QED
      BY <1>1, <2>5, <3>1, <3>2, <3>4, EnterTyped
  <2>7. to \in [0..L -> Cells]
    BY <2>5, <2>6
  <2>8. to[0] = n
    BY <2>1, <2>5
  <2>9. ASSUME NEW k \in 1..L PROVE to[k] = Leads[to[k - 1]][comps[k]]
    <3>1. k \in 0..L /\ k # 0 /\ k - 1 \in 0..L
      BY <2>1
    <3>2. to[k] = Enter(to[k - 1], comps[k]) /\ to[k - 1] \in Cells /\ comps[k] \in Words
      BY <2>1, <2>5, <2>7, <3>1
    <3> QED
      BY <3>2, LeadsIs
  <2> QED
    BY <2>4, <2>7, <2>8, <2>9 DEF Passes
<1>2. TypeOK => \E to : Passes(to, n, comps) /\ Follow(n, comps) = to[L]
  BY <1>1
<1> HIDE DEF L
<1>3. (TypeOK => \E to : Passes(to, n, comps) /\ Follow(n, comps) = to[L])'
  BY <1>2, PTL
<1> QED
  BY <1>2, <1>3 DEF L

(* Where every component on the way leads as it did, so does the path.     *)
LEMMA FollowKeeps ==
  ASSUME TypeOK, TypeOK', NEW G \in SUBSET Cells, NULL \in G,
         NEW n \in G, NEW comps \in Seq(Words),
         \A g \in G : \A w \in Words :
            Leads[g][w] \in G /\ (Leads[g][w] # NULL => Leads'[g][w] = Leads[g][w]),
         Follow(n, comps) # NULL
  PROVE  Follow(n, comps)' = Follow(n, comps)
<1> DEFINE L == Len(comps)
<1>1. n \in Cells
  OBVIOUS
<1>2. PICK to : Passes(to, n, comps) /\ Follow(n, comps) = to[L]
  BY <1>1, FollowPasses
<1>3. PICK then : Passes(then, n, comps)' /\ Follow(n, comps)' = then[L]
  BY <1>1, FollowPasses
<1>4. /\ \A k \in 1..L : to[k] = Leads[to[k - 1]][comps[k]]
      /\ \A k \in 1..L : then[k] = Leads'[then[k - 1]][comps[k]]
      /\ to[0] = n /\ then[0] = n
  BY <1>2, <1>3 DEF Passes
<1>5. L \in Nat /\ \A k \in 1..L : comps[k] \in Words
  OBVIOUS
<1>6. \A w \in Words : Leads[NULL][w] = NULL
  BY LeadsIs DEF Cells, Enter
<1> DEFINE Bad == {k \in 0..L : to[k] \notin G \/ (to[k] # NULL /\ then[k] # to[k])}
<1>7. ASSUME Bad # {} PROVE FALSE
  <2>1. PICK k \in Bad : \A j \in Bad : k <= j
    <3>1. Bad \in SUBSET Nat
      OBVIOUS
    <3> HIDE DEF Bad
    <3> QED
      BY <1>7, <3>1, Least
  <2>2. k \in 0..L /\ k # 0
    BY <1>4, <2>1
  <2>3. k \in 1..L /\ k - 1 \in 0..L /\ ~(k <= k - 1)
    BY <2>2
  <2>4. k - 1 \notin Bad
    BY <2>1, <2>3
  <2>5. to[k - 1] \in G /\ (to[k - 1] # NULL => then[k - 1] = to[k - 1])
    BY <2>3, <2>4
  <2>6. to[k] = Leads[to[k - 1]][comps[k]] /\ then[k] = Leads'[then[k - 1]][comps[k]]
    BY <1>4, <2>3
  <2>7. comps[k] \in Words
    BY <1>5, <2>3
  <2>8. to[k] \in G
    BY <2>5, <2>6, <2>7
  <2>9. to[k] # NULL /\ then[k] # to[k]
    BY <2>1, <2>8
  <2>10. to[k - 1] # NULL
    BY <1>6, <2>6, <2>7, <2>9
  <2> QED
    BY <2>5, <2>6, <2>7, <2>9, <2>10
<1>8. L \in 0..L /\ L \notin Bad
  BY <1>5, <1>7
<1> QED
  BY <1>2, <1>3, <1>8

(* A path leads through its last component from where the rest leads.      *)
LEMMA PassesAgree ==
  ASSUME NEW n, NEW long \in Seq(Words), NEW short \in Seq(Words), NEW a, NEW b,
         Len(short) <= Len(long), \A k \in 1..Len(short) : short[k] = long[k],
         Passes(a, n, long), Passes(b, n, short)
  PROVE  a[Len(short)] = b[Len(short)]
<1> DEFINE L == Len(short)
           Bad == {k \in 0..L : a[k] # b[k]}
<1>1. /\ L \in Nat /\ Len(long) \in Nat
      /\ \A k \in 1..L : k \in 1..Len(long)
  OBVIOUS
<1>2. ASSUME Bad # {} PROVE FALSE
  <2>1. PICK k \in Bad : \A j \in Bad : k <= j
    <3>1. Bad \in SUBSET Nat
      OBVIOUS
    <3> HIDE DEF Bad
    <3> QED
      BY <1>2, <3>1, Least
  <2>2. k \in 0..L /\ k # 0
    BY <2>1 DEF Passes
  <2>3. k \in 1..L /\ k - 1 \in 0..L /\ ~(k <= k - 1)
    BY <2>2
  <2>4. a[k - 1] = b[k - 1]
    BY <2>1, <2>3
  <2>5. a[k] = Leads[a[k - 1]][long[k]] /\ b[k] = Leads[b[k - 1]][short[k]]
    BY <1>1, <2>3 DEF Passes
  <2> QED
    BY <2>1, <2>3, <2>4, <2>5
<1> QED
  BY <1>1, <1>2

LEMMA FrontFacts ==
  ASSUME NEW comps \in Seq(Words), comps # <<>>
  PROVE  /\ Front(comps) \in Seq(Words) /\ Last(comps) \in Words
         /\ Len(Front(comps)) = Len(comps) - 1 /\ Len(comps) >= 1 /\ Len(comps) \in Nat
         /\ Len(comps) = 1 => Front(comps) = <<>>
         /\ \A k \in 1..Len(Front(comps)) : Front(comps)[k] = comps[k]
<1>1. Len(comps) \in Nat /\ Len(comps) >= 1
  OBVIOUS
<1>2. /\ Front(comps) \in Seq(Words) /\ Last(comps) \in Words
      /\ Len(Front(comps)) = Len(comps) - 1
      /\ \A k \in 1..Len(Front(comps)) : Front(comps)[k] = comps[k]
  <2> DEFINE front == SubSeq(comps, 1, Len(comps) - 1)
  <2>1. Front(comps) = front /\ Last(comps) = comps[Len(comps)]
    BY DEF Front, Last
  <2>2. comps[Len(comps)] \in Words
    BY <1>1
  <2>3. front \in Seq(Words) /\ \A k \in 1..(Len(comps) - 1) : front[k] = comps[k]
    BY <1>1
  <2>4. Len(front) = Len(comps) - 1
    <3>1. /\ \A i \in 1..(Len(comps) - 1) : comps[i] \in Words
          /\ Len(comps) - 1 \in Int
      BY <1>1
    <3>2. Len(front) = IF 1 <= Len(comps) - 1 THEN (Len(comps) - 1) - 1 + 1 ELSE 0
      BY <3>1, SubSeqProperties
    <3> DEFINE l == Len(comps)
    <3>3. l \in Nat /\ l >= 1 /\ Len(front) = IF 1 <= l - 1 THEN (l - 1) - 1 + 1 ELSE 0
      BY <1>1, <3>2
    <3> HIDE DEF front, l
    <3>4. Len(front) = l - 1
      BY <3>3
    <3> QED
      BY <3>4 DEF l
  <2> HIDE DEF front
  <2> QED
    BY <2>1, <2>2, <2>3, <2>4
<1>3. Len(comps) = 1 => Front(comps) = <<>>
  BY <1>2, EmptySeq
<1> QED
  BY <1>1, <1>2, <1>3

LEMMA FollowLast ==
  ASSUME NEW n \in Cells, NEW comps \in Seq(Words), comps # <<>>
  PROVE  /\ TypeOK => Follow(n, comps) = Leads[Follow(n, Front(comps))][Last(comps)]
         /\ (TypeOK => Follow(n, comps) = Leads[Follow(n, Front(comps))][Last(comps)])'
<1>1. ASSUME TypeOK PROVE Follow(n, comps) = Leads[Follow(n, Front(comps))][Last(comps)]
  <2>1. /\ Front(comps) \in Seq(Words) /\ Len(Front(comps)) = Len(comps) - 1 /\ Len(comps) >= 1
        /\ \A k \in 1..Len(Front(comps)) : Front(comps)[k] = comps[k]
        /\ Len(comps) \in Nat
    BY FrontFacts
  <2>2. PICK a : Passes(a, n, comps) /\ Follow(n, comps) = a[Len(comps)]
    BY <1>1, FollowPasses
  <2>3. PICK b : Passes(b, n, Front(comps)) /\ Follow(n, Front(comps)) = b[Len(Front(comps))]
    BY <1>1, <2>1, FollowPasses
  <2>4. a[Len(comps) - 1] = b[Len(comps) - 1]
    <3>1. Len(Front(comps)) <= Len(comps)
      BY <2>1
    <3>2. a[Len(Front(comps))] = b[Len(Front(comps))]
      BY <2>1, <2>2, <2>3, <3>1, PassesAgree
    <3> QED
      BY <2>1, <3>2
  <2>5. a[Len(comps)] = Leads[a[Len(comps) - 1]][comps[Len(comps)]]
    BY <2>1, <2>2 DEF Passes
  <2> QED
    BY <2>1, <2>2, <2>3, <2>4, <2>5 DEF Last
<1>2. TypeOK => Follow(n, comps) = Leads[Follow(n, Front(comps))][Last(comps)]
  BY <1>1
<1> QED
  BY <1>2, PTL

LEMMA FollowNothing ==
  ASSUME NEW n \in Cells
  PROVE  /\ TypeOK => Follow(n, <<>>) = n
         /\ (TypeOK => Follow(n, <<>>) = n)'
<1>1. ASSUME TypeOK PROVE Follow(n, <<>>) = n
  <2>1. <<>> \in Seq(Words) /\ Len(<<>>) = 0
    OBVIOUS
  <2>2. PICK to : Passes(to, n, <<>>) /\ Follow(n, <<>>) = to[0]
    BY <1>1, <2>1, FollowPasses
  <2> QED
    BY <2>2 DEF Passes
<1>2. TypeOK => Follow(n, <<>>) = n
  BY <1>1
<1> QED
  BY <1>2, PTL

(* The search in a directory after something was made, moved or renamed.   *)
LEMMA FindNext ==
  ASSUME TypeOK', NEW d \in Ids, NEW nm, NEW i \in 1..Len(kids'[d]), name'[kids'[d][i]] = nm,
         \A j \in 1..(i - 1) : name'[kids'[d][j]] # nm
  PROVE  FindChild(d, nm)' = kids'[d][i]
<1>1. FindsFirst(kids, d, nm)'
  BY FindsNext
<1> QED
  BY <1>1 DEF FindsFirst, FirstHit, FindChild

LEMMA CreateFinds ==
  ASSUME Inv, Inv', NEW d \in nodes, NEW nm, NEW t, NEW len, Create(d, nm, t, len)
  PROVE  /\ \A g \in nodes : \A x : FindChild(g, x) # NULL => FindChild(g, x)' = FindChild(g, x)
         /\ \E n \in nodes' \ nodes :
               /\ FindChild(d, nm) = NULL => FindChild(d, nm)' = n
               /\ type'[n] = t /\ data'[n] = len
<1>1. PICK n \in Ids \ nodes :
        /\ nodes' = nodes \cup {n}
        /\ kids' = [kids EXCEPT ![d] = Append(@, n), ![n] = <<>>]
        /\ name' = [name EXCEPT ![n] = nm]
        /\ type' = [type EXCEPT ![n] = t]
        /\ data' = [data EXCEPT ![n] = len]
  BY DEF Create
<1>2. /\ d \in Ids /\ n \in Ids /\ n # d
      /\ kids \in [Ids -> Seq(Ids)] /\ DOMAIN name = Ids /\ DOMAIN type = Ids /\ DOMAIN data = Ids
      /\ \A g \in nodes : g \in Ids /\ g # n
      /\ TypeOK'
  BY <1>1, NodesAreIds DEF Inv, TypeOK
<1>3. /\ name'[n] = nm /\ type'[n] = t /\ data'[n] = len
      /\ \A m \in nodes : name'[m] = name[m]
  BY <1>1, <1>2
<1>4. \A g \in Ids : kids[g] \in Seq(Ids) /\ \A i \in 1..Len(kids[g]) : kids[g][i] \in nodes
  BY ShapeFacts DEF Inv, Has
<1>5. /\ kids'[d] = Append(kids[d], n)
      /\ \A g \in nodes : g # d => kids'[g] = kids[g]
  <2> DEFINE a == Append(kids[d], n)
  <2>1. kids' = [kids EXCEPT ![d] = a, ![n] = <<>>]
    BY <1>1
  <2> HIDE DEF a
  <2>2. kids'[d] = a /\ \A g \in nodes : g # d => kids'[g] = kids[g]
    BY <1>2, <2>1
  <2> QED
    BY <2>2 DEF a
<1>6. /\ Len(kids'[d]) = Len(kids[d]) + 1 /\ kids'[d][Len(kids[d]) + 1] = n
      /\ \A i \in 1..Len(kids[d]) : kids'[d][i] = kids[d][i]
      /\ Len(kids[d]) \in Nat
  BY <1>2, <1>4, <1>5, AppendFacts
<1>7. ASSUME NEW g \in nodes, NEW x, FindChild(g, x) # NULL
      PROVE  FindChild(g, x)' = FindChild(g, x)
  <2>1. g \in Ids /\ kids[g] \in Seq(Ids) /\ Len(kids[g]) \in Nat
    BY <1>2
  <2>2. FindsFirst(kids, g, x)
    BY <1>2, <2>1, SearchFacts
  <2>3. PICK i : FirstHit(kids, g, x, i) /\ FindChild(g, x) = kids[g][i]
    BY <1>7, <2>2 DEF FindsFirst, FindChild
  <2>4. /\ i \in 1..Len(kids[g]) /\ name[kids[g][i]] = x
        /\ \A j \in 1..(i - 1) : j \in 1..Len(kids[g]) /\ name[kids[g][j]] # x
    BY <2>1, <2>3 DEF FirstHit
  <2>5. /\ \A j \in 1..Len(kids[g]) : kids'[g][j] = kids[g][j] /\ j \in 1..Len(kids'[g])
        /\ \A j \in 1..Len(kids[g]) : name'[kids'[g][j]] = name[kids[g][j]]
    <3>1. \A j \in 1..Len(kids[g]) : kids'[g][j] = kids[g][j] /\ j \in 1..Len(kids'[g])
      <4>1. CASE g = d
        BY <1>6, <4>1
      <4>2. CASE g # d
        BY <1>5, <4>2
      <4> QED
        BY <4>1, <4>2
    <3>2. \A j \in 1..Len(kids[g]) : kids[g][j] \in nodes
      BY <1>4, <2>1
    <3> QED
      BY <1>3, <3>1, <3>2
  <2>6. /\ i \in 1..Len(kids'[g]) /\ name'[kids'[g][i]] = x
        /\ \A j \in 1..(i - 1) : name'[kids'[g][j]] # x
        /\ kids'[g][i] = kids[g][i]
    BY <2>4, <2>5
  <2>7. FindChild(g, x)' = kids'[g][i]
    <3>1. TypeOK' /\ g \in Ids
      BY <1>2
    <3>2. /\ i \in 1..Len(kids'[g]) /\ name'[kids'[g][i]] = x
          /\ \A j \in 1..(i - 1) : name'[kids'[g][j]] # x
      BY <2>6
    <3> QED
      BY <3>1, <3>2, FindNext, Zenon
  <2> QED
    BY <2>3, <2>6, <2>7
<1>8. ASSUME FindChild(d, nm) = NULL PROVE FindChild(d, nm)' = n
  <2>1. \A i \in 1..Len(kids[d]) : name[kids[d][i]] # nm
    BY <1>2, <1>8, SearchFacts DEF FindsFirst, FindChild
  <2> DEFINE l == Len(kids[d]) + 1
  <2>2. l \in 1..Len(kids'[d]) /\ name'[kids'[d][l]] = nm /\ kids'[d][l] = n
    BY <1>3, <1>6
  <2>3. \A j \in 1..(l - 1) : name'[kids'[d][j]] # nm
    <3> SUFFICES ASSUME NEW j \in 1..Len(kids[d]) PROVE name'[kids'[d][j]] # nm
      BY <1>6
    <3>1. kids[d][j] \in nodes /\ kids'[d][j] = kids[d][j] /\ name[kids[d][j]] # nm
      BY <1>2, <1>4, <1>6, <2>1
    <3> QED
      BY <1>3, <3>1
  <2> HIDE DEF l
  <2>4. FindChild(d, nm)' = kids'[d][l]
    BY <1>2, <2>2, <2>3, FindNext
  <2> QED
    BY <2>2, <2>4
<1> QED
  BY <1>1, <1>3, <1>7, <1>8

(* Where a path leads, from where it starts.                               *)
LEMMA ResolveFrom ==
  ASSUME NEW s, NEW p
  PROVE  /\ Start(p.anchor) = s => Resolve(p) = Follow(s, p.comps)
         /\ (Start(p.anchor) = s => Resolve(p) = Follow(s, p.comps))'
<1>1. Start(p.anchor) = s => Resolve(p) = Follow(s, p.comps)
  BY DEF Resolve
<1> QED
  BY <1>1, PTL

LEMMA CellFacts ==
  ASSUME Inv
  PROVE  Reached \in SUBSET Cells /\ NULL \in Reached
BY DEF Reached, Cells

(* A path that leads nowhere, into a directory that is there, ends in a    *)
(* plain word, which is the name of what is made.                          *)
LEMMA NowhereFacts ==
  ASSUME Inv, NEW p \in Path, Resolve(p) = NULL, NEW s, s = Start(p.anchor),
         NEW d \in nodes, d = DirPart(p)
  PROVE  /\ p.comps \in Seq(Words) /\ p.comps # <<>> /\ s \in Reached
         /\ d = Follow(s, Front(p.comps))
         /\ Last(p.comps) \in Words \ {"", ".", ".."}
         /\ NamePart(p) = <<Last(p.comps)>> /\ FindChild(d, NamePart(p)) = NULL
<1>1. p.comps \in Seq(Words) /\ p.anchor \in {"", "/", "~"}
  BY DEF Path
<1>2. TypeOK /\ s \in Reached /\ s # NULL /\ s \in Cells
  BY RootReached, CellFacts DEF Start, Inv
<1>3. Resolve(p) = Follow(s, p.comps)
  BY DEF Resolve
<1>4. p.comps # <<>>
  BY <1>2, <1>3, FollowNothing
<1>5. /\ Front(p.comps) \in Seq(Words) /\ Last(p.comps) \in Words
      /\ Len(Front(p.comps)) = Len(p.comps) - 1 /\ Len(p.comps) \in Nat /\ Len(p.comps) >= 1
  BY <1>1, <1>4, FrontFacts, Zenon
<1>6. d = Follow(s, Front(p.comps))
  <2>1. CASE HasSlash(p)
    BY <1>4, <2>1 DEF DirPart
  <2>2. CASE ~HasSlash(p)
    <3>1. p.anchor = "" /\ Len(p.comps) = 1
      <4>1. p.anchor # "/" /\ p.anchor # "~" /\ ~(Len(p.comps) > 1)
        BY <1>4, <2>2, Zenon DEF HasSlash
      <4>2. p.anchor = ""
        BY <1>1, <4>1
      <4> DEFINE l == Len(p.comps)
      <4>3. l \in Nat /\ l >= 1 /\ ~(l > 1)
        BY <1>5, <4>1
      <4> HIDE DEF l
      <4>4. l = 1
        BY <4>3
      <4> QED
        BY <4>2, <4>4 DEF l
    <3>2. Front(p.comps) = <<>>
      BY <1>1, <1>4, <3>1, FrontFacts, Zenon
    <3>3. s = current_dir /\ d = current_dir
      BY <2>2, <3>1 DEF Start, DirPart
    <3> QED
      BY <1>2, <3>2, <3>3, FollowNothing
  <2> QED
    BY <2>1, <2>2
<1> DEFINE c == Last(p.comps)
<1>7. Enter(d, c) = NULL
  <2>1. Follow(s, p.comps) = Leads[d][c]
    BY <1>1, <1>2, <1>4, <1>6, FollowLast
  <2>2. d \in Cells
    BY NodesAreIds DEF Cells
  <2> QED
    BY <1>3, <1>5, <2>1, <2>2, LeadsIs
<1>8. d # NULL /\ parent[d] # NULL
  <2>1. d \in Reached /\ d # NULL
    BY ResolveReached, NodesAreIds
  <2>2. parent[d] \in Ids
    BY <2>1, ReachedFacts, AnchoredFacts DEF Inv
  <2> QED
    BY <2>1, <2>2 DEF Ids, NULL
<1>9. c \notin {"", ".", ".."} /\ FindChild(d, <<c>>) = NULL
  BY <1>7, <1>8 DEF Enter
<1>10. NamePart(p) = <<c>>
  BY <1>4, <1>9 DEF NamePart, Named
<1> QED
  BY <1>1, <1>2, <1>4, <1>5, <1>6, <1>9, <1>10

LEMMA NewIsFound ==
  ASSUME Inv, Inv', NEW d \in nodes, NEW nm, NEW t, NEW len, Create(d, nm, t, len)
  PROVE  \E n \in nodes' \ nodes :
            /\ FindChild(d, nm) = NULL => FindChild(d, nm)' = n
            /\ type'[n] = t /\ data'[n] = len
BY CreateFinds

LEMMA MadeIsFound ==
  ASSUME Inv, Inv', NEW p \in Path, Resolve(p) = NULL, NEW t, NEW len,
         CreateAt(p, t, len), ~Hang, StartStays(p)
  PROVE  \E n \in nodes' \ nodes : Resolve(p)' = n /\ type'[n] = t /\ data'[n] = len
<1>1. PICK d \in nodes : d = DirPart(p) /\ Create(d, NamePart(p), t, len)
  BY DEF CreateAt, Checked
<1>2. PICK s : s = Start(p.anchor)
  OBVIOUS
<1>3. PICK F, c : F = Front(p.comps) /\ c = Last(p.comps)
  OBVIOUS
<1>4. /\ p.comps \in Seq(Words) /\ p.comps # <<>> /\ s \in Reached
      /\ d = Follow(s, F)
      /\ c \in Words /\ c \notin {"", ".", ".."}
      /\ NamePart(p) = <<c>> /\ FindChild(d, <<c>>) = NULL
  BY <1>1, <1>2, <1>3, NowhereFacts
<1>5. F \in Seq(Words)
  BY <1>4, <1>3, FrontFacts
<1>6. PICK n \in nodes' \ nodes : FindChild(d, <<c>>)' = n /\ type'[n] = t /\ data'[n] = len
  <2>1. Create(d, <<c>>, t, len)
    BY <1>1, <1>4
  <2> QED
    <3>1. FindChild(d, <<c>>) = NULL
      BY <1>4
    <3>2. \E n \in nodes' \ nodes :
             /\ FindChild(d, <<c>>) = NULL => FindChild(d, <<c>>)' = n
             /\ type'[n] = t /\ data'[n] = len
      BY <2>1, NewIsFound
    <3> QED
      BY <3>1, <3>2
<1>7. TypeOK /\ TypeOK' /\ d # NULL /\ d \in Cells /\ s \in Cells
  BY <1>4, NodesAreIds, CellFacts DEF Inv, Cells
<1>8. ASSUME NEW g \in Reached, NEW w \in Words
      PROVE  Leads[g][w] \in Reached /\ (Leads[g][w] # NULL => Leads'[g][w] = Leads[g][w])
  <2>1. g \in Cells
    BY CellFacts
  <2>2. Leads[g][w] = Enter(g, w) /\ Leads'[g][w] = Enter(g, w)'
    BY <2>1, LeadsIs
  <2>3. Enter(g, w) \in Reached
    BY EnterReached
  <2>4. ASSUME Enter(g, w) # NULL PROVE Enter(g, w)' = Enter(g, w)
    <3>1. g # NULL
      BY <2>4 DEF Enter
    <3>2. g \in nodes /\ g \in Ids
      BY <3>1, ReachedFacts
    <3>3. parent'[g] = parent[g]
      BY <1>1, <3>2 DEF Create, Inv, TypeOK
    <3>4. FindChild(g, <<w>>) # NULL => FindChild(g, <<w>>)' = FindChild(g, <<w>>)
      BY <1>1, <3>2, CreateFinds
    <3> QED
      BY <2>4, <3>1, <3>3, <3>4 DEF Enter
  <2> QED
    BY <2>2, <2>3, <2>4
<1>9. Follow(s, F)' = d
  <2>1. Reached \in SUBSET Cells /\ NULL \in Reached
    BY CellFacts
  <2>2. PICK G : G = Reached
    OBVIOUS
  <2>3. /\ G \in SUBSET Cells /\ NULL \in G /\ s \in G
        /\ \A g \in G : \A w \in Words :
              Leads[g][w] \in G /\ (Leads[g][w] # NULL => Leads'[g][w] = Leads[g][w])
    BY <1>4, <1>8, <2>1, <2>2
  <2>4. Follow(s, F) # NULL
    BY <1>4, <1>7
  <2>5. Follow(s, F)' = Follow(s, F)
    BY <1>5, <1>7, <2>3, <2>4, FollowKeeps
  <2> QED
    BY <1>4, <2>5
<1>10. Start(p.anchor)' = s
  <2>1. current_dir' = current_dir
    BY <1>1 DEF Create
  <2>2. p.anchor \in {"", "/", "~"}
    BY DEF Path
  <2>3. CASE p.anchor = "~"
    BY <1>2, <2>3 DEF StartStays, Start
  <2>4. CASE p.anchor # "~"
    BY <1>2, <2>1, <2>2, <2>4 DEF Start
  <2> QED
    BY <2>3, <2>4
<1>11. Resolve(p)' = Follow(s, p.comps)'
  BY <1>10, ResolveFrom
<1>12. Follow(s, p.comps)' = Leads'[d][c]
  <2>1. (TypeOK => Follow(s, p.comps) = Leads[Follow(s, Front(p.comps))][Last(p.comps)])'
    BY <1>4, <1>7, FollowLast, Zenon
  <2>2. (TypeOK => Follow(s, p.comps) = Leads[Follow(s, F)][c])'
    BY <2>1, <1>3
  <2> QED
    BY <1>7, <1>9, <2>2
<1>13. Leads'[d][c] = FindChild(d, <<c>>)'
  <2>1. Leads'[d][c] = Enter(d, c)'
    BY <1>4, <1>7, LeadsIs
  <2>2. Enter(d, c)' = FindChild(d, <<c>>)'
    BY <1>4, <1>7 DEF Enter
  <2> QED
    BY <2>1, <2>2
<1> QED
  BY <1>6, <1>11, <1>12, <1>13

(* What was put first into a directory is what the search finds there.     *)
LEMMA RelinkFinds ==
  ASSUME TypeOK, TypeOK', TreeShape, NEW n \in nodes, NEW d \in Ids, NEW nm,
         kids' = [Unlinked(n) EXCEPT ![d] = Insert(@, n)], name'[n] = nm
  PROVE  FindChild(d, nm)' = n
<1>1. Unlinked(n) \in [Ids -> Seq(Ids)] /\ n \in Ids
  BY UnlinkedFacts DEF TypeOK
<1> DEFINE u == Unlinked(n)[d]
           i == Insert(u, n)
<1>2. u \in Seq(Ids)
  BY <1>1
<1>3. kids'[d] = i
  <2>1. kids' = [Unlinked(n) EXCEPT ![d] = i]
    OBVIOUS
  <2> HIDE DEF i
  <2> QED
    BY <1>1, <2>1
<1> HIDE DEF u
<1>4. i[1] = n /\ Len(i) = Len(u) + 1 /\ Len(u) \in Nat
  BY <1>1, <1>2, ConsFacts DEF Insert
<1> HIDE DEF i
<1>5. /\ 1 \in 1..Len(kids'[d]) /\ name'[kids'[d][1]] = nm /\ kids'[d][1] = n
      /\ \A j \in 1..(1 - 1) : name'[kids'[d][j]] # nm
  BY <1>3, <1>4
<1>6. FindChild(d, nm)' = kids'[d][1]
  BY <1>5, FindNext, Zenon
<1> QED
  BY <1>5, <1>6

LEMMA OneElement ==
  ASSUME NEW S, NEW s \in Seq(S), Len(s) = 1
  PROVE  \E c \in S : s = <<c>> /\ s[1] = c
<1>1. s[1] \in S
  OBVIOUS
<1>2. PICK c \in S : s[1] = c
  BY <1>1
<1>3. <<c>> \in Seq(S) /\ Len(<<c>>) = 1 /\ <<c>>[1] = c
  OBVIOUS
<1>4. s = <<c>>
  BY <1>2, <1>3, SeqEqual
<1> QED
  BY <1>2, <1>4

LEMMA OneWord ==
  ASSUME NEW c \in Words
  PROVE  /\ <<c>> \in Seq(Words) /\ <<c>> # <<>> /\ Len(<<c>>) = 1 /\ <<c>>[1] = c
         /\ Last(<<c>>) = c /\ Front(<<c>>) = <<>>
<1>1. <<c>> \in Seq(Words) /\ <<c>> # <<>> /\ Len(<<c>>) = 1 /\ <<c>>[1] = c
  OBVIOUS
<1> QED
  BY <1>1, FrontFacts DEF Last

LEMMA IdsAreCells == \A m \in Ids : m \in Cells /\ m # NULL
BY DEF Ids, NULL, Cells

(* A path of one plain word leads to what the search finds there.          *)
LEMMA WordLeads ==
  ASSUME TypeOK', NEW p \in Path, p.anchor = "", Len(p.comps) = 1, PlainWord(p.comps[1]),
         NEW d \in Ids, current_dir' = d
  PROVE  Resolve(p)' = FindChild(d, p.comps)'
<1>1. PICK c \in Words : p.comps = <<c>>
  <2> DEFINE cs == p.comps
  <2>1. cs \in Seq(Words) /\ Len(cs) = 1
    BY Zenon DEF Path
  <2> HIDE DEF cs
  <2>2. \E c \in Words : cs = <<c>>
    BY <2>1, OneElement, Zenon
  <2> QED
    BY <2>2 DEF cs
<1>2. /\ <<c>> \in Seq(Words) /\ <<c>> # <<>> /\ Last(<<c>>) = c /\ Front(<<c>>) = <<>>
  BY OneWord, Zenon
<1>3. c \notin {"", ".", ".."}
  <2>1. p.comps[1] = c
    BY <1>1, OneWord, Zenon
  <2> QED
    BY <2>1, Zenon DEF PlainWord
<1>4. d \in Cells /\ d # NULL
  BY IdsAreCells, Zenon
<1>5. Resolve(p)' = Follow(d, p.comps)'
  <2>1. Start(p.anchor)' = d
    BY DEF Start
  <2> QED
    BY <2>1, ResolveFrom
<1>6. Follow(d, <<c>>)' = Leads'[Follow(d, <<>>)'][c]
  <2>1. (TypeOK => Follow(d, <<c>>) = Leads[Follow(d, Front(<<c>>))][Last(<<c>>)])'
    BY <1>2, <1>4, FollowLast, Zenon
  <2> QED
    BY <1>2, <2>1
<1>7. Follow(d, <<>>)' = d
  <2>1. (TypeOK => Follow(d, <<>>) = d)'
    BY <1>4, FollowNothing
  <2> QED
    BY <2>1
<1>8. Leads'[d][c] = Enter(d, c)'
  BY <1>4, LeadsIs
<1>9. Enter(d, c)' = FindChild(d, <<c>>)'
  BY <1>4, <1>3 DEF Enter
<1>10. Resolve(p)' = Follow(d, <<c>>)' /\ FindChild(d, p.comps)' = FindChild(d, <<c>>)'
  BY <1>1, <1>5
<1> QED
  BY <1>6, <1>7, <1>8, <1>9, <1>10

(* mv                                                                      *)
LEMMA MovedIsFound ==
  ASSUME Inv, Inv', NEW src \in Path, NEW dst \in Path, NEW n \in nodes, n = Resolve(src),
         Mv(src, dst), ~Hang, NEW d, d = Resolve(dst)
  PROVE  IF d \in nodes /\ type[d] = "dir"
         THEN FindChild(d, name[n])' = n
         ELSE /\ FindChild(parent[n], WholeName(dst))' = n
              /\ parent[n] = current_dir /\ dst.anchor = "" /\ Len(dst.comps) = 1
                   /\ PlainWord(dst.comps[1]) => Resolve(dst)' = n
<1>1. TypeOK /\ TypeOK' /\ TreeShape
  BY DEF Inv
<1>2. \/ \E e \in nodes : e = d /\ type[e] = "dir" /\ MoveInto(n, e)
      \/ (\A e \in nodes : e = d => type[e] # "dir") /\ Rename(n, WholeName(dst))
  BY DEF Mv, Checked
<1>3. CASE d \in nodes /\ type[d] = "dir" /\ MoveInto(n, d)
  <2>1. PICK nm : nm = name[n]
    OBVIOUS
  <2>2. d \in Ids /\ kids' = [Unlinked(n) EXCEPT ![d] = Insert(@, n)] /\ name'[n] = nm /\ name' = name
    BY <1>3, <2>1, NodesAreIds DEF MoveInto
  <2>3. FindChild(d, nm)' = n
    BY <1>1, <2>2, RelinkFinds
  <2> QED
    BY <1>3, <2>1, <2>2, <2>3
<1>4. CASE ~(d \in nodes /\ type[d] = "dir") /\ Rename(n, WholeName(dst))
  <2>1. PICK e, nm : e = parent[n] /\ nm = WholeName(dst)
    OBVIOUS
  <2>2. n # root /\ n \in Reached
    BY ResolveReached DEF Mv
  <2>3. e \in Ids
    BY <2>1, <2>2, ReachedFacts, NodesAreIds, AnchoredFacts DEF Inv
  <2>4. /\ kids' = [Unlinked(n) EXCEPT ![e] = Insert(@, n)]
        /\ name' = [name EXCEPT ![n] = nm] /\ parent' = parent /\ current_dir' = current_dir
    BY <1>4, <2>1 DEF Rename
  <2>5. name'[n] = nm
    BY <1>1, <2>4, NodesAreIds DEF TypeOK
  <2>6. FindChild(e, nm)' = n
    BY <1>1, <2>3, <2>4, <2>5, RelinkFinds
  <2>7. FindChild(parent[n], WholeName(dst))' = n
    BY <2>1, <2>4, <2>6
  <2>8. ASSUME parent[n] = current_dir, dst.anchor = "", Len(dst.comps) = 1, PlainWord(dst.comps[1])
        PROVE  Resolve(dst)' = n
    <3>1. current_dir' = e /\ nm = dst.comps
      BY <2>1, <2>4, <2>8 DEF WholeName
    <3>2. Resolve(dst)' = FindChild(e, dst.comps)'
      BY <1>1, <2>3, <2>8, <3>1, WordLeads
    <3> QED
      BY <2>6, <3>1, <3>2
  <2> QED
    BY <1>4, <2>7, <2>8
<1> QED
  BY <1>2, <1>3, <1>4

(* As long as no chain, name or parent changes, a path leads where it led. *)
LEMMA SameTreeFinds ==
  ASSUME Inv, Inv', kids' = kids, parent' = parent, name' = name, current_dir' = current_dir,
         NEW p \in Path, NEW n \in nodes, n = Resolve(p)
  PROVE  Resolve(p)' = n
<1>1. HomeRoot' = HomeRoot
  BY DEF HomeRoot, HomeRootIn, FindIn, Hits
<1>2. PICK s : s = Start(p.anchor)
  OBVIOUS
<1>3. Start(p.anchor)' = s
  BY <1>1, <1>2 DEF Start
<1>4. Leads' = Leads
  BY DEF Leads, Enter, FindChild, FindIn, Hits
<1>5. p.comps \in Seq(Words) /\ s \in Reached
  BY <1>2, RootReached, Zenon DEF Path, Start
<1>6. Follow(s, p.comps)' = Follow(s, p.comps)
  <2>1. PICK G : G = Reached
    OBVIOUS
  <2>2. G \in SUBSET Cells /\ NULL \in G /\ s \in G /\ TypeOK /\ TypeOK'
    BY <1>5, <2>1, CellFacts DEF Inv
  <2>3. ASSUME NEW g \in G, NEW w \in Words
        PROVE  Leads[g][w] \in G /\ (Leads[g][w] # NULL => Leads'[g][w] = Leads[g][w])
    BY <1>4, <2>1, <2>2, EnterReached, LeadsIs
  <2>4. Follow(s, p.comps) # NULL
    BY <1>2, NodesAreIds DEF Resolve
  <2> QED
    BY <1>5, <2>2, <2>3, <2>4, FollowKeeps
<1>7. Resolve(p)' = Follow(s, p.comps)'
  BY <1>3, ResolveFrom
<1> QED
  BY <1>2, <1>6, <1>7 DEF Resolve

(* resolve_path finds what a path made, wrote or moved, though the         *)
(* functions that make and move take the path apart from its other end;    *)
(* and cat shows what echo wrote.                                          *)
THEOREM PathsFindWhatTheyMade == ReadSpec => FoundWherePut
<1>1. ASSUME Inv, Inv', NEW p \in Path, CreateAt(p, "dir", None) \/ CreateAt(p, "file", None),
             Resolve(p) = NULL, nodes' # nodes, StartStays(p)
      PROVE  Resolve(p)' \in nodes' \ nodes
  <2>1. ~Hang
    BY <1>1 DEF Hang, tree
  <2> QED
    BY <1>1, <2>1, MadeIsFound
<1>2. ASSUME Inv, Inv', NEW p \in Path, NEW append \in BOOLEAN, Write(p, append),
             status' = "ok", StartStays(p)
      PROVE  /\ Cat(p).result \in {0, -1}
             /\ Cat(p)' = [result |-> 0,
                           data |-> IF append /\ Cat(p).data # None THEN Cat(p).data + 1 ELSE 1]
  <2>1. ~Hang
    BY <1>2 DEF Hang
  <2>2. CASE Resolve(p) = NULL /\ CreateAt(p, "file", 1)
    <3>1. PICK n \in nodes' \ nodes : Resolve(p)' = n /\ type'[n] = "file" /\ data'[n] = 1
      BY <1>2, <2>1, <2>2, MadeIsFound
    <3>2. Resolve(p) \notin nodes
      BY <1>2, <2>2, NodesAreIds
    <3>3. Cat(p) = [result |-> -1, data |-> None]
      BY <3>2 DEF Cat
    <3>4. Cat(p)' = [result |-> 0, data |-> 1]
      BY <3>1 DEF Cat
    <3> QED
      BY <3>3, <3>4
  <2>3. ASSUME NEW n \in nodes, n = Resolve(p), WriteTo(n, append) 
        PROVE  /\ Cat(p).result \in {0, -1}
               /\ Cat(p)' = [result |-> 0,
                             data |-> IF append /\ Cat(p).data # None THEN Cat(p).data + 1 ELSE 1]
    <3>1. /\ type[n] = "file"
          /\ data' = [data EXCEPT ![n] = IF append /\ @ # None THEN @ + 1 ELSE 1]
          /\ UNCHANGED <<nodes, kids, parent, name, type, current_dir>>
      BY <2>1, <2>3 DEF WriteTo, Checked
    <3>2. Resolve(p)' = n
      BY <1>2, <2>3, <3>1, SameTreeFinds
    <3>3. Cat(p) = [result |-> 0, data |-> data[n]]
      BY <2>3, <3>1 DEF Cat
    <3>4. data'[n] = IF append /\ data[n] # None THEN data[n] + 1 ELSE 1
      BY <1>2, <3>1, NodesAreIds DEF Inv, TypeOK
    <3>5. Cat(p)' = [result |-> 0, data |-> data'[n]]
      BY <2>3, <3>1, <3>2 DEF Cat
    <3> QED
      BY <3>3, <3>4, <3>5
  <2> QED
    BY <1>2, <2>2, <2>3 DEF Write
<1>3. ASSUME Inv, Inv', Next PROVE MadeStep
  <2> SUFFICES ASSUME <<nodes, data>>' # <<nodes, data>>, NEW p \in NewPaths
               PROVE  /\ Resolve(p) = NULL /\ nodes' # nodes /\ (Mkdir(p) \/ Touch(p)) /\ StartStays(p) =>
                           Resolve(p)' \in nodes' \ nodes
                      /\ \A append \in BOOLEAN :
                           Write(p, append) /\ status' = "ok" /\ StartStays(p) =>
                             /\ Cat(p).result \in {0, -1}
                             /\ Cat(p)' = [result |-> 0,
                                           data |-> IF append /\ Cat(p).data # None
                                                    THEN Cat(p).data + 1 ELSE 1]
    BY Zenon DEF MadeStep
  <2>1. p \in Path
    BY TypedPaths
  <2> QED
    BY <1>1, <1>2, <1>3, <2>1 DEF Mkdir, Touch
<1>4. ASSUME Inv, Inv', Next PROVE MovedStep
  <2> SUFFICES ASSUME NEW src \in Paths, NEW dst \in Paths, NEW n \in nodes,
                      n = Resolve(src), Mv(src, dst), status' = "ok", NEW d, d = Resolve(dst)
               PROVE  IF d \in nodes /\ type[d] = "dir"
                      THEN FindChild(d, name[n])' = n
                      ELSE /\ FindChild(parent[n], WholeName(dst))' = n
                           /\ parent[n] = current_dir /\ dst.anchor = "" /\ Len(dst.comps) = 1
                                /\ PlainWord(dst.comps[1]) => Resolve(dst)' = n
    BY DEF MovedStep
  <2>1. src \in Path /\ dst \in Path
    BY TypedPaths
  <2>2. ~Hang
    BY DEF Hang
  <2> QED
    BY <1>4, <2>1, <2>2, MovedIsFound
<1>5. ReadInit => Inv
  BY InitInv DEF ReadInit
<1>6. Inv /\ [ReadNext]_readVars => Inv'
  <2>1. [ReadNext]_readVars => [Next]_vars
    BY DEF ReadNext, readVars, vars
  <2> QED
    BY <2>1, NextInv
<1>7. Inv /\ Inv' /\ [ReadNext]_readVars => [MadeStep /\ MovedStep]_readVars
  BY <1>3, <1>4 DEF ReadNext
<1> QED
  BY <1>5, <1>6, <1>7, PTL DEF ReadSpec, FoundWherePut
-----------------------------------------------------------------------------
(* What pwd and the prompt show.                                           *)

(* Elements put in sequences of their own and strung together again.       *)
LEMMA FlattenSingles ==
  ASSUME NEW S, NEW ws \in Seq(S)
  PROVE  FlattenSeq([i \in 1..Len(ws) |-> <<ws[i]>>]) = ws
<1> DEFINE L == Len(ws)
           s == [i \in 1..L |-> <<ws[i]>>]
           IsFlat(f) == f = [i \in 1..L |-> IF i = 1 THEN s[1] ELSE f[i - 1] \o s[i]]
           g == [i \in 1..L |-> [j \in 1..i |-> ws[j]]]
<1>1. L \in Nat /\ Len(s) = L
  OBVIOUS
<1>2. CASE L = 0
  <2>1. s = <<>> /\ ws = <<>>
    BY <1>2
  <2> QED
    BY <1>1, <1>2, <2>1 DEF FlattenSeq
<1>3. CASE L # 0
  <2>1. ASSUME NEW i \in 1..L PROVE g[i] \in Seq(S) /\ Len(g[i]) = i
    BY <2>1
  <2>2. ASSUME NEW i \in 1..L, i # 1 PROVE g[i] = g[i - 1] \o s[i]
    <3>1. /\ i - 1 \in 1..L /\ g[i] \in Seq(S) /\ Len(g[i]) = i
          /\ g[i - 1] \in Seq(S) /\ Len(g[i - 1]) = i - 1
      BY <2>1, <2>2
    <3>2. s[i] = <<ws[i]>> /\ ws[i] \in S
      BY <1>1
    <3>3. g[i - 1] \o s[i] = Append(g[i - 1], ws[i])
      BY <3>1, <3>2
    <3>4. /\ Append(g[i - 1], ws[i]) \in Seq(S) /\ Len(Append(g[i - 1], ws[i])) = i
          /\ \A j \in 1..i : Append(g[i - 1], ws[i])[j] = IF j = i THEN ws[i] ELSE g[i - 1][j]
      BY <3>1, <3>2
    <3>5. \A j \in 1..i : g[i][j] = ws[j] /\ (j # i => g[i - 1][j] = ws[j])
      BY <3>1
    <3>6. \A j \in 1..i : g[i][j] = Append(g[i - 1], ws[i])[j]
      BY <3>4, <3>5
    <3> HIDE DEF g
    <3>7. g[i] = Append(g[i - 1], ws[i])
      BY <3>1, <3>4, <3>6, SeqEqual
    <3> QED
      BY <3>3, <3>7
  <2>3. g[1] = s[1]
    BY <1>1, <1>3
  <2>4. IsFlat(g)
    <3>1. ASSUME NEW i \in 1..L
          PROVE  [j \in 1..i |-> ws[j]] = IF i = 1 THEN s[1] ELSE g[i - 1] \o s[i]
      <4>1. g[i] = [j \in 1..i |-> ws[j]]
        OBVIOUS
      <4> HIDE DEF g, s
      <4> QED
        BY <2>2, <2>3, <4>1
    <3> QED
      BY <3>1
  <2> DEFINE flat == CHOOSE f : IsFlat(f)
  <2>5. IsFlat(flat)
    <3>1. \E f : IsFlat(f)
      BY <2>4
    <3> QED
      BY <3>1, Zenon
  <2>6. FlattenSeq(s) = flat[L]
    BY <1>1, <1>3 DEF FlattenSeq
  <2>7. \A i \in 1..L : flat[i] = IF i = 1 THEN s[1] ELSE flat[i - 1] \o s[i]
    <3> HIDE DEF flat
    <3> QED
      BY <2>5
  <2> HIDE DEF flat
  <2> DEFINE Bad == {i \in 1..L : flat[i] # g[i]}
  <2>8. ASSUME Bad # {} PROVE FALSE
    <3>1. PICK i \in Bad : \A j \in Bad : i <= j
      <4>1. Bad \in SUBSET Nat
        BY <1>1
      <4> HIDE DEF Bad
      <4> QED
        BY <2>8, <4>1, Least
    <3> HIDE DEF g, s
    <3>2. i \in 1..L /\ i # 1
      BY <2>3, <2>7, <3>1
    <3>3. i - 1 \in 1..L /\ ~(i <= i - 1)
      BY <1>1, <3>2
    <3>4. flat[i - 1] = g[i - 1]
      BY <3>1, <3>3
    <3> QED
      BY <2>2, <2>7, <3>1, <3>2, <3>4
  <2>9. flat[L] = g[L]
    <3>1. L \in 1..L
      BY <1>1, <1>3
    <3> HIDE DEF L, g
    <3>2. L \notin Bad
      BY <2>8
    <3> QED
      BY <3>1, <3>2
  <2>10. g[L] = ws
    BY <1>1, <1>3
  <2> HIDE DEF g
  <2> QED
    BY <2>6, <2>9, <2>10
<1> QED
  BY <1>2, <1>3

(* The walk of vfs_pwd.                                                    *)
LEMMA AncestorSteps ==
  /\ Ancestors = [k \in 0..MaxNodes |-> Ancestors[k]]
  /\ Ancestors[0] = current_dir
  /\ \A k \in 1..MaxNodes :
        Ancestors[k] = IF Ancestors[k - 1] = NULL THEN NULL ELSE parent[Ancestors[k - 1]]
<1> DEFINE IsUp(f) ==
             f = [k \in 0..MaxNodes |->
                    IF k = 0 THEN current_dir
                    ELSE IF f[k - 1] = NULL THEN NULL ELSE parent[f[k - 1]]]
           dots == [k \in 1..MaxNodes |-> ".."]
<1>1. MaxNodes \in Nat
  BY VfsAssumption
<1>2. PICK f : StepsOf(f, current_dir, dots, MaxNodes)
  BY <1>1, StepsExist
<1>3. ASSUME NEW k \in 0..MaxNodes, k # 0
      PROVE  Enter(f[k - 1], dots[k]) = IF f[k - 1] = NULL THEN NULL ELSE parent[f[k - 1]]
  <2>1. dots[k] = ".."
    BY <1>1, <1>3
  <2> QED
    BY <2>1 DEF Enter
<1>4. IsUp(f)
  <2>1. /\ f = [k \in 0..MaxNodes |-> IF k = 0 THEN current_dir ELSE Enter(f[k - 1], dots[k])]
    BY <1>2 DEF StepsOf
  <2> HIDE DEF dots
  <2> QED
    BY <1>3, <2>1
<1>5. IsUp(CHOOSE f_1 : IsUp(f_1))
  BY <1>4, Zenon
<1>6. IsUp(Ancestors)
  BY <1>5, Zenon DEF Ancestors
<1> HIDE DEF dots
<1> QED
  BY <1>1, <1>6

(* How many steps up root is.                                              *)
Height == CHOOSE k \in DOMAIN Ancestors :
            Ancestors[k] = root /\ \A j \in 0..(k - 1) : Ancestors[j] # root

(* As long as the walk has not come to root, it is on the way up.          *)
LEMMA AncestorsAreUp ==
  ASSUME Inv, NEW h \in 0..MaxNodes, \A j \in 0..(h - 1) : Ancestors[j] # root
  PROVE  \A j \in 0..h : /\ Ancestors[j] \in Up(current_dir)
                         /\ j < h => Ancestors[j + 1] = parent[Ancestors[j]]
<1> DEFINE Bad == {j \in 0..h : Ancestors[j] \notin Up(current_dir)}
<1>1. MaxNodes \in Nat
  BY VfsAssumption
<1>2. ASSUME NEW j \in 0..h, j # h, Ancestors[j] \in Up(current_dir)
      PROVE  /\ Ancestors[j + 1] = parent[Ancestors[j]]
             /\ Ancestors[j + 1] \in Up(current_dir)
  <2>1. j + 1 \in 1..MaxNodes /\ j \in 0..(h - 1) /\ (j + 1) - 1 = j
    BY <1>1, <1>2
  <2>2. Ancestors[j] # root /\ Ancestors[j] # NULL /\ parent[Ancestors[j]] \in Up(current_dir)
    BY <1>2, <2>1, CurrentFacts
  <2> QED
    BY <2>1, <2>2, AncestorSteps
<1>3. ASSUME Bad # {} PROVE FALSE
  <2>1. PICK j \in Bad : \A i \in Bad : j <= i
    <3>1. Bad \in SUBSET Nat
      BY <1>1
    <3> HIDE DEF Bad
    <3> QED
      BY <1>3, <3>1, Least
  <2>2. j \in 0..h /\ j # 0
    BY <2>1, AncestorSteps, CurrentFacts
  <2>3. j - 1 \in 0..h /\ j - 1 # h /\ ~(j <= j - 1) /\ (j - 1) + 1 = j
    BY <1>1, <2>2
  <2>4. Ancestors[j - 1] \in Up(current_dir)
    BY <2>1, <2>3
  <2> QED
    BY <1>2, <2>1, <2>3, <2>4
<1> QED
  BY <1>1, <1>2, <1>3

(* Below root the walk comes to root, before it has made as many steps as  *)
(* there are nodes.                                                        *)
LEMMA RootIsMet ==
  ASSUME Inv, ~Adrift
  PROVE  \E k \in 0..MaxNodes : Ancestors[k] = root
<1> SUFFICES ASSUME \A k \in 0..MaxNodes : Ancestors[k] # root PROVE FALSE
  OBVIOUS
<1> DEFINE W == Up(current_dir)
<1>1. MaxNodes \in Nat
  BY VfsAssumption
<1>2. \A k \in 0..MaxNodes : /\ Ancestors[k] \in W
                             /\ k < MaxNodes => Ancestors[k + 1] = parent[Ancestors[k]]
  <2>1. MaxNodes \in 0..MaxNodes /\ \A j \in 0..(MaxNodes - 1) : Ancestors[j] # root
    BY <1>1
  <2> QED
    BY <2>1, AncestorsAreUp
<1>3. Ancestors \in [0..MaxNodes -> Ids]
  <2>1. \A k \in 0..MaxNodes : Ancestors[k] \in Ids
    BY <1>2, CurrentFacts
  <2> QED
    BY <2>1, AncestorSteps
<1>4. PICK a \in 0..MaxNodes, b \in 0..MaxNodes : a # b /\ Ancestors[a] = Ancestors[b]
  <2>1. /\ IsFiniteSet(0..MaxNodes) /\ Cardinality(0..MaxNodes) = MaxNodes + 1
        /\ IsFiniteSet(Ids) /\ Cardinality(Ids) = MaxNodes
    <3>1. 0 \in Int /\ 1 \in Int /\ MaxNodes \in Int
      BY <1>1
    <3> QED
      BY <1>1, <3>1, FS_Interval DEF Ids
  <2> DEFINE Steps == 0..MaxNodes
             up == Ancestors
  <2>2. Cardinality(Ids) < Cardinality(Steps)
    BY <1>1, <2>1
  <2>3. up \in [Steps -> Ids] /\ IsFiniteSet(Steps) /\ IsFiniteSet(Ids)
    BY <1>3, <2>1
  <2> HIDE DEF Steps, up
  <2>4. \E x, y \in Steps : x # y /\ up[x] = up[y]
    BY <2>2, <2>3, FS_PigeonHole, Zenon
  <2> QED
    BY <2>4 DEF Steps, up
<1>5. PICK i \in 0..MaxNodes, j \in 0..MaxNodes : i < j /\ Ancestors[i] = Ancestors[j]
  <2>1. a < b \/ b < a
    BY <1>1, <1>4
  <2> QED
    BY <1>4, <2>1
<1> DEFINE S == {Ancestors[k] : k \in 0..(j - 1)}
<1>6. S \in SUBSET Cells /\ current_dir \in S
  <2>1. 0 \in 0..(j - 1) /\ \A k \in 0..(j - 1) : k \in 0..MaxNodes
    BY <1>1, <1>5
  <2>2. \A k \in 0..(j - 1) : Ancestors[k] \in Ids
    BY <1>3, <2>1
  <2>3. current_dir = Ancestors[0]
    BY AncestorSteps
  <2> QED
    BY <2>1, <2>2, <2>3, IdsAreCells
<1>7. ASSUME NEW k \in 0..(j - 1) PROVE parent[Ancestors[k]] \in S
  <2>1. k \in 0..MaxNodes /\ k < MaxNodes
    BY <1>1, <1>5
  <2>2. parent[Ancestors[k]] = Ancestors[k + 1]
    BY <1>2, <2>1
  <2>3. CASE k = j - 1
    <3>1. k + 1 = j /\ i \in 0..(j - 1)
      BY <1>1, <1>5, <2>3
    <3> QED
      BY <1>5, <2>2, <3>1
  <2>4. CASE k # j - 1
    <3>1. k + 1 \in 0..(j - 1)
      BY <1>1, <1>5, <2>4
    <3> QED
      BY <2>2, <3>1
  <2> QED
    BY <2>3, <2>4
<1>8. UpClosed(S)
  BY <1>7 DEF UpClosed
<1>9. root \notin S
  <2>1. \A k \in 0..(j - 1) : k \in 0..MaxNodes
    BY <1>1, <1>5
  <2> QED
    BY <2>1
<1>10. current_dir \in Cells
  BY <1>6
<1>11. W \subseteq S
  <2> HIDE DEF S
  <2> QED
    BY <1>6, <1>8, <1>10, UpFacts DEF Inv
<1>12. root \in W
  BY DEF Adrift, Meets
<1> QED
  BY <1>9, <1>11, <1>12

LEMMA HeightFacts ==
  ASSUME Inv, ~Adrift
  PROVE  /\ Height \in 0..MaxNodes /\ Ancestors[Height] = root
         /\ \A j \in 0..Height : Ancestors[j] \in Up(current_dir)
         /\ \A j \in 0..(Height - 1) : /\ Ancestors[j] # root
                                      /\ Ancestors[j + 1] = parent[Ancestors[j]]
<1> DEFINE S == {k \in 0..MaxNodes : Ancestors[k] = root}
           IsHeight(k) ==
             k \in DOMAIN Ancestors /\ Ancestors[k] = root /\ \A j \in 0..(k - 1) : Ancestors[j] # root
<1>1. MaxNodes \in Nat
  BY VfsAssumption
<1>2. PICK h \in S : \A k \in S : h <= k
  <2>1. S \in SUBSET Nat /\ S # {}
    BY <1>1, RootIsMet
  <2> HIDE DEF S
  <2> QED
    BY <2>1, Least
<1>3. DOMAIN Ancestors = 0..MaxNodes
  BY AncestorSteps
<1>4. IsHeight(h)
  <2>1. \A j \in 0..(h - 1) : j \in 0..MaxNodes /\ ~(h <= j)
    BY <1>1, <1>2
  <2> QED
    BY <1>2, <1>3, <2>1
<1>5. IsHeight(Height)
  <2>1. \E k : IsHeight(k)
    BY <1>4
  <2>2. IsHeight(CHOOSE k : IsHeight(k))
    BY <2>1, Zenon
  <2>3. Height = CHOOSE k \in DOMAIN Ancestors :
            Ancestors[k] = root /\ \A j \in 0..(k - 1) : Ancestors[j] # root
    BY DEF Height
  <2>4. \E k \in DOMAIN Ancestors :
            Ancestors[k] = root /\ \A j \in 0..(k - 1) : Ancestors[j] # root
    BY <1>4
  <2> QED
    BY <2>3, <2>4, Zenon
<1>6. Height \in 0..MaxNodes
  BY <1>3, <1>5
<1>7. \A j \in 0..Height : /\ Ancestors[j] \in Up(current_dir)
                           /\ j < Height => Ancestors[j + 1] = parent[Ancestors[j]]
  BY <1>5, <1>6, AncestorsAreUp
<1>8. \A j \in 0..(Height - 1) : j \in 0..Height /\ j < Height
  BY <1>1, <1>6
<1> QED
  BY <1>5, <1>6, <1>7, <1>8

(* A name that is plain leads from the directory back to its node.         *)
LEMMA PlainLeads ==
  ASSUME Inv, NEW m \in Up(current_dir) \ {root}, PlainlyNamed(m)
  PROVE  /\ name[m] = <<name[m][1]>> /\ name[m][1] \in Words /\ PlainWord(name[m][1])
         /\ FindChild(parent[m], name[m]) = m
         /\ Leads[parent[m]][name[m][1]] = m
<1> DEFINE d == parent[m]
<1>1. m \in Ids /\ m # NULL /\ d \in Ids /\ d # NULL /\ Has(kids[d], m)
  BY CurrentFacts, IdsAreCells
<1>2. PICK c \in Words : name[m] = <<c>> /\ name[m][1] = c
  <2>1. name[m] \in Seq(Words) /\ Len(name[m]) = 1
    BY <1>1 DEF Inv, TypeOK, PlainlyNamed
  <2> QED
    BY <2>1, OneElement, Zenon
<1>3. PlainWord(c)
  BY <1>2 DEF PlainlyNamed
<1>4. FindChild(d, name[m]) = m
  <2> DEFINE f == FindIn(kids, d, name[m])
  <2>1. kids \in [Ids -> Seq(Ids)]
    BY DEF Inv, TypeOK
  <2>2. FindsFirst(kids, d, name[m])
    BY <1>1, <2>1, SearchFacts
  <2>3. f # NULL
    BY <1>1, <2>2 DEF FindsFirst, Has
  <2>4. PICK i : FirstHit(kids, d, name[m], i) /\ f = kids[d][i]
    BY <2>2, <2>3 DEF FindsFirst
  <2>5. Has(kids[d], f) /\ name[f] = name[m]
    BY <2>4 DEF FirstHit, Has
  <2>6. f \in nodes \ {root} /\ parent[f] = d
    BY <1>1, <2>5, ShapeFacts DEF Inv
  <2> HIDE DEF f
  <2>7. f = m
    BY <2>5, <2>6 DEF PlainlyNamed
  <2> QED
    BY <2>7 DEF f, FindChild
<1>5. Leads[d][c] = m
  <2>1. d \in Cells
    BY <1>1, IdsAreCells
  <2>2. c \notin {"", ".", ".."}
    BY <1>3 DEF PlainWord
  <2>3. Enter(d, c) = FindChild(d, <<c>>)
    BY <1>1, <2>2 DEF Enter
  <2> QED
    BY <1>2, <1>4, <2>1, <2>3, LeadsIs
<1> QED
  BY <1>2, <1>3, <1>4, <1>5

(* Down the names from any place on the way back to the current directory. *)
Names(h) == [i \in 1..h |-> name[Ancestors[h - i]][1]]

LEMMA DownAgain ==
  ASSUME Inv, ~Adrift, \A n \in Up(current_dir) \ {root} : PlainlyNamed(n),
         NEW h \in 0..Height
  PROVE  Names(h) \in Seq(Words) /\ Len(Names(h)) = h /\ Follow(Ancestors[h], Names(h)) = current_dir
<1> DEFINE down == [k \in 0..h |-> Ancestors[h - k]]
<1>1. MaxNodes \in Nat /\ Height \in 0..MaxNodes /\ h \in Nat
  <2>1. MaxNodes \in Nat
    BY VfsAssumption
  <2>2. Height \in 0..MaxNodes
    BY HeightFacts
  <2> QED
    BY <2>1, <2>2
<1>2. ASSUME NEW j \in 0..(h - 1)
      PROVE  /\ Ancestors[j] \in Up(current_dir) \ {root}
             /\ Ancestors[j + 1] = parent[Ancestors[j]]
             /\ name[Ancestors[j]][1] \in Words
             /\ Leads[Ancestors[j + 1]][name[Ancestors[j]][1]] = Ancestors[j]
  <2>1. j \in 0..(Height - 1) /\ j \in 0..Height
    BY <1>1
  <2>2. Ancestors[j] \in Up(current_dir) \ {root} /\ Ancestors[j + 1] = parent[Ancestors[j]]
    BY <2>1, HeightFacts
  <2> QED
    BY <2>2, PlainLeads
<1>3. Names(h) \in Seq(Words) /\ Len(Names(h)) = h
  <2>1. \A i \in 1..h : h - i \in 0..(h - 1)
    BY <1>1
  <2>2. \A i \in 1..h : name[Ancestors[h - i]][1] \in Words
    BY <1>2, <2>1
  <2> QED
    BY <1>1, <2>2 DEF Names
<1>4. Passes(down, Ancestors[h], Names(h))
  <2>1. \A k \in 0..h : h - k \in 0..Height
    BY <1>1
  <2>2. \A k \in 0..h : Ancestors[h - k] \in Cells
    BY <2>1, HeightFacts, CurrentFacts, IdsAreCells
  <2>3. down \in [0..h -> Cells]
    BY <2>2
  <2>4. down[0] = Ancestors[h]
    BY <1>1
  <2>5. ASSUME NEW k \in 1..h
        PROVE  down[k] = Leads[down[k - 1]][Names(h)[k]]
    <3>1. h - k \in 0..(h - 1) /\ (h - k) + 1 = h - (k - 1) /\ k \in 0..h /\ k - 1 \in 0..h
      BY <1>1
    <3>2. Leads[Ancestors[h - (k - 1)]][name[Ancestors[h - k]][1]] = Ancestors[h - k]
      BY <1>2, <3>1
    <3>3. down[k] = Ancestors[h - k] /\ down[k - 1] = Ancestors[h - (k - 1)]
      BY <3>1
    <3>4. Names(h)[k] = name[Ancestors[h - k]][1]
      BY DEF Names
    <3> QED
      BY <3>2, <3>3, <3>4
  <2> HIDE DEF down
  <2> QED
    BY <1>3, <2>3, <2>4, <2>5 DEF Passes
<1>5. Ancestors[h] \in Cells
  <2>1. h \in 0..Height
    OBVIOUS
  <2> QED
    BY <2>1, HeightFacts, CurrentFacts, IdsAreCells
<1>6. PICK to : Passes(to, Ancestors[h], Names(h)) /\ Follow(Ancestors[h], Names(h)) = to[h]
  BY <1>3, <1>5, FollowPasses DEF Inv
<1>7. to[h] = down[h]
  <2> HIDE DEF down
  <2>1. Len(Names(h)) <= Len(Names(h))
    BY <1>1, <1>3
  <2> QED
    BY <1>3, <1>4, <1>6, <2>1, PassesAgree
<1>8. down[h] = current_dir
  BY <1>1, AncestorSteps
<1> QED
  BY <1>3, <1>6, <1>7, <1>8

LEMMA PwdIsNames ==
  ASSUME Inv, ~Adrift, \A n \in Up(current_dir) \ {root} : PlainlyNamed(n)
  PROVE  Pwd = [anchor |-> "/", comps |-> Names(Height)]
<1> DEFINE h == Height
           ws == Names(h)
<1>1. MaxNodes \in Nat /\ h \in 0..MaxNodes /\ h \in 0..h
  <2>1. MaxNodes \in Nat
    BY VfsAssumption
  <2>2. h \in 0..MaxNodes
    BY HeightFacts
  <2> QED
    BY <2>1, <2>2
<1>2. ws \in Seq(Words) /\ Len(ws) = h
  BY <1>1, DownAgain
<1>3. Pwd = [anchor |-> "/",
             comps  |-> FlattenSeq([i \in 1..h |-> Pieces(name[Ancestors[h - i]])])]
  BY Zenon DEF Pwd, Height
<1>4. ASSUME NEW i \in 1..h
      PROVE  Pieces(name[Ancestors[h - i]]) = <<ws[i]>>
  <2> DEFINE m == Ancestors[h - i]
  <2>1. h - i \in 0..(h - 1) /\ h - i \in 0..h
    BY <1>1
  <2>2. m \in Up(current_dir) \ {root}
    BY <2>1, HeightFacts
  <2>3. name[m] = <<name[m][1]>> /\ name[m][1] \in Words /\ PlainWord(name[m][1])
    BY <2>2, PlainLeads
  <2>4. ws[i] = name[m][1]
    BY DEF Names
  <2> HIDE DEF m
  <2>5. PICK c : name[m] = <<c>> /\ c = name[m][1] /\ c # "/"
    BY <2>3 DEF PlainWord
  <2>6. Pieces(<<c>>) = <<c>>
    <3>1. <<c>> # <<>> /\ Len(<<c>>) = 1 /\ <<c>>[1] = c /\ [k \in 1..1 |-> c] = <<c>>
      OBVIOUS
    <3>2. \A k \in 1..1 : (IF <<c>>[k] = "/" THEN "" ELSE <<c>>[k]) = c
      BY <2>5, <3>1
    <3>3. Pieces(<<c>>) = [k \in 1..1 |-> IF <<c>>[k] = "/" THEN "" ELSE <<c>>[k]]
      BY <3>1 DEF Pieces
    <3> QED
      BY <3>1, <3>2, <3>3
  <2> QED
    BY <2>4, <2>5, <2>6 DEF m
<1> HIDE DEF ws, h
<1>5. [i \in 1..h |-> Pieces(name[Ancestors[h - i]])] = [i \in 1..Len(ws) |-> <<ws[i]>>]
  BY <1>2, <1>4
<1>6. FlattenSeq([i \in 1..Len(ws) |-> <<ws[i]>>]) = ws
  BY <1>2, FlattenSingles
<1> QED
  BY <1>3, <1>5, <1>6 DEF ws, h

LEMMA PromptLeads ==
  ASSUME Inv, ~Adrift, \A n \in Up(current_dir) \ {root} : PlainlyNamed(n),
         \A w \in DOMAIN Glued : FindChild(root, <<"home">>) # NULL =>
            FindChild(FindChild(root, <<"home">>), <<w>>) = NULL,
         NEW c, c = Names(Height), Pwd = [anchor |-> "/", comps |-> c],
         Resolve(Pwd) = current_dir
  PROVE  Resolve(Prompt) = current_dir
<1> DEFINE h == Height
<1>1. MaxNodes \in Nat /\ h \in 0..MaxNodes /\ h \in 0..h
  <2>1. MaxNodes \in Nat
    BY VfsAssumption
  <2>2. h \in 0..MaxNodes
    BY HeightFacts
  <2> QED
    BY <2>1, <2>2
<1>2. c \in Seq(Words) /\ Len(c) = h
  BY <1>1, DownAgain
<1>3. CASE Len(c) < 2 \/ c[1] # "home"
  BY <1>3 DEF Prompt, Abbreviated
<1>4. CASE ~(Len(c) < 2 \/ c[1] # "home")
  <2> DEFINE home == Ancestors[h - 1]
             below == Ancestors[h - 2]
  <2>1. h >= 2 /\ c[1] = "home"
    BY <1>1, <1>2, <1>4
  <2>2. /\ h - 1 \in 0..(h - 1) /\ h - 2 \in 0..(h - 1) /\ (h - 2) + 1 = h - 1 /\ (h - 1) + 1 = h
        /\ h - 2 \in 0..h
    BY <1>1, <2>1
  <2>3. /\ home \in Up(current_dir) \ {root} /\ parent[home] = root
        /\ below \in Up(current_dir) \ {root} /\ parent[below] = home
    BY <2>2, HeightFacts
  <2>4. c[1] = name[home][1] /\ c[2] = name[below][1]
    BY <1>1, <2>1 DEF Names
  <2>5. /\ FindChild(root, <<"home">>) = home /\ home # NULL
        /\ FindChild(home, <<c[2]>>) = below /\ below # NULL
    <3>1. /\ name[home] = <<name[home][1]>> /\ FindChild(root, name[home]) = home
          /\ name[below] = <<name[below][1]>> /\ FindChild(home, name[below]) = below
      <4> HIDE DEF home, below
      <4> QED
        BY <2>3, PlainLeads
    <3>2. home # NULL /\ below # NULL
      BY <2>3, CurrentFacts
    <3> HIDE DEF home, below
    <3> QED
      BY <2>1, <2>4, <3>1, <3>2
  <2>6. CASE c[2] = "root"
    <3>1. HomeRoot = below
      <4> HIDE DEF home, below
      <4> QED
        BY <2>5, <2>6 DEF HomeRoot, HomeRootIn, FindChild
    <3>2. Prompt = [anchor |-> "~", comps |-> SubSeq(c, 3, Len(c))]
      BY <1>4, <2>6 DEF Prompt, Abbreviated
    <3>3. SubSeq(c, 3, Len(c)) = Names(h - 2)
      <4>1. Names(h - 2) \in Seq(Words) /\ Len(Names(h - 2)) = h - 2
        BY <2>2, DownAgain
      <4>2. SubSeq(c, 3, h) \in Seq(Words) /\ Len(SubSeq(c, 3, h)) = h - 2
        BY <1>1, <1>2, <2>1
      <4>3. ASSUME NEW i \in 1..(h - 2) PROVE SubSeq(c, 3, h)[i] = Names(h - 2)[i]
        <5>1. SubSeq(c, 3, h)[i] = c[i + 2]
          BY <1>1, <1>2, <2>1
        <5>2. c[i + 2] = name[Ancestors[h - (i + 2)]][1]
          <6>1. i + 2 \in 1..h
            BY <1>1, <2>1
          <6> QED
            BY <6>1 DEF Names
        <5>3. h - (i + 2) = (h - 2) - i
          BY <1>1
        <5>4. Names(h - 2)[i] = name[Ancestors[(h - 2) - i]][1]
          BY DEF Names
        <5> QED
          BY <5>1, <5>2, <5>3, <5>4
      <4> QED
        BY <1>2, <4>1, <4>2, <4>3, SeqEqual
    <3>4. Follow(below, Names(h - 2)) = current_dir
      BY <2>2, DownAgain
    <3>5. Start("~") = below
      BY <2>5, <3>1 DEF Start
    <3>6. Prompt.anchor = "~" /\ Prompt.comps = Names(h - 2)
      BY <3>2, <3>3
    <3>7. Resolve(Prompt) = Follow(Start(Prompt.anchor), Prompt.comps)
      BY DEF Resolve
    <3> QED
      BY <3>4, <3>5, <3>6, <3>7
  <2>7. CASE c[2] # "root"
    <3>1. c[2] \notin DOMAIN Glued
      BY <2>5
    <3>2. Prompt = Pwd
      BY <1>4, <2>7, <3>1 DEF Prompt, Abbreviated
    <3> QED
      BY <3>2
  <2> QED
    BY <2>6, <2>7
<1> QED
  BY <1>3, <1>4

(* Whatever was moved or renamed on the way, the path that pwd prints leads*)
(* back to the current directory, and so does the shorter one of the       *)
(* prompt: the two walks of vfs.c, up the parent pointers and down the     *)
(* names, undo each other.                                                 *)
THEOREM PwdAlwaysLeadsBack == ReadSpec => []PwdLeadsBack
<1>1. ReadInit => Inv
  BY InitInv DEF ReadInit
<1>2. Inv /\ [ReadNext]_readVars => Inv'
  <2>1. [ReadNext]_readVars => [Next]_vars
    BY DEF ReadNext, readVars, vars
  <2> QED
    BY <2>1, NextInv
<1>3. Inv => PwdLeadsBack
  <2> SUFFICES ASSUME Inv, ~Adrift, \A n \in Up(current_dir) \ {root} : PlainlyNamed(n)
               PROVE  /\ Resolve(Pwd) = current_dir
                      /\ (\A w \in DOMAIN Glued : FindChild(root, <<"home">>) # NULL =>
                             FindChild(FindChild(root, <<"home">>), <<w>>) = NULL) =>
                            Resolve(Prompt) = current_dir
    BY Zenon DEF PwdLeadsBack
  <2>1. Pwd = [anchor |-> "/", comps |-> Names(Height)]
    BY PwdIsNames
  <2>2. Resolve(Pwd) = Follow(root, Names(Height))
    BY <2>1 DEF Resolve, Start
  <2>3. Resolve(Pwd) = current_dir
    <3>1. Height \in 0..Height /\ Ancestors[Height] = root
      <4>1. MaxNodes \in Nat
        BY VfsAssumption
      <4> QED
        BY <4>1, HeightFacts
    <3> QED
      BY <2>2, <3>1, DownAgain
  <2> QED
    BY <2>1, <2>3, PromptLeads
<1> QED
  BY <1>1, <1>2, <1>3, PTL DEF ReadSpec
=============================================================================
