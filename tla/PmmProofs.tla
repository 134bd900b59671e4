----------------------------- MODULE PmmProofs ------------------------------
(***************************************************************************)
(* Theorems about Pmm, for every memory map and every page size.           *)
(***************************************************************************)
EXTENDS Pmm, FiniteSetTheorems, WellFoundedInduction, TLAPS

-----------------------------------------------------------------------------
(* Facts about numbers and folds.                                          *)

(* A set of natural numbers has a first one.                               *)
LEMMA Least ==
  ASSUME NEW S \in SUBSET Nat, S # {}
  PROVE  \E m \in S : \A k \in S : m <= k
<1>1. PICK m \in S : \A k \in S : <<k, m>> \notin OpToRel(<, Nat)
  BY NatLessThanWellFounded, WFMin, Zenon
<1>2. \A k \in S : ~(k < m)
  BY <1>1, Zenon DEF OpToRel
<1> QED
  BY <1>2

(* Induction, for a set of numbers instead of a property of them.          *)
LEMMA AllNumbers ==
  ASSUME NEW T \in SUBSET Nat, 0 \in T, \A n \in T : n + 1 \in T
  PROVE  T = Nat
<1> SUFFICES ASSUME Nat \ T # {} PROVE FALSE
  OBVIOUS
<1>1. PICK m \in Nat \ T : \A k \in Nat \ T : m <= k
  BY Least, Zenon
<1>2. m # 0 /\ m - 1 \in Nat /\ m - 1 \notin Nat \ T
  BY <1>1
<1>3. (m - 1) + 1 \in T
  BY <1>2
<1> QED
  BY <1>1, <1>3

(* A finite set of natural numbers has a last one.                         *)
LEMMA Greatest ==
  ASSUME NEW S \in SUBSET Nat, IsFiniteSet(S), S # {}
  PROVE  \E m \in S : \A k \in S : m >= k
<1> DEFINE Good(Q) == Q # {} => \E m \in Q : \A k \in Q : m >= k
           T == {n \in Nat : \A Q \in SUBSET S : Cardinality(Q) = n => Good(Q)}
<1>1. \A Q \in SUBSET S : IsFiniteSet(Q) /\ Cardinality(Q) \in Nat
  BY FS_Subset, FS_CardinalityType
<1>2. 0 \in T
  BY <1>1, FS_EmptySet
<1>3. ASSUME NEW n \in T PROVE n + 1 \in T
  <2> SUFFICES ASSUME NEW Q \in SUBSET S, Cardinality(Q) = n + 1, Q # {}
               PROVE  \E m \in Q : \A k \in Q : m >= k
    OBVIOUS
  <2>1. PICK x \in Q : TRUE
    OBVIOUS
  <2>2. Q \ {x} \in SUBSET S /\ Cardinality(Q \ {x}) = n
    <3>1. IsFiniteSet(Q)
      BY <1>1
    <3>2. Cardinality(Q \ {x}) = Cardinality(Q) - 1
      BY <3>1, <2>1, FS_RemoveElement
    <3> QED
      BY <3>2
  <2>3. Good(Q \ {x})
    BY <2>2
  <2>4. CASE Q \ {x} = {}
    BY <2>4
  <2>5. CASE Q \ {x} # {}
    <3>1. PICK m \in Q \ {x} : \A k \in Q \ {x} : m >= k
      BY <2>3, <2>5
    <3>2. m \in Nat /\ x \in Nat /\ Q \subseteq Nat
      OBVIOUS
    <3>3. CASE m >= x
      BY <3>1, <3>2, <3>3
    <3>4. CASE ~(m >= x)
      <4>1. \A k \in Q : x >= k
        BY <3>1, <3>2, <3>4
      <4> QED
        BY <4>1
    <3> QED
      BY <3>3, <3>4
  <2> QED
    BY <2>4, <2>5
<1> HIDE DEF Good
<1>4. T = Nat
  <2>1. T \in SUBSET Nat
    OBVIOUS
  <2> HIDE DEF T
  <2> QED
    BY <1>2, <1>3, <2>1, AllNumbers, Zenon
<1>5. Good(S)
  BY <1>1, <1>4
<1> QED
  BY <1>5 DEF Good

(* pick takes an element from every set that has one, and g folds step over*)
(* the sets in that order.                                                 *)
Picks(pick, S) == \A s \in SUBSET S : s # {} => pick[s] \in s

FoldsIn(g, S, pick, base, step) ==
  /\ g[{}] = base
  /\ \A s \in SUBSET S : s # {} => g[s] = step[<<pick[s], g[s \ {pick[s]}]>>]

(* A fold over a finite set has a value: the recursive function exists.    *)
LEMMA FoldExists ==
  ASSUME NEW S, IsFiniteSet(S), NEW V, NEW base \in V, NEW step \in [S \X V -> V],
         NEW pick, Picks(pick, S)
  PROVE  \E g \in [SUBSET S -> V] : FoldsIn(g, S, pick, base, step)
<1> DEFINE Small(n) == {s \in SUBSET S : Cardinality(s) <= n}
           Step(g, s) == IF s = {} THEN base ELSE step[<<pick[s], g[s \ {pick[s]}]>>]
           Solves(g, n) == \A s \in Small(n) : g[s] = Step(g, s)
           T == {n \in Nat : \E g \in [Small(n) -> V] : Solves(g, n)}
<1>1. \A s \in SUBSET S : IsFiniteSet(s) /\ Cardinality(s) \in Nat
  BY FS_Subset, FS_CardinalityType
<1>a. \A n \in Nat : \A s \in Small(n + 1) : s # {} =>
         pick[s] \in S /\ s \ {pick[s]} \in Small(n)
  <2> SUFFICES ASSUME NEW n \in Nat, NEW s \in Small(n + 1), s # {}
               PROVE  pick[s] \in S /\ s \ {pick[s]} \in Small(n)
    OBVIOUS
  <2>1. pick[s] \in s /\ s \in SUBSET S /\ IsFiniteSet(s) /\ Cardinality(s) <= n + 1
    BY <1>1 DEF Picks
  <2>2. Cardinality(s \ {pick[s]}) = Cardinality(s) - 1
    BY <2>1, FS_RemoveElement
  <2> QED
    BY <1>1, <2>1, <2>2
<1>2. 0 \in T
  <2> DEFINE g == [s \in Small(0) |-> base]
  <2>1. \A s \in Small(0) : s = {}
    BY <1>1, FS_EmptySet
  <2>2. g \in [Small(0) -> V] /\ Solves(g, 0)
    BY <2>1
  <2> QED
    BY <2>2
<1>3. ASSUME NEW n \in T PROVE n + 1 \in T
  <2>1. n \in Nat
    OBVIOUS
  <2>2. PICK g \in [Small(n) -> V] : Solves(g, n)
    OBVIOUS
  <2> DEFINE h == [s \in Small(n + 1) |-> Step(g, s)]
  <2>3. \A s \in Small(n + 1) : Step(g, s) \in V
    BY <2>1, <1>a
  <2>4. h \in [Small(n + 1) -> V] /\ \A s \in Small(n + 1) : h[s] = Step(g, s)
    <3> HIDE DEF Step
    <3> QED
      BY <2>3
  <2>5. \A s \in Small(n) : s \in Small(n + 1) /\ h[s] = g[s]
    <3>1. \A s \in Small(n) : s \in Small(n + 1)
      BY <1>1, <2>1
    <3>2. \A s \in Small(n) : h[s] = Step(g, s) /\ g[s] = Step(g, s)
      BY <2>2, <2>4, <3>1
    <3> QED
      BY <3>1, <3>2
  <2> HIDE DEF h
  <2>6. Solves(h, n + 1)
    <3> SUFFICES ASSUME NEW s \in Small(n + 1) PROVE h[s] = Step(h, s)
      OBVIOUS
    <3>1. h[s] = Step(g, s)
      BY <2>4
    <3>2. s # {} => h[s \ {pick[s]}] = g[s \ {pick[s]}]
      BY <2>1, <1>a, <2>5
    <3> QED
      BY <3>1, <3>2
  <2>7. h \in [Small(n + 1) -> V] /\ Solves(h, n + 1) /\ n + 1 \in Nat
    BY <2>1, <2>4, <2>6, SMTT(30)
  <2> HIDE DEF Small, Solves
  <2> QED
    BY <2>7
<1>4. T = Nat
  <2>1. T \in SUBSET Nat
    OBVIOUS
  <2> HIDE DEF T
  <2> QED
    BY <1>2, <1>3, <2>1, AllNumbers, Zenon
<1>5. Cardinality(S) \in T /\ Small(Cardinality(S)) = SUBSET S
  <2>1. Cardinality(S) \in Nat
    BY FS_CardinalityType
  <2>2. \A s \in SUBSET S : Cardinality(s) <= Cardinality(S)
    BY FS_Subset
  <2> HIDE DEF T
  <2> QED
    BY <2>1, <2>2, <1>4
<1>6. PICK g \in [SUBSET S -> V] : Solves(g, Cardinality(S))
  BY <1>5
<1> QED
  BY <1>5, <1>6 DEF FoldsIn

-----------------------------------------------------------------------------
(* Whole pages of a region do not exceed it.                               *)
LEMMA WholePages ==
  ASSUME NEW len \in Nat
  PROVE  /\ len \div PAGE_SIZE \in Nat
         /\ (len \div PAGE_SIZE) * PAGE_SIZE <= len
         /\ len % PAGE_SIZE = 0 => (len \div PAGE_SIZE) * PAGE_SIZE = len
  BY PmmAssumption, Z3

LEMMA RoundedUpPages ==
  ASSUME NEW len \in Nat
  PROVE  ReservedCount(len) \in Nat /\ ReservedCount(len) * PAGE_SIZE >= len
  BY PmmAssumption, Z3 DEF ReservedCount

LEMMA ScannedAreNaturals == ASSUME NEW n, NEW p \in Scanned(n) PROVE p \in Nat
  BY DEF Scanned

(* A page outside the system's pages lies above all of them.               *)
LEMMA AboveTheSystem ==
  ASSUME NEW p \in Nat, p \notin SystemPages
  PROVE  p * PAGE_SIZE >= LOW_LEN + KERNEL_LEN
<1> DEFINE low == LOW_LEN \div PAGE_SIZE
           ker == ReservedCount(KERNEL_LEN)
<1>1. low \in Nat /\ low * PAGE_SIZE = LOW_LEN
  BY PmmAssumption, WholePages
<1>2. ker \in Nat /\ ker * PAGE_SIZE >= KERNEL_LEN
  BY PmmAssumption, RoundedUpPages
<1>3. ReservedCount(LOW_LEN) >= low /\ ReservedCount(LOW_LEN) \in Nat
  BY PmmAssumption, Z3 DEF ReservedCount
<1>4. 0 \div PAGE_SIZE = 0
  BY PmmAssumption, Z3
<1>5. SystemPages = 0..(ReservedCount(LOW_LEN) - 1) \cup low..(low + ker - 1)
  BY <1>3, <1>4 DEF SystemPages, ReservedPages
<1> HIDE DEF low, ker
<1>6. p >= low + ker
  BY <1>1, <1>2, <1>3, <1>5
<1>7. p * PAGE_SIZE >= (low + ker) * PAGE_SIZE
  BY <1>1, <1>2, <1>6, PmmAssumption, Z3
<1>8. (low + ker) * PAGE_SIZE = low * PAGE_SIZE + ker * PAGE_SIZE
  BY <1>1, <1>2, PmmAssumption, Z3
<1> QED
  BY <1>1, <1>2, <1>7, <1>8, PmmAssumption, Z3

(* The page of the first byte of a region starts there or before, but less *)
(* than a page before.                                                     *)
LEMMA FirstPage ==
  ASSUME NEW addr \in Nat
  PROVE  /\ addr \div PAGE_SIZE \in Nat
         /\ (addr \div PAGE_SIZE) * PAGE_SIZE <= addr
         /\ addr < (addr \div PAGE_SIZE + 1) * PAGE_SIZE
         /\ addr % PAGE_SIZE = 0 => (addr \div PAGE_SIZE) * PAGE_SIZE = addr
  BY PmmAssumption, Z3

(* No page freed for a region runs past its end or ends before it begins.  *)
LEMMA FreedEndsInside ==
  ASSUME NEW e \in Entry, NEW p \in FreedPages(e)
  PROVE  e.addr < (p + 1) * PAGE_SIZE /\ (p + 1) * PAGE_SIZE <= e.addr + e.len
<1> DEFINE first == e.addr \div PAGE_SIZE
           count == e.len \div PAGE_SIZE
<1>1. e.addr \in Nat /\ e.len \in Nat
  BY DEF Entry
<1>2. first \in Nat /\ first * PAGE_SIZE <= e.addr /\ e.addr < (first + 1) * PAGE_SIZE
  BY <1>1, FirstPage
<1>3. count \in Nat /\ count * PAGE_SIZE <= e.len
  BY <1>1, WholePages
<1>4. p \in first..(first + count - 1)
  BY DEF FreedPages, FreedCount
<1> HIDE DEF first, count
<1>5. p \in Int /\ first <= p /\ p + 1 <= first + count
  BY <1>2, <1>3, <1>4
<1>6. (first + 1) * PAGE_SIZE <= (p + 1) * PAGE_SIZE
  BY <1>2, <1>5, PmmAssumption, Z3
<1>7. (p + 1) * PAGE_SIZE <= (first + count) * PAGE_SIZE
  BY <1>2, <1>3, <1>5, PmmAssumption, Z3
<1>8. (first + count) * PAGE_SIZE = first * PAGE_SIZE + count * PAGE_SIZE
  BY <1>2, <1>3, PmmAssumption, Z3
<1>9. /\ (first + 1) * PAGE_SIZE \in Int /\ first * PAGE_SIZE \in Int
      /\ (p + 1) * PAGE_SIZE \in Int /\ count * PAGE_SIZE \in Int
  BY <1>2, <1>3, <1>5, PmmAssumption, Z3
<1> QED
  BY <1>1, <1>2, <1>3, <1>6, <1>7, <1>8, <1>9

-----------------------------------------------------------------------------
(* A page is owned by the system, held by a caller or free for the taking, *)
(* and is never two of these at once.  Only total_pages and used_pages,    *)
(* which no decision of the allocator but the scan range depends on, are   *)
(* left out.                                                               *)
IInv ==
  /\ mmap \in MemoryMaps
  /\ ready \in BOOLEAN
  /\ ~ready => held = {}
  /\ held \subseteq Scanned(total_pages)
  /\ held \subseteq bitmap
  /\ held \cap SystemPages = {}
  /\ ready => Unmarked \cap SystemPages = {}
  /\ ready => \A p \in held \cup Unmarked :
                \E e \in Available(mmap) : p \in FreedPages(e)

LEMMA InitIInv == Init => IInv
  BY DEF Init, IInv

LEMMA NextIInv == IInv /\ [Next]_vars => IInv'
<1> SUFFICES ASSUME IInv, [Next]_vars PROVE IInv'
  OBVIOUS
<1> USE DEF IInv
<1>1. CASE PmmSetup
  <2> DEFINE all == Scanned(total_pages')
             freed == UNION {FreedPages(e) : e \in Available(mmap)}
  <2>1. /\ ~ready /\ ready' = TRUE /\ mmap' = mmap /\ held' = held
        /\ bitmap' = (all \ freed) \cup (all \cap SystemPages)
    BY <1>1 DEF PmmSetup
  <2>2. held' = {}
    BY <2>1
  <2>3. Unmarked' = all \ bitmap'
    BY DEF Unmarked
  <2> HIDE DEF all
  <2>4. Unmarked' \cap SystemPages = {} /\ Unmarked' \subseteq freed
    BY <2>1, <2>3
  <2>5. \A p \in freed : \E e \in Available(mmap) : p \in FreedPages(e)
    OBVIOUS
  <2> HIDE DEF freed
  <2>6. \A p \in held' \cup Unmarked' : \E e \in Available(mmap') : p \in FreedPages(e)
    BY <2>1, <2>2, <2>4, <2>5
  <2> QED
    BY <2>1, <2>2, <2>4, <2>6
<1>2. CASE PmmAlloc
  <2>1. PICK p \in Unmarked : bitmap' = bitmap \cup {p} /\ held' = held \cup {p}
    BY <1>2 DEF PmmAlloc, Mark
  <2>2. ready /\ UNCHANGED <<ready, mmap, total_pages>>
    BY <1>2 DEF PmmAlloc
  <2>3. Unmarked' = Unmarked \ {p}
    BY <2>1, <2>2 DEF Unmarked
  <2>4. p \in Scanned(total_pages) /\ p \notin SystemPages
    BY <2>2 DEF Unmarked
  <2> QED
    BY <2>1, <2>2, <2>3, <2>4
<1>3. ASSUME NEW p \in held, PmmFree(p) PROVE IInv'
  <2>1. bitmap' = bitmap \ {p} /\ held' = held \ {p} /\ UNCHANGED <<ready, mmap, total_pages>>
    BY <1>3 DEF PmmFree, Clear
  <2>2. ready /\ Unmarked' = Unmarked \cup {p}
    BY <2>1 DEF Unmarked
  <2> QED
    BY <2>1, <2>2
<1>4. CASE PmmAllocNull \/ UNCHANGED vars
  BY <1>4 DEF PmmAllocNull, vars, Unmarked
<1> QED
  BY <1>1, <1>2, <1>3, <1>4 DEF Next

LEMMA SpecIInv == Spec => []IInv
  BY InitIInv, NextIInv, PTL DEF Spec

(* pmm_alloc never hands out a page somebody still holds.                  *)
THEOREM PmmHeldIsMarked == Spec => []HeldIsMarked
<1>1. IInv => HeldIsMarked
  BY DEF IInv, HeldIsMarked
<1> QED
  BY <1>1, SpecIInv, PTL

(* No page below the end of the kernel's reservation is ever handed out,   *)
(* whatever the memory map says is available there.                        *)
THEOREM PmmKeepsTheSystem == Spec => []SystemIsKept
<1>1. IInv => SystemIsKept
  <2> SUFFICES ASSUME IInv, NEW p \in held PROVE p * PAGE_SIZE >= LOW_LEN + KERNEL_LEN
    BY DEF SystemIsKept
  <2>1. p \in Nat /\ p \notin SystemPages
    BY ScannedAreNaturals DEF IInv
  <2> QED
    BY <2>1, AboveTheSystem
<1> QED
  BY <1>1, SpecIInv, PTL

(* A page has one user, for every memory map and any number of calls.      *)
THEOREM PmmPagesArePrivate == Spec => []PagesArePrivate
BY PmmHeldIsMarked, PmmKeepsTheSystem, PTL DEF PagesArePrivate

(* For every memory map, nothing is ever handed out, or open to be handed  *)
(* out, that runs past the end of an available region.                     *)
THEOREM PmmHandsOutAvailable == Spec => []HandsOutAvailable
<1>1. ASSUME IInv PROVE HandsOutAvailable
  <2>1. ASSUME ready, NEW p \in held \cup Unmarked
        PROVE  EndIsBacked(p)
    <3>1. mmap \in MemoryMaps
      BY <1>1 DEF IInv
    <3>2. PICK e \in Available(mmap) : p \in FreedPages(e)
      BY <1>1, <2>1 DEF IInv
    <3>3. e \in Entry
      BY <3>1, PmmAssumption DEF Available
    <3> QED
      BY <3>2, <3>3, FreedEndsInside DEF EndIsBacked
  <2>2. ~ready => held = {}
    BY <1>1 DEF IInv
  <2> QED
    BY <2>1, <2>2 DEF HandsOutAvailable
<1> QED
  BY <1>1, SpecIInv, PTL

-----------------------------------------------------------------------------
(* What the available regions give back is a number of pages.              *)
LEMMA FreedIsCounted ==
  ASSUME NEW m \in MemoryMaps
  PROVE  MapThenSumSet(FreedCount, Available(m)) \in Nat
<1> DEFINE S == Available(m)
           first(s) == CHOOSE e \in s : TRUE
           Adds(h) == h = [s \in SUBSET S |-> IF s = {} THEN 0
                                              ELSE FreedCount(first(s)) + h[s \ {first(s)}]]
           sum == CHOOSE h : Adds(h)
           pick == [s \in SUBSET S |-> first(s)]
           step == [a \in S \X Nat |-> FreedCount(a[1]) + a[2]]
<1>1. IsFiniteSet(m) /\ m \subseteq Entry
  BY PmmAssumption
<1>2. IsFiniteSet(S) /\ S \subseteq Entry
  BY <1>1, FS_Subset DEF Available
<1>3. \A e \in S : FreedCount(e) \in Nat
  BY <1>2, PmmAssumption, Z3 DEF Entry, FreedCount
<1>4. MapThenSumSet(FreedCount, S) = sum[S]
  BY DEF MapThenSumSet, MapThenFoldSet
<1> HIDE DEF S, sum
<1>5. \A s \in SUBSET S : s # {} => first(s) \in s
  OBVIOUS
<1> HIDE DEF first
<1>6. step \in [S \X Nat -> Nat] /\ \A e \in S, n \in Nat : step[<<e, n>>] = FreedCount(e) + n
  BY <1>3
<1>7. \A s \in SUBSET S : s # {} => pick[s] \in s /\ pick[s] = first(s)
  BY <1>5
<1> HIDE DEF step, pick
<1>8. PICK g \in [SUBSET S -> Nat] : FoldsIn(g, S, pick, 0, step)
  <2>1. 0 \in Nat /\ Picks(pick, S)
    BY <1>7 DEF Picks
  <2> QED
    BY <2>1, <1>2, <1>6, FoldExists
<1>9. Adds(g)
  <2>1. \A s \in SUBSET S : s # {} => g[s] = FreedCount(first(s)) + g[s \ {first(s)}]
    <3> SUFFICES ASSUME NEW s \in SUBSET S, s # {}
                 PROVE  g[s] = FreedCount(first(s)) + g[s \ {first(s)}]
      OBVIOUS
    <3>1. first(s) \in S /\ pick[s] = first(s)
      BY <1>5, <1>7
    <3>2. g[s] = step[<<first(s), g[s \ {first(s)}]>>]
      BY <1>8, <3>1 DEF FoldsIn
    <3>3. g[s \ {first(s)}] \in Nat
      BY <1>8
    <3> QED
      BY <1>6, <3>1, <3>2, <3>3
  <2>2. \A s \in SUBSET S : g[s] = IF s = {} THEN 0 ELSE FreedCount(first(s)) + g[s \ {first(s)}]
    BY <1>8, <2>1 DEF FoldsIn
  <2> QED
    BY <2>2
<1>10. Adds(sum)
  BY <1>9, Zenon DEF sum
<1> DEFINE T == {n \in Nat : \A s \in SUBSET S : Cardinality(s) = n => sum[s] \in Nat}
<1>11. \A s \in SUBSET S : IsFiniteSet(s) /\ Cardinality(s) \in Nat
  BY <1>2, FS_Subset, FS_CardinalityType
<1>12. 0 \in T
  BY <1>10, <1>11, FS_EmptySet
<1>13. ASSUME NEW n \in T PROVE n + 1 \in T
  <2> SUFFICES ASSUME NEW s \in SUBSET S, Cardinality(s) = n + 1 PROVE sum[s] \in Nat
    OBVIOUS
  <2>1. s # {} => first(s) \in S /\ Cardinality(s \ {first(s)}) = n
    <3> SUFFICES ASSUME s # {} PROVE first(s) \in S /\ Cardinality(s \ {first(s)}) = n
      OBVIOUS
    <3>1. IsFiniteSet(s) /\ first(s) \in s
      BY <1>5, <1>11
    <3>2. Cardinality(s \ {first(s)}) = Cardinality(s) - 1
      BY <3>1, FS_RemoveElement
    <3> QED
      BY <3>1, <3>2
  <2>2. s # {} => sum[s \ {first(s)}] \in Nat
    BY <2>1
  <2>3. sum[s] = IF s = {} THEN 0 ELSE FreedCount(first(s)) + sum[s \ {first(s)}]
    BY <1>10
  <2> QED
    BY <1>3, <2>1, <2>2, <2>3
<1>14. T = Nat
  <2>1. T \in SUBSET Nat
    OBVIOUS
  <2> HIDE DEF T
  <2> QED
    BY <1>12, <1>13, <2>1, AllNumbers, Zenon
<1>15. sum[S] \in Nat
  BY <1>11, <1>14
<1> QED
  BY <1>4, <1>15 DEF S

(* So is where the highest of them ends.                                   *)
LEMMA TotalIsCounted ==
  ASSUME NEW m \in MemoryMaps
  PROVE  TotalMemory(m) \in Nat
<1> DEFINE end(e) == e.addr + e.len
           ends == {end(e) : e \in Available(m)}
           S == {0} \cup ends
<1>1. IsFiniteSet(m) /\ m \subseteq Entry
  BY PmmAssumption
<1>2. IsFiniteSet(Available(m)) /\ Available(m) \subseteq Entry
  BY <1>1, FS_Subset DEF Available
<1>3. IsFiniteSet(ends)
  <2> DEFINE f == [e \in Available(m) |-> end(e)]
  <2>1. f \in Surjection(Available(m), ends)
    BY DEF Surjection
  <2> QED
    BY <1>2, <2>1, FS_Surjection
<1>4. S \in SUBSET Nat /\ S # {}
  BY <1>2 DEF Entry
<1>5. IsFiniteSet(S)
  <2>1. S = ends \cup {0}
    OBVIOUS
  <2> HIDE DEF ends, S
  <2> QED
    BY <1>3, <2>1, FS_AddElement
<1>6. TotalMemory(m) = Max(S)
  BY DEF TotalMemory
<1> HIDE DEF S
<1>7. \E x \in S : \A y \in S : x >= y
  BY <1>4, <1>5, Greatest
<1>8. Max(S) \in S
  BY <1>7 DEF Max
<1> QED
  BY <1>4, <1>6, <1>8

(* The variables have their types: with IInv, which it leans on for the    *)
(* pages that are held, this is inductive.                                 *)
LEMMA SpecTypes == Spec => []TypeOK
<1>1. ASSUME Init PROVE TypeOK
  <2>1. ready = FALSE /\ mmap \in MemoryMaps /\ bitmap = {} /\ held = {}
    BY <1>1 DEF Init
  <2>2. total_pages \in Nat /\ used_pages \in Int
    BY <1>1 DEF Init
  <2> QED
    BY <2>1, <2>2 DEF TypeOK
<1>2. ASSUME TypeOK, IInv, [Next]_vars PROVE TypeOK'
  <2> USE <1>2 DEF TypeOK
  <2>1. CASE PmmSetup
    <3> DEFINE all == Scanned(total_pages')
    <3>1. /\ ready' = TRUE /\ mmap' = mmap /\ held' = held /\ ~ready
          /\ total_pages' = TotalMemory(mmap) \div PAGE_SIZE
          /\ bitmap' = (all \ UNION {FreedPages(e) : e \in Available(mmap)})
                          \cup (all \cap SystemPages)
          /\ used_pages' = total_pages' - MapThenSumSet(FreedCount, Available(mmap))
                             + ReservedCount(LOW_LEN) + ReservedCount(KERNEL_LEN)
      BY <2>1 DEF PmmSetup
    <3>2. total_pages' \in Nat
      BY <3>1, TotalIsCounted, WholePages
    <3>3. used_pages' \in Int
      <4>1. ReservedCount(LOW_LEN) \in Nat /\ ReservedCount(KERNEL_LEN) \in Nat
        BY PmmAssumption, RoundedUpPages
      <4>2. MapThenSumSet(FreedCount, Available(mmap)) \in Nat
        BY FreedIsCounted
      <4> QED
        BY <3>1, <3>2, <4>1, <4>2
    <3> HIDE DEF all
    <3>4. bitmap' \subseteq all /\ held' = {}
      BY <3>1 DEF IInv
    <3> QED
      BY <3>1, <3>2, <3>3, <3>4 DEF all
  <2>2. CASE PmmAlloc
    <3>1. PICK p \in Unmarked : bitmap' = bitmap \cup {p} /\ held' = held \cup {p}
      BY <2>2 DEF PmmAlloc, Mark
    <3>2. used_pages' = used_pages + 1 /\ UNCHANGED <<ready, mmap, total_pages>>
      BY <2>2 DEF PmmAlloc
    <3> QED
      BY <3>1, <3>2 DEF Unmarked
  <2>3. ASSUME NEW p \in held, PmmFree(p) PROVE TypeOK'
    <3>1. /\ bitmap' = bitmap \ {p} /\ held' = held \ {p} /\ used_pages' = used_pages - 1
          /\ UNCHANGED <<ready, mmap, total_pages>>
      BY <2>3 DEF PmmFree, Clear, CountFreed
    <3> QED
      BY <3>1
  <2>4. CASE PmmAllocNull \/ UNCHANGED vars
    BY <2>4 DEF PmmAllocNull, vars
  <2> QED
    BY <2>1, <2>2, <2>3, <2>4 DEF Next
<1> QED
  BY <1>1, <1>2, SpecIInv, PTL DEF Spec

(* A page that lies wholly inside a region is freed for it, but for the    *)
(* last one of a region that begins inside a page.                         *)
LEMMA InsideIsFreed ==
  ASSUME NEW e \in Entry, NEW p \in Nat, Inside(p, e),
         e.addr % PAGE_SIZE = 0 \/ Inside(p + 1, e)
  PROVE  p \in FreedPages(e)
<1> DEFINE first == e.addr \div PAGE_SIZE
           count == e.len \div PAGE_SIZE
<1>1. e.addr \in Nat /\ e.len \in Nat
  BY DEF Entry
<1>2. /\ first \in Nat /\ first * PAGE_SIZE <= e.addr /\ e.addr < (first + 1) * PAGE_SIZE
      /\ e.addr % PAGE_SIZE = 0 => first * PAGE_SIZE = e.addr
  BY <1>1, FirstPage
<1>3. count \in Nat /\ e.len < (count + 1) * PAGE_SIZE
  BY <1>1, FirstPage
<1>4. FreedPages(e) = first..(first + count - 1)
  BY DEF FreedPages, FreedCount
<1> HIDE DEF first, count
<1>5. e.addr <= p * PAGE_SIZE /\ (p + 1) * PAGE_SIZE <= e.addr + e.len
  BY DEF Inside
<1>6. /\ p * PAGE_SIZE \in Int /\ (p + 1) * PAGE_SIZE \in Int /\ (p + 2) * PAGE_SIZE \in Int
      /\ (count + 1) * PAGE_SIZE \in Int /\ first * PAGE_SIZE \in Int
      /\ (first + 1) * PAGE_SIZE \in Int
  BY <1>2, <1>3, PmmAssumption, Z3
<1>7. first <= p
  <2>1. first * PAGE_SIZE <= p * PAGE_SIZE
    BY <1>1, <1>2, <1>5, <1>6
  <2> QED
    BY <1>2, <2>1, PmmAssumption, Z3
<1>8. CASE e.addr % PAGE_SIZE = 0
  <2>1. (p + 1) * PAGE_SIZE < first * PAGE_SIZE + (count + 1) * PAGE_SIZE
    BY <1>1, <1>2, <1>3, <1>5, <1>6, <1>8
  <2>2. first * PAGE_SIZE + (count + 1) * PAGE_SIZE = (first + count + 1) * PAGE_SIZE
    BY <1>2, <1>3, PmmAssumption, Z3
  <2>3. (p + 1) * PAGE_SIZE < (first + count + 1) * PAGE_SIZE
    BY <2>1, <2>2
  <2>4. p + 1 < first + count + 1
    BY <1>2, <1>3, <2>3, PmmAssumption, Z3
  <2> QED
    BY <1>2, <1>3, <1>4, <1>7, <2>4
<1>9. CASE Inside(p + 1, e)
  <2>1. (p + 2) * PAGE_SIZE <= e.addr + e.len
    <3>1. (p + 1) + 1 = p + 2
      OBVIOUS
    <3> QED
      BY <1>9, <3>1 DEF Inside
  <2>2. (p + 2) * PAGE_SIZE < (first + 1) * PAGE_SIZE + (count + 1) * PAGE_SIZE
    BY <1>1, <1>2, <1>3, <1>6, <2>1
  <2>3. (first + 1) * PAGE_SIZE + (count + 1) * PAGE_SIZE = (first + count + 2) * PAGE_SIZE
    BY <1>2, <1>3, PmmAssumption, Z3
  <2>4. (p + 2) * PAGE_SIZE < (first + count + 2) * PAGE_SIZE
    BY <2>2, <2>3
  <2>5. p + 2 < first + count + 2
    BY <1>2, <1>3, <2>4, PmmAssumption, Z3
  <2> QED
    BY <1>2, <1>3, <1>4, <1>7, <2>5
<1> QED
  BY <1>8, <1>9

(* For every memory map, no page is lost but the last of a region that     *)
(* begins inside a page: what pmm_alloc passes over belongs to the system  *)
(* or to a caller, or is not wholly available; and the bits are those of   *)
(* pages of this machine.                                                  *)
THEOREM PmmBitmapIsExact == Spec => []BitmapIsExact
<1>1. ASSUME Init PROVE NoPageLost
  BY <1>1 DEF Init, NoPageLost
<1>2. ASSUME NoPageLost, TypeOK, TypeOK', IInv, [Next]_vars PROVE NoPageLost'
  <2> DEFINE Passed(p, m) ==
               \A e \in Available(m) : Inside(p, e) => e.addr % PAGE_SIZE # 0 /\ ~Inside(p + 1, e)
  <2> SUFFICES ASSUME ready', NEW p \in bitmap', p \notin held', p \notin SystemPages
               PROVE  Passed(p, mmap')
    BY DEF NoPageLost
  <2>1. CASE PmmSetup
    <3>1. /\ mmap' = mmap /\ mmap \in MemoryMaps
          /\ p \in Scanned(total_pages')
          /\ \A e \in Available(mmap) : p \notin FreedPages(e)
      BY <1>2, <2>1 DEF PmmSetup, IInv
    <3> SUFFICES ASSUME NEW e \in Available(mmap), Inside(p, e),
                        e.addr % PAGE_SIZE = 0 \/ Inside(p + 1, e)
                 PROVE  FALSE
      BY <3>1
    <3>2. e \in Entry
      BY <3>1, PmmAssumption DEF Available
    <3>3. p \in Nat
      BY <3>1, ScannedAreNaturals
    <3> QED
      BY <3>1, <3>2, <3>3, InsideIsFreed
  <2>2. CASE ready /\ mmap' = mmap /\ (p \in bitmap /\ p \notin held)
    BY <1>2, <2>2 DEF NoPageLost
  <2>3. CASE PmmAlloc
    <3>1. PICK q \in Unmarked : bitmap' = bitmap \cup {q} /\ held' = held \cup {q}
      BY <2>3 DEF PmmAlloc, Mark
    <3>2. ready /\ mmap' = mmap
      BY <2>3 DEF PmmAlloc
    <3> QED
      BY <2>2, <3>1, <3>2
  <2>4. ASSUME NEW q \in held, PmmFree(q) PROVE Passed(p, mmap')
    <3>1. bitmap' = bitmap \ {q} /\ held' = held \ {q} /\ mmap' = mmap /\ ready
      BY <1>2, <2>4 DEF PmmFree, Clear, IInv
    <3> QED
      BY <2>2, <3>1
  <2>5. CASE PmmAllocNull \/ UNCHANGED vars
    BY <2>2, <2>5 DEF PmmAllocNull, vars
  <2> QED
    BY <1>2, <2>1, <2>3, <2>4, <2>5 DEF Next
<1>3. Spec => []NoPageLost
  BY <1>1, <1>2, SpecIInv, SpecTypes, PTL DEF Spec
<1> QED
  BY <1>3, SpecTypes, PTL DEF BitmapIsExact

(* After setup the counter moves with the bits, for every memory map: no   *)
(* call of pmm_free clears a bit that is clear, and none of pmm_alloc sets *)
(* one that is set.                                                        *)
THEOREM PmmCountFollowsBits == Spec => CountFollowsBits
<1>1. ASSUME TypeOK, IInv, [Next]_vars
      PROVE  [ready => used_pages' - used_pages
                         = Cardinality(bitmap') - Cardinality(bitmap)]_vars
  <2> SUFFICES ASSUME ready
               PROVE  \/ used_pages' - used_pages = Cardinality(bitmap') - Cardinality(bitmap)
                      \/ UNCHANGED vars
    OBVIOUS
  <2>1. IsFiniteSet(bitmap) /\ Cardinality(bitmap) \in Nat /\ used_pages \in Int
    <3>1. 8 * (total_pages \div 8) - 1 \in Int
      BY <1>1 DEF TypeOK
    <3>2. IsFiniteSet(Scanned(total_pages))
      BY <3>1, FS_Interval DEF Scanned
    <3> QED
      BY <1>1, <3>2, FS_Subset, FS_CardinalityType DEF TypeOK
  <2>2. CASE PmmAlloc
    <3>1. PICK p \in Unmarked : bitmap' = bitmap \cup {p}
      BY <2>2 DEF PmmAlloc, Mark
    <3>2. used_pages' = used_pages + 1 /\ p \notin bitmap
      BY <2>2 DEF PmmAlloc, Unmarked
    <3>3. Cardinality(bitmap') = Cardinality(bitmap) + 1
      BY <2>1, <3>1, <3>2, FS_AddElement
    <3> QED
      BY <2>1, <3>2, <3>3
  <2>3. ASSUME NEW p \in held, PmmFree(p)
        PROVE  used_pages' - used_pages = Cardinality(bitmap') - Cardinality(bitmap)
    <3>1. bitmap' = bitmap \ {p} /\ used_pages' = used_pages - 1 /\ p \in bitmap
      BY <1>1, <2>3 DEF PmmFree, Clear, CountFreed, IInv
    <3>2. Cardinality(bitmap') = Cardinality(bitmap) - 1
      BY <2>1, <3>1, FS_RemoveElement
    <3> QED
      BY <2>1, <3>1, <3>2
  <2>4. CASE PmmAllocNull \/ UNCHANGED vars
    BY <2>4 DEF PmmAllocNull
  <2>5. ~PmmSetup
    BY DEF PmmSetup
  <2> QED
    BY <1>1, <2>2, <2>3, <2>4, <2>5 DEF Next
<1> QED
  BY <1>1, SpecIInv, SpecTypes, PTL DEF Spec, CountFollowsBits
=============================================================================
