----------------------------- MODULE HeapProofs -----------------------------
(***************************************************************************)
(* Theorems about Heap, for every page size, header size, heap limit and   *)
(* set of request sizes.                                                   *)
(***************************************************************************)
EXTENDS Heap, SequenceTheorems, TLAPS

-----------------------------------------------------------------------------
(* Facts about sequences.                                                  *)

(* Inserting one element, position by position.                            *)
LEMMA InsertAtProperties ==
  ASSUME NEW S, NEW s \in Seq(S), NEW i \in 1..(Len(s) + 1), NEW e \in S
  PROVE  /\ InsertAt(s, i, e) \in Seq(S)
         /\ Len(InsertAt(s, i, e)) = Len(s) + 1
         /\ \A k \in 1..(i - 1) : InsertAt(s, i, e)[k] = s[k]
         /\ InsertAt(s, i, e)[i] = e
         /\ \A k \in (i + 1)..(Len(s) + 1) : InsertAt(s, i, e)[k] = s[k - 1]
<1> DEFINE front == SubSeq(s, 1, i - 1)
           back  == SubSeq(s, i, Len(s))
<1>1. /\ front \in Seq(S) /\ Len(front) = i - 1
      /\ \A k \in 1..(i - 1) : front[k] = s[k]
  BY SubSeqProperties
<1>2. /\ back \in Seq(S) /\ Len(back) = Len(s) - i + 1
      /\ \A k \in 1..(Len(s) - i + 1) : back[k] = s[i + k - 1]
  BY SubSeqProperties
<1>3. <<e>> \in Seq(S) /\ Len(<<e>>) = 1 /\ <<e>>[1] = e
  OBVIOUS
<1> DEFINE mid == <<e>>
<1>4. mid \in Seq(S) /\ Len(mid) = 1 /\ mid[1] = e
  BY <1>3
<1> HIDE DEF front, back, mid
<1>5. /\ front \o mid \in Seq(S) /\ Len(front \o mid) = Len(front) + Len(mid)
      /\ \A k \in 1..(Len(front) + Len(mid)) : (front \o mid)[k] =
                  IF k <= Len(front) THEN front[k] ELSE mid[k - Len(front)]
  <2>1. front \in Seq(S) /\ mid \in Seq(S)
    BY <1>1, <1>4
  <2> HIDE DEF mid
  <2> QED
    BY <2>1, ConcatProperties, Zenon
<1> DEFINE left == front \o mid
<1>6. left \in Seq(S) /\ Len(left) = i /\ left[i] = e /\ \A k \in 1..(i - 1) : left[k] = s[k]
  BY <1>1, <1>4, <1>5
<1> HIDE DEF left
<1>7. /\ left \o back \in Seq(S) /\ Len(left \o back) = Len(left) + Len(back)
      /\ \A k \in 1..(Len(left) + Len(back)) : (left \o back)[k] =
                  IF k <= Len(left) THEN left[k] ELSE back[k - Len(left)]
  <2>1. left \in Seq(S) /\ back \in Seq(S)
    BY <1>2, <1>6
  <2> QED
    BY <2>1, ConcatProperties, Zenon
<1>8. InsertAt(s, i, e) = left \o back
  BY DEF InsertAt, left, front, mid, back
<1> QED
  BY <1>2, <1>6, <1>7, <1>8

(* Removing one element, position by position.                             *)
LEMMA RemoveAtProperties ==
  ASSUME NEW S, NEW s \in Seq(S), NEW i \in 1..Len(s)
  PROVE  /\ RemoveAt(s, i) \in Seq(S)
         /\ Len(RemoveAt(s, i)) = Len(s) - 1
         /\ \A k \in 1..(i - 1) : RemoveAt(s, i)[k] = s[k]
         /\ \A k \in i..(Len(s) - 1) : RemoveAt(s, i)[k] = s[k + 1]
<1> DEFINE front == SubSeq(s, 1, i - 1)
           back  == SubSeq(s, i + 1, Len(s))
<1>1. /\ front \in Seq(S) /\ Len(front) = i - 1
      /\ \A k \in 1..(i - 1) : front[k] = s[k]
  BY SubSeqProperties
<1>2. /\ back \in Seq(S) /\ Len(back) = Len(s) - i
      /\ \A k \in 1..(Len(s) - i) : back[k] = s[i + k]
  BY SubSeqProperties
<1> HIDE DEF front, back
<1>3. /\ front \o back \in Seq(S) /\ Len(front \o back) = Len(front) + Len(back)
      /\ \A k \in 1..(Len(front) + Len(back)) : (front \o back)[k] =
                  IF k <= Len(front) THEN front[k] ELSE back[k - Len(front)]
  <2>1. front \in Seq(S) /\ back \in Seq(S)
    BY <1>1, <1>2
  <2> QED
    BY <2>1, ConcatProperties, Zenon
<1>4. RemoveAt(s, i) = front \o back
  BY DEF RemoveAt, front, back
<1>5. Len(front \o back) = Len(s) - 1
  BY <1>1, <1>2, <1>3
<1>6. \A k \in 1..(i - 1) : (front \o back)[k] = s[k]
  BY <1>1, <1>2, <1>3
<1>7. \A k \in i..(Len(s) - 1) : (front \o back)[k] = s[k + 1]
  BY <1>1, <1>2, <1>3
<1> QED
  BY <1>3, <1>4, <1>5, <1>6, <1>7

-----------------------------------------------------------------------------
(* Facts of arithmetic, named so that a leaf can cite just one of them.    *)
LEMMA NatFacts ==
  /\ \A a, b, c \in Nat : a <= b /\ b <= c => a <= c
  /\ \A a, b, c, d \in Nat : a <= b /\ b <= c /\ c <= d => a <= d
  /\ \A a, b \in Nat : a <= b => ~(b < a)
  /\ \A a, b \in Nat : a + b \in Nat
  OBVIOUS

(* A block header is not empty.                                            *)
LEMMA HeaderSize == HDR \in Nat /\ HDR >= 1 /\ HDR > 0
  BY HeapAssumption

(* An extension of Pages(size) pages holds the request and its header.     *)
LEMMA PagesHold ==
  ASSUME NEW size \in Nat
  PROVE  /\ Pages(size) \in Nat \ {0}
         /\ Pages(size) * PAGE_SIZE \in Nat
         /\ Pages(size) * PAGE_SIZE - HDR \in Nat
         /\ Pages(size) * PAGE_SIZE >= size + HDR
         /\ \A k \in 0..Pages(size) - 1 : k * PAGE_SIZE \in Nat /\ k * PAGE_SIZE <= Pages(size) * PAGE_SIZE
  BY HeapAssumption, Z3 DEF Pages
-----------------------------------------------------------------------------
(* A list of blocks in address order, without a gap and without an overlap.*)
Gapless(bs) == \A i \in 1..(Len(bs) - 1) : bs[i + 1].addr = BlockEnd(bs[i])
Sorted(bs)  == \A i, j \in 1..Len(bs) : i < j => BlockEnd(bs[i]) <= bs[j].addr

Chain(bs) == bs \in Seq(Block) /\ bs # <<>> /\ Gapless(bs) /\ Sorted(bs)

LEMMA BlockArithmetic ==
  ASSUME NEW b \in Block
  PROVE  /\ b.addr \in Nat /\ b.size \in Nat /\ b.free \in BOOLEAN
         /\ BlockEnd(b) \in Nat /\ Payload(b) \in Nat
         /\ Payload(b) <= BlockEnd(b) /\ b.addr < Payload(b)
         /\ BlockEnd(b) = Payload(b) + b.size
         /\ Payload(b) = b.addr + HDR
  BY HeapAssumption DEF Block, BlockEnd, Payload

(* What kmalloc leaves of a block it splits.                               *)
Taken(b, size) == [b EXCEPT !.size = size, !.free = FALSE]

(* Splitting a block: the block handed out and the remainder fill it.      *)
LEMMA SplitBlock ==
  ASSUME NEW b \in Block, NEW size \in Nat, Splits(b, size)
  PROVE  /\ Taken(b, size) \in Block /\ Taken(b, size).addr = b.addr /\ Taken(b, size).size = size /\ ~Taken(b, size).free
         /\ Remainder(b, size) \in Block /\ Remainder(b, size).free
         /\ Remainder(b, size).addr = BlockEnd(Taken(b, size))
         /\ BlockEnd(Remainder(b, size)) = BlockEnd(b)
         /\ BlockEnd(Taken(b, size)) <= BlockEnd(b) /\ b.addr <= Remainder(b, size).addr
<1>1. b.addr \in Nat /\ b.size \in Nat /\ b.size > size + HDR + SLACK
  BY DEF Splits, Block
<1>2. b.addr + HDR + size \in Nat /\ b.addr <= b.addr + HDR + size
  BY <1>1, HeaderSize
<1>3. b.size - size - HDR \in Nat
  BY <1>1, HeapAssumption
<1>4. Taken(b, size) \in Block /\ Taken(b, size).addr = b.addr /\ Taken(b, size).size = size /\ ~Taken(b, size).free
  BY DEF Block, Taken
<1>5. /\ Remainder(b, size) \in Block /\ Remainder(b, size).free
      /\ Remainder(b, size).addr = b.addr + HDR + size
      /\ Remainder(b, size).size = b.size - size - HDR
  BY <1>2, <1>3 DEF Block, Remainder
<1>6. BlockEnd(Taken(b, size)) = b.addr + HDR + size
  BY <1>4 DEF BlockEnd
<1>7. BlockEnd(Remainder(b, size)) = (b.addr + HDR + size) + HDR + (b.size - size - HDR)
  BY <1>5 DEF BlockEnd
<1>8. BlockEnd(b) = b.addr + HDR + b.size
  BY DEF BlockEnd
<1>9. BlockEnd(Remainder(b, size)) = BlockEnd(b)
  BY <1>1, <1>7, <1>8, HeaderSize
<1>10. BlockEnd(Taken(b, size)) <= BlockEnd(b)
  BY <1>1, <1>6, <1>8, HeapAssumption
<1> QED
  BY <1>2, <1>4, <1>5, <1>6, <1>9, <1>10

(* Merging a block with the next one: the result spans both.               *)
LEMMA MergeBlocks ==
  ASSUME NEW b \in Block, NEW c \in Block, c.addr = BlockEnd(b)
  PROVE  /\ Merged(b, c) \in Block /\ Merged(b, c).addr = b.addr /\ Merged(b, c).free
         /\ BlockEnd(Merged(b, c)) = BlockEnd(c)
<1>1. b.addr \in Nat /\ b.size \in Nat /\ c.addr \in Nat /\ c.size \in Nat
  BY DEF Block
<1> DEFINE sum == b.size + HDR + c.size
<1>2. sum \in Nat
  BY <1>1, HeaderSize
<1>3. Merged(b, c) = [b EXCEPT !.size = sum, !.free = TRUE]
  BY DEF Merged
<1>4. sum = b.size + HDR + c.size
  OBVIOUS
<1> HIDE DEF sum
<1>5. /\ Merged(b, c) \in Block /\ Merged(b, c).addr = b.addr /\ Merged(b, c).free
      /\ Merged(b, c).size = sum
  BY <1>2, <1>3 DEF Block
<1>6. BlockEnd(Merged(b, c)) = b.addr + HDR + sum
  BY <1>5 DEF BlockEnd
<1>7. BlockEnd(c) = (b.addr + HDR + b.size) + HDR + c.size
  BY DEF BlockEnd
<1> QED
  BY <1>1, <1>4, <1>5, <1>6, <1>7, HeaderSize

(* What the carved list is made of: the block handed out, a free remainder *)
(* and the other blocks as they were.                                      *)
CarvedFrom(cs, bs, i, size) ==
  /\ \E j \in 1..Len(cs) : cs[j].addr = bs[i].addr /\ ~cs[j].free /\ cs[j].size >= size
  /\ \A k \in 1..Len(bs) : k # i => \E j \in 1..Len(cs) : cs[j] = bs[k]
  /\ \A j \in 1..Len(cs) :
        \/ cs[j].free
        \/ cs[j].addr = bs[i].addr /\ cs[j].size >= size
        \/ \E k \in 1..Len(bs) : k # i /\ cs[j] = bs[k]

(* Marking block i, and giving it another size, changes no other block.    *)
LEMMA CarveKeepsChain ==
  ASSUME NEW bs, Chain(bs), NEW i \in 1..Len(bs), NEW size \in Nat, Fits(bs[i], size)
  PROVE  /\ Chain(Carve(bs, i, size))
         /\ Carve(bs, i, size)[1].addr = bs[1].addr
         /\ BlockEnd(Carve(bs, i, size)[Len(Carve(bs, i, size))]) = BlockEnd(bs[Len(bs)])
         /\ CarvedFrom(Carve(bs, i, size), bs, i, size)
<1> USE HeaderSize
<1>1. /\ bs \in Seq(Block) /\ bs[i] \in Block /\ bs[i].free /\ bs[i].size >= size
      /\ Len(bs) \in Nat /\ Len(bs) >= 1
      /\ \A k \in 1..Len(bs) : bs[k] \in Block
      /\ bs[i].addr \in Nat /\ bs[i].size \in Nat
      /\ Gapless(bs) /\ Sorted(bs)
  <2>1. bs \in Seq(Block) /\ Len(bs) \in Nat /\ Len(bs) >= 1 /\ Gapless(bs) /\ Sorted(bs)
    BY DEF Chain
  <2>2. \A k \in 1..Len(bs) : bs[k] \in Block
    BY <2>1
  <2>3. bs[i].free /\ bs[i].size >= size
    BY DEF Fits
  <2> QED
    BY <2>1, <2>2, <2>3, BlockArithmetic
<1>2. CASE ~Splits(bs[i], size)
  <2> DEFINE taken == [bs[i] EXCEPT !.free = FALSE]
             new == [bs EXCEPT ![i] = taken]
  <2>1. Carve(bs, i, size) = new
    BY <1>2 DEF Carve
  <2>2. /\ taken \in Block /\ taken.addr = bs[i].addr /\ taken.size = bs[i].size /\ ~taken.free
        /\ BlockEnd(taken) = BlockEnd(bs[i])
    BY <1>1 DEF Block, BlockEnd
  <2> HIDE DEF taken
  <2>3. /\ new \in Seq(Block) /\ Len(new) = Len(bs) /\ new[i] = taken
        /\ \A k \in 1..Len(bs) : k # i => new[k] = bs[k]
    BY <1>1, <2>2
  <2> HIDE DEF new
  <2>4. /\ \A k \in 1..Len(bs) : new[k].addr = bs[k].addr /\ BlockEnd(new[k]) = BlockEnd(bs[k])
    BY <2>2, <2>3
  <2>5. Gapless(new) /\ Sorted(new)
    BY <1>1, <2>3, <2>4 DEF Gapless, Sorted
  <2>6. new # <<>> /\ new[1].addr = bs[1].addr /\ BlockEnd(new[Len(new)]) = BlockEnd(bs[Len(bs)])
    BY <1>1, <2>3, <2>4
  <2>7. Chain(new)
    BY <2>3, <2>5, <2>6 DEF Chain
  <2>8. CarvedFrom(new, bs, i, size)
    BY <1>1, <2>2, <2>3 DEF CarvedFrom
  <2> QED
    BY <2>1, <2>6, <2>7, <2>8
<1>3. CASE Splits(bs[i], size)
  <2> DEFINE taken == Taken(bs[i], size)
             rest == Remainder(bs[i], size)
             marked == [bs EXCEPT ![i] = taken]
             new == InsertAt(marked, i + 1, rest)
  <2>1. Carve(bs, i, size) = new
    BY <1>3 DEF Carve, Taken
  <2>2. /\ taken \in Block /\ taken.addr = bs[i].addr /\ taken.size = size /\ ~taken.free
        /\ rest \in Block /\ rest.free
        /\ rest.addr = BlockEnd(taken) /\ BlockEnd(rest) = BlockEnd(bs[i])
        /\ BlockEnd(taken) <= BlockEnd(bs[i]) /\ bs[i].addr <= rest.addr
    <3>1. bs[i] \in Block
      BY <1>1
    <3> QED
      BY <3>1, <1>3, SplitBlock
  <2> HIDE DEF taken, rest
  <2>3. /\ marked \in Seq(Block) /\ Len(marked) = Len(bs) /\ marked[i] = taken
        /\ \A k \in 1..Len(bs) : k # i => marked[k] = bs[k]
    BY <1>1, <2>2
  <2> HIDE DEF marked
  <2>4. /\ new \in Seq(Block) /\ Len(new) = Len(bs) + 1
        /\ \A k \in 1..i : new[k] = marked[k]
        /\ new[i + 1] = rest
        /\ \A k \in (i + 2)..(Len(bs) + 1) : new[k] = marked[k - 1]
    <3>1. i + 1 \in 1..(Len(marked) + 1) /\ rest \in Block /\ marked \in Seq(Block)
      BY <2>2, <2>3
    <3>2. /\ new \in Seq(Block) /\ Len(new) = Len(marked) + 1
          /\ \A k \in 1..((i + 1) - 1) : new[k] = marked[k]
          /\ new[i + 1] = rest
          /\ \A k \in ((i + 1) + 1)..(Len(marked) + 1) : new[k] = marked[k - 1]
      <4> DEFINE p == i + 1
      <4>1. p \in 1..(Len(marked) + 1)
        BY <3>1
      <4> HIDE DEF p
      <4>2. /\ InsertAt(marked, p, rest) \in Seq(Block)
            /\ Len(InsertAt(marked, p, rest)) = Len(marked) + 1
            /\ \A k \in 1..(p - 1) : InsertAt(marked, p, rest)[k] = marked[k]
            /\ InsertAt(marked, p, rest)[p] = rest
            /\ \A k \in (p + 1)..(Len(marked) + 1) : InsertAt(marked, p, rest)[k] = marked[k - 1]
        BY <3>1, <4>1, InsertAtProperties
      <4> QED
        BY <4>2 DEF p
    <3>3. (i + 1) - 1 = i /\ (i + 1) + 1 = i + 2
      OBVIOUS
    <3> HIDE DEF new
    <3> QED
      BY <2>3, <3>2, <3>3
  <2> HIDE DEF new
  <2>5. /\ \A k \in 1..(i - 1) : new[k] = bs[k]
        /\ new[i] = taken /\ new[i + 1] = rest
        /\ \A k \in (i + 2)..(Len(bs) + 1) : new[k] = bs[k - 1]
        /\ \A k \in (i + 1)..Len(bs) : new[k + 1] = bs[k]
    <3>1. \A k \in 1..(i - 1) : new[k] = bs[k]
      BY <1>1, <2>3, <2>4
    <3>2. new[i] = taken /\ new[i + 1] = rest
      BY <1>1, <2>3, <2>4
    <3>3. ASSUME NEW k \in (i + 2)..(Len(bs) + 1) PROVE new[k] = bs[k - 1]
      <4>1. k - 1 \in 1..Len(bs) /\ k - 1 # i
        BY <1>1
      <4> QED
        BY <4>1, <2>3, <2>4
    <3>4. ASSUME NEW k \in (i + 1)..Len(bs) PROVE new[k + 1] = bs[k]
      <4>1. k + 1 \in (i + 2)..(Len(bs) + 1) /\ (k + 1) - 1 = k
        BY <1>1
      <4> QED
        BY <4>1, <3>3
    <3> QED
      BY <3>1, <3>2, <3>3, <3>4
  <2>6. Gapless(new)
    <3>1. 1..(Len(new) - 1) = 1..Len(bs)
      BY <1>1, <2>4
    <3> SUFFICES ASSUME NEW k \in 1..Len(bs) PROVE new[k + 1].addr = BlockEnd(new[k])
      BY <3>1, Zenon DEF Gapless
    <3>2. CASE k < i - 1
      BY <3>2, <1>1, <2>5 DEF Gapless
    <3>3. CASE k = i - 1
      BY <3>3, <1>1, <2>2, <2>5 DEF Gapless
    <3>4. CASE k = i
      BY <3>4, <2>2, <2>5
    <3>5. CASE k = i + 1
      <4>1. new[k + 1] = bs[i + 1] /\ BlockEnd(new[k]) = BlockEnd(bs[i])
        BY <3>5, <1>1, <2>2, <2>5
      <4> QED
        BY <3>5, <4>1, <1>1 DEF Gapless
    <3>6. CASE k > i + 1
      <4>1. k \in (i + 1)..Len(bs) /\ k \in (i + 2)..(Len(bs) + 1)
        BY <3>6, <1>1
      <4>2. new[k + 1] = bs[k] /\ new[k] = bs[k - 1]
        BY <4>1, <2>5, Zenon
      <4>3. (k - 1) \in 1..(Len(bs) - 1) /\ (k - 1) + 1 = k
        BY <4>1, <1>1
      <4> QED
        BY <4>2, <4>3, <1>1 DEF Gapless
    <3> QED
      BY <3>2, <3>3, <3>4, <3>5, <3>6
  <2>7. Sorted(new)
    <3> DEFINE from(k) == IF k <= i THEN k ELSE k - 1
    <3>1. ASSUME NEW k \in 1..(Len(bs) + 1)
          PROVE  /\ from(k) \in 1..Len(bs)
                 /\ bs[from(k)].addr <= new[k].addr
                 /\ BlockEnd(new[k]) <= BlockEnd(bs[from(k)])
                 /\ bs[from(k)].addr \in Nat /\ BlockEnd(bs[from(k)]) \in Nat
                 /\ new[k].addr \in Nat /\ BlockEnd(new[k]) \in Nat
      <4>1. from(k) \in 1..Len(bs)
        BY <1>1
      <4>2. from(k) \in 1..Len(bs) /\ bs[from(k)] \in Block /\ new[k] \in Block
        BY <4>1, <1>1, <2>4
      <4>3. /\ bs[from(k)].addr \in Nat /\ BlockEnd(bs[from(k)]) \in Nat
            /\ new[k].addr \in Nat /\ BlockEnd(new[k]) \in Nat
        BY <4>2, BlockArithmetic
      <4>4. bs[from(k)].addr <= new[k].addr /\ BlockEnd(new[k]) <= BlockEnd(bs[from(k)])
        <5>1. CASE k < i \/ k > i + 1
          <6>1. new[k] = bs[from(k)]
            BY <5>1, <1>1, <2>5
          <6> HIDE DEF from
          <6> QED
            BY <4>3, <6>1
        <5>2. CASE k = i
          BY <4>3, <5>2, <1>1, <2>2, <2>5
        <5>3. CASE k = i + 1
          BY <4>3, <5>3, <1>1, <2>2, <2>5
        <5>4. (k < i \/ k > i + 1) \/ k = i \/ k = i + 1
          OBVIOUS
        <5> HIDE DEF from
        <5> QED
          BY <5>1, <5>2, <5>3, <5>4
      <4> HIDE DEF from
      <4> QED
        BY <4>2, <4>3, <4>4
    <3> SUFFICES ASSUME NEW k \in 1..(Len(bs) + 1), NEW l \in 1..(Len(bs) + 1), k < l
                 PROVE  BlockEnd(new[k]) <= new[l].addr
      BY <2>4 DEF Sorted
    <3>2. CASE k = i /\ l = i + 1
      <4>1. new[l].addr = BlockEnd(new[k])
        BY <3>2, <2>2, <2>5
      <4> QED
        BY <4>1, <3>1
    <3>3. CASE ~(k = i /\ l = i + 1)
      <4>1. from(k) < from(l)
        BY <3>3
      <4>2. BlockEnd(bs[from(k)]) <= bs[from(l)].addr
        <5>1. from(k) \in 1..Len(bs) /\ from(l) \in 1..Len(bs)
          BY <3>1
        <5> HIDE DEF from
        <5> QED
          BY <1>1, <4>1, <5>1 DEF Sorted
      <4> HIDE DEF from
      <4>3. /\ BlockEnd(new[k]) <= BlockEnd(bs[from(k)])
            /\ BlockEnd(new[k]) \in Nat /\ BlockEnd(bs[from(k)]) \in Nat
        BY <3>1
      <4>4. /\ bs[from(l)].addr <= new[l].addr
            /\ bs[from(l)].addr \in Nat /\ new[l].addr \in Nat
        BY <3>1
      <4> QED
        BY <4>2, <4>3, <4>4, NatFacts, Zenon
    <3> QED
      BY <3>2, <3>3
  <2>8. /\ new # <<>> /\ new[1].addr = bs[1].addr
        /\ BlockEnd(new[Len(new)]) = BlockEnd(bs[Len(bs)])
    <3>1. new[1].addr = bs[1].addr
      BY <1>1, <2>2, <2>5
    <3>2. CASE i = Len(bs)
      BY <3>1, <3>2, <1>1, <2>2, <2>4, <2>5
    <3>3. CASE i < Len(bs)
      BY <3>1, <3>3, <1>1, <2>4, <2>5, SMTT(30)
    <3> QED
      BY <3>2, <3>3
  <2>9. \A k \in 1..Len(bs) : k # i => \E j \in 1..Len(new) : new[j] = bs[k]
    <3> SUFFICES ASSUME NEW k \in 1..Len(bs), k # i
                 PROVE  \E j \in 1..Len(new) : new[j] = bs[k]
      OBVIOUS
    <3>1. CASE k < i
      <4>1. k \in 1..Len(new) /\ new[k] = bs[k]
        BY <3>1, <1>1, <2>4, <2>5
      <4> QED
        BY <4>1
    <3>2. CASE k > i
      <4>1. k + 1 \in 1..Len(new) /\ new[k + 1] = bs[k]
        BY <3>2, <1>1, <2>4, <2>5
      <4> QED
        BY <4>1
    <3> QED
      BY <3>1, <3>2
  <2>10. \A j \in 1..Len(new) :
            \/ new[j].free
            \/ new[j].addr = bs[i].addr /\ new[j].size >= size
            \/ \E k \in 1..Len(bs) : k # i /\ new[j] = bs[k]
    <3> SUFFICES ASSUME NEW j \in 1..Len(new), ~new[j].free, j # i
                 PROVE  \E k \in 1..Len(bs) : k # i /\ new[j] = bs[k]
      <4>1. new[i].addr = bs[i].addr /\ new[i].size >= size
        BY <1>1, <2>2, <2>5
      <4> QED
        BY <4>1
    <3>1. CASE j < i
      <4>1. j \in 1..Len(bs) /\ j \in 1..(i - 1)
        BY <3>1, <1>1
      <4>2. j \in 1..Len(bs) /\ new[j] = bs[j]
        BY <4>1, <2>5
      <4> QED
        BY <3>1, <4>2
    <3>2. CASE j > i + 1
      <4>1. j - 1 \in 1..Len(bs) /\ j - 1 # i /\ new[j] = bs[j - 1]
        BY <3>2, <1>1, <2>4, <2>5
      <4> QED
        BY <4>1
    <3> QED
      BY <3>1, <3>2, <2>2, <2>4, <2>5
  <2>11. i \in 1..Len(new) /\ new[i].addr = bs[i].addr /\ ~new[i].free /\ new[i].size >= size
    BY <1>1, <2>2, <2>4, <2>5
  <2>12. Chain(new)
    BY <2>4, <2>6, <2>7, <2>8 DEF Chain
  <2>13. CarvedFrom(new, bs, i, size)
    BY <2>9, <2>10, <2>11, Zenon DEF CarvedFrom
  <2> QED
    BY <2>1, <2>8, <2>12, <2>13
<1> QED
  BY <1>2, <1>3

(* Freeing block i, merged or not, changes no block in use but that one.   *)
LEMMA ReleaseKeepsChain ==
  ASSUME NEW bs, Chain(bs), NEW i \in 1..Len(bs)
  PROVE  /\ Chain(Release(bs, i))
         /\ Release(bs, i)[1].addr = bs[1].addr
         /\ BlockEnd(Release(bs, i)[Len(Release(bs, i))]) = BlockEnd(bs[Len(bs)])
         /\ \A k \in 1..Len(bs) : k # i /\ ~bs[k].free =>
               \E j \in 1..Len(Release(bs, i)) : Release(bs, i)[j] = bs[k]
         /\ \A j \in 1..Len(Release(bs, i)) :
               \/ Release(bs, i)[j].free
               \/ \E k \in 1..Len(bs) : k # i /\ Release(bs, i)[j] = bs[k]
<1> USE HeaderSize
<1>1. /\ bs \in Seq(Block) /\ bs[i] \in Block
      /\ Len(bs) \in Nat /\ Len(bs) >= 1
      /\ \A k \in 1..Len(bs) : bs[k] \in Block
      /\ bs[i].addr \in Nat /\ bs[i].size \in Nat
      /\ Gapless(bs) /\ Sorted(bs)
  <2>1. bs \in Seq(Block) /\ Len(bs) \in Nat /\ Len(bs) >= 1 /\ Gapless(bs) /\ Sorted(bs)
    BY DEF Chain
  <2>2. \A k \in 1..Len(bs) : bs[k] \in Block
    BY <2>1
  <2> QED
    BY <2>1, <2>2, BlockArithmetic
<1>2. CASE ~MergesNext(bs, i)
  <2> DEFINE freed == [bs[i] EXCEPT !.free = TRUE]
             new == [bs EXCEPT ![i] = freed]
  <2>1. Release(bs, i) = new
    BY <1>2 DEF Release
  <2>2. /\ freed \in Block /\ freed.addr = bs[i].addr /\ freed.free
        /\ BlockEnd(freed) = BlockEnd(bs[i])
    BY <1>1 DEF Block, BlockEnd
  <2> HIDE DEF freed
  <2>3. /\ new \in Seq(Block) /\ Len(new) = Len(bs) /\ new[i] = freed
        /\ \A k \in 1..Len(bs) : k # i => new[k] = bs[k]
    BY <1>1, <2>2
  <2> HIDE DEF new
  <2>4. \A k \in 1..Len(bs) : new[k].addr = bs[k].addr /\ BlockEnd(new[k]) = BlockEnd(bs[k])
    BY <2>2, <2>3
  <2>5. Gapless(new) /\ Sorted(new)
    BY <1>1, <2>3, <2>4 DEF Gapless, Sorted
  <2>6. new # <<>> /\ new[1].addr = bs[1].addr /\ BlockEnd(new[Len(new)]) = BlockEnd(bs[Len(bs)])
    BY <1>1, <2>3, <2>4
  <2>7. Chain(new)
    BY <2>3, <2>5, <2>6 DEF Chain
  <2> QED
    BY <1>1, <2>1, <2>2, <2>3, <2>6, <2>7
<1>3. CASE MergesNext(bs, i)
  <2> DEFINE both == Merged(bs[i], bs[i + 1])
             marked == [bs EXCEPT ![i] = both]
             p == i + 1
             new == RemoveAt(marked, p)
  <2>1. Release(bs, i) = new
    BY <1>3 DEF Release
  <2>2. i < Len(bs) /\ bs[i + 1].free /\ bs[i + 1] \in Block
        /\ bs[i + 1].addr = BlockEnd(bs[i])
    BY <1>1, <1>3 DEF MergesNext, Gapless
  <2>3. /\ both \in Block /\ both.addr = bs[i].addr /\ both.free
        /\ BlockEnd(both) = BlockEnd(bs[i + 1])
    <3>1. bs[i] \in Block
      BY <1>1
    <3> QED
      BY <3>1, <2>2, MergeBlocks
  <2> HIDE DEF both
  <2>4. /\ marked \in Seq(Block) /\ Len(marked) = Len(bs) /\ marked[i] = both
        /\ \A k \in 1..Len(bs) : k # i => marked[k] = bs[k]
    BY <1>1, <2>3
  <2>5. p \in 1..Len(marked)
    BY <1>1, <2>2, <2>4
  <2> HIDE DEF marked, p
  <2>6. /\ new \in Seq(Block) /\ Len(new) = Len(marked) - 1
        /\ \A k \in 1..(p - 1) : new[k] = marked[k]
        /\ \A k \in p..(Len(marked) - 1) : new[k] = marked[k + 1]
    BY <2>4, <2>5, RemoveAtProperties
  <2> HIDE DEF new
  <2>7. /\ Len(new) = Len(bs) - 1
        /\ \A k \in 1..(i - 1) : new[k] = bs[k]
        /\ new[i] = both
        /\ \A k \in (i + 1)..(Len(bs) - 1) : new[k] = bs[k + 1]
        /\ \A k \in (i + 2)..Len(bs) : new[k - 1] = bs[k]
    <3>1. Len(new) = Len(bs) - 1
      BY <2>4, <2>6
    <3>2. new[i] = both /\ \A k \in 1..(i - 1) : new[k] = bs[k]
      <4>1. p - 1 = i
        BY DEF p
      <4>2. \A k \in 1..i : new[k] = marked[k]
        BY <2>6, <4>1
      <4>3. new[i] = both
        BY <2>4, <4>2
      <4>4. ASSUME NEW k \in 1..(i - 1) PROVE new[k] = bs[k]
        <5>1. k \in 1..i /\ k \in 1..Len(bs) /\ k # i
          BY <1>1
        <5> QED
          BY <2>4, <4>2, <5>1
      <4> QED
        BY <4>3, <4>4
    <3>3. ASSUME NEW k \in (i + 1)..(Len(bs) - 1) PROVE new[k] = bs[k + 1]
      <4>1. k + 1 \in 1..Len(bs) /\ k + 1 # i
        BY <1>1
      <4> QED
        BY <4>1, <2>4, <2>6 DEF p
    <3>4. ASSUME NEW k \in (i + 2)..Len(bs) PROVE new[k - 1] = bs[k]
      <4>1. k - 1 \in (i + 1)..(Len(bs) - 1) /\ (k - 1) + 1 = k
        BY <1>1
      <4> QED
        BY <4>1, <3>3
    <3> QED
      BY <3>1, <3>2, <3>3, <3>4
  <2>8. Gapless(new)
    <3> SUFFICES ASSUME NEW k \in 1..(Len(bs) - 2) PROVE new[k + 1].addr = BlockEnd(new[k])
      BY <2>7 DEF Gapless
    <3>1. CASE k < i - 1
      BY <3>1, <1>1, <2>7 DEF Gapless
    <3>2. CASE k = i - 1
      BY <3>2, <1>1, <2>3, <2>7 DEF Gapless
    <3>3. CASE k = i
      <4>1. new[k] = both /\ new[k + 1] = bs[i + 2] /\ i + 1 \in 1..(Len(bs) - 1)
        BY <3>3, <1>1, <2>7
      <4>2. bs[(i + 1) + 1].addr = BlockEnd(bs[i + 1])
        BY <4>1, <1>1 DEF Gapless
      <4> QED
        BY <4>1, <4>2, <2>3
    <3>4. CASE k > i
      <4>1. /\ k \in (i + 1)..(Len(bs) - 1) /\ k + 1 \in (i + 1)..(Len(bs) - 1)
            /\ k + 1 \in 1..(Len(bs) - 1)
        BY <3>4, <1>1, <2>7
      <4>2. new[k] = bs[k + 1] /\ new[k + 1] = bs[(k + 1) + 1] /\ k + 1 \in 1..(Len(bs) - 1)
        BY <4>1, <2>7, Zenon
      <4> QED
        BY <4>2, <1>1 DEF Gapless
    <3> QED
      BY <3>1, <3>2, <3>3, <3>4
  <2>9. Sorted(new)
    <3> DEFINE first(k) == IF k <= i THEN k ELSE k + 1
               last(k)  == IF k < i THEN k ELSE k + 1
    <3>1. ASSUME NEW k \in 1..(Len(bs) - 1)
          PROVE  /\ first(k) \in 1..Len(bs) /\ last(k) \in 1..Len(bs)
                 /\ new[k].addr = bs[first(k)].addr
                 /\ BlockEnd(new[k]) = BlockEnd(bs[last(k)])
      <4>1. first(k) \in 1..Len(bs) /\ last(k) \in 1..Len(bs)
        BY <1>1
      <4>2. CASE k < i
        <5>1. new[k] = bs[k] /\ first(k) = k /\ last(k) = k
          BY <4>2, <1>1, <2>7
        <5> QED
          BY <4>1, <5>1
      <4>3. CASE k = i
        <5>1. first(k) = i /\ last(k) = i + 1
          BY <4>3, <1>1
        <5>2. new[k].addr = bs[i].addr /\ BlockEnd(new[k]) = BlockEnd(bs[i + 1])
          BY <4>3, <2>3, <2>7
        <5> QED
          BY <4>1, <5>1, <5>2
      <4>4. CASE k > i
        <5>1. new[k] = bs[k + 1] /\ first(k) = k + 1 /\ last(k) = k + 1
          BY <4>4, <1>1, <2>7
        <5> QED
          BY <4>1, <5>1
      <4>5. k < i \/ k = i \/ k > i
        OBVIOUS
      <4> HIDE DEF first, last
      <4> QED
        BY <4>5, <4>1, <4>2, <4>3, <4>4
    <3> SUFFICES ASSUME NEW k \in 1..(Len(bs) - 1), NEW l \in 1..(Len(bs) - 1), k < l
                 PROVE  BlockEnd(new[k]) <= new[l].addr
      BY <2>7 DEF Sorted
    <3>2. last(k) < first(l)
      BY <1>1
    <3> HIDE DEF first, last
    <3>3. /\ last(k) \in 1..Len(bs) /\ first(l) \in 1..Len(bs)
          /\ BlockEnd(new[k]) = BlockEnd(bs[last(k)]) /\ new[l].addr = bs[first(l)].addr
      BY <3>1
    <3>4. BlockEnd(bs[last(k)]) <= bs[first(l)].addr
      BY <1>1, <3>2, <3>3 DEF Sorted
    <3> QED
      BY <3>3, <3>4
  <2>10. /\ new # <<>> /\ new[1].addr = bs[1].addr
         /\ BlockEnd(new[Len(new)]) = BlockEnd(bs[Len(bs)])
    <3>1. Len(new) >= 1 /\ new[1].addr = bs[1].addr
      BY <1>1, <2>2, <2>3, <2>7
    <3>2. CASE i + 1 = Len(bs)
      BY <3>1, <3>2, <1>1, <2>3, <2>7
    <3>3. CASE i + 1 < Len(bs)
      <4>1. Len(bs) - 1 \in (i + 1)..(Len(bs) - 1) /\ (Len(bs) - 1) + 1 = Len(bs)
        BY <3>3, <1>1
      <4>2. new[Len(bs) - 1] = bs[Len(bs)]
        BY <4>1, <2>7
      <4> QED
        BY <3>1, <4>2, <2>7
    <3> QED
      BY <3>2, <3>3, <1>1, <2>2
  <2>11. \A k \in 1..Len(bs) : k # i /\ ~bs[k].free => \E j \in 1..Len(new) : new[j] = bs[k]
    <3> SUFFICES ASSUME NEW k \in 1..Len(bs), k # i, ~bs[k].free
                 PROVE  \E j \in 1..Len(new) : new[j] = bs[k]
      OBVIOUS
    <3>1. CASE k < i
      <4>1. k \in 1..Len(new) /\ new[k] = bs[k]
        BY <3>1, <1>1, <2>2, <2>7
      <4> QED
        BY <4>1
    <3>2. CASE k > i
      <4>1. k # i + 1
        BY <2>2
      <4>2. k - 1 \in 1..Len(new) /\ new[k - 1] = bs[k]
        BY <3>2, <4>1, <1>1, <2>7
      <4> QED
        BY <4>2
    <3> QED
      BY <3>1, <3>2
  <2>12. \A j \in 1..Len(new) :
            new[j].free \/ \E k \in 1..Len(bs) : k # i /\ new[j] = bs[k]
    <3> SUFFICES ASSUME NEW j \in 1..Len(new), j # i
                 PROVE  \E k \in 1..Len(bs) : k # i /\ new[j] = bs[k]
      BY <2>3, <2>7
    <3>1. CASE j < i
      <4>1. j \in 1..Len(bs) /\ new[j] = bs[j]
        BY <3>1, <1>1, <2>7
      <4> QED
        BY <3>1, <4>1
    <3>2. CASE j > i
      <4>1. j + 1 \in 1..Len(bs) /\ j + 1 # i /\ new[j] = bs[j + 1]
        BY <3>2, <1>1, <2>7
      <4> QED
        BY <4>1
    <3> QED
      BY <3>1, <3>2, <1>1
  <2>13. Chain(new)
    BY <2>6, <2>8, <2>9, <2>10 DEF Chain
  <2> QED
    BY <2>1, <2>10, <2>11, <2>12, <2>13
<1> QED
  BY <1>2, <1>3

-----------------------------------------------------------------------------
(* What the holders of lv may rely on when the block list is bs.           *)
Ranges == [ptr : Nat, size : Nat]

Backs(bs, lv) ==
  /\ \A r \in lv : \E i \in 1..Len(bs) :
        Payload(bs[i]) = r.ptr /\ ~bs[i].free /\ r.size <= bs[i].size
  /\ \A i \in 1..Len(bs) : ~bs[i].free =>
        \E r \in lv : r.ptr = Payload(bs[i]) /\ r.size <= bs[i].size

OneOwner(lv) == \A r, s \in lv : r.ptr = s.ptr => r = s

(* Two blocks of a chain have different addresses, and all of them lie     *)
(* between the first address and the end of the last block.                *)
LEMMA ChainBounds ==
  ASSUME NEW bs, Chain(bs), NEW i \in 1..Len(bs)
  PROVE  /\ bs[1].addr <= bs[i].addr
         /\ BlockEnd(bs[i]) <= BlockEnd(bs[Len(bs)])
         /\ \A j \in 1..Len(bs) : j # i => Payload(bs[j]) # Payload(bs[i])
<1>1. bs \in Seq(Block) /\ Len(bs) \in Nat /\ Len(bs) >= 1
  BY DEF Chain
<1>2. \A k \in 1..Len(bs) : bs[k] \in Block
  BY <1>1
<1>3. \A k \in 1..Len(bs) : /\ bs[k].addr \in Nat /\ BlockEnd(bs[k]) \in Nat
                            /\ Payload(bs[k]) = bs[k].addr + HDR
                            /\ bs[k].addr + HDR <= BlockEnd(bs[k])
  BY <1>2, BlockArithmetic
<1>4. \A k, l \in 1..Len(bs) : k < l => BlockEnd(bs[k]) <= bs[l].addr
  BY DEF Chain, Sorted
<1>5. 1 \in 1..Len(bs) /\ Len(bs) \in 1..Len(bs)
  BY <1>1
<1>6. bs[1].addr <= bs[i].addr
  <2>1. CASE i = 1
    BY <1>3, <2>1
  <2>2. CASE i # 1
    <3>1. BlockEnd(bs[1]) <= bs[i].addr
      BY <1>1, <1>4, <1>5, <2>2
    <3>2. /\ bs[1].addr \in Nat /\ BlockEnd(bs[1]) \in Nat /\ bs[i].addr \in Nat
          /\ bs[1].addr + HDR <= BlockEnd(bs[1])
      BY <1>3, <1>5
    <3> QED
      BY <3>1, <3>2, HeaderSize
  <2> QED
    BY <2>1, <2>2
<1>7. BlockEnd(bs[i]) <= BlockEnd(bs[Len(bs)])
  <2>1. CASE i = Len(bs)
    BY <1>3, <2>1
  <2>2. CASE i # Len(bs)
    <3>1. BlockEnd(bs[i]) <= bs[Len(bs)].addr
      BY <1>1, <1>4, <1>5, <2>2
    <3>2. /\ BlockEnd(bs[i]) \in Nat /\ bs[Len(bs)].addr \in Nat
          /\ BlockEnd(bs[Len(bs)]) \in Nat
          /\ bs[Len(bs)].addr + HDR <= BlockEnd(bs[Len(bs)])
      BY <1>3, <1>5
    <3> QED
      BY <3>1, <3>2, HeaderSize
  <2> QED
    BY <2>1, <2>2
<1>8. ASSUME NEW j \in 1..Len(bs), j # i PROVE Payload(bs[j]) # Payload(bs[i])
  <2>1. BlockEnd(bs[j]) <= bs[i].addr \/ BlockEnd(bs[i]) <= bs[j].addr
    BY <1>1, <1>4, <1>8
  <2>2. /\ bs[i].addr \in Nat /\ BlockEnd(bs[i]) \in Nat
        /\ Payload(bs[i]) = bs[i].addr + HDR /\ bs[i].addr + HDR <= BlockEnd(bs[i])
        /\ bs[j].addr \in Nat /\ BlockEnd(bs[j]) \in Nat
        /\ Payload(bs[j]) = bs[j].addr + HDR /\ bs[j].addr + HDR <= BlockEnd(bs[j])
    BY <1>3
  <2> QED
    BY <2>1, <2>2, HeaderSize, SMTT(30)
<1> QED
  BY <1>6, <1>7, <1>8

(* The range kmalloc hands out from a free block lies inside the list and  *)
(* shares no byte, and not even its pointer, with a range handed out before*)
LEMMA HandOutIsApart ==
  ASSUME NEW bs, Chain(bs), NEW lv \in SUBSET Ranges, Backs(bs, lv),
         NEW i \in 1..Len(bs), NEW size \in Nat, Fits(bs[i], size)
  PROVE  /\ Payload(bs[i]) \in Nat
         /\ bs[1].addr <= Payload(bs[i])
         /\ Payload(bs[i]) + size <= BlockEnd(bs[Len(bs)])
         /\ \A s \in lv : /\ s.ptr # Payload(bs[i])
                          /\ \/ s.ptr + s.size <= Payload(bs[i])
                             \/ Payload(bs[i]) + size <= s.ptr
<1>1. bs \in Seq(Block)
  BY DEF Chain
<1>2. \A k \in 1..Len(bs) : bs[k] \in Block
  BY <1>1
<1>3. \A k \in 1..Len(bs) : /\ bs[k].addr \in Nat /\ BlockEnd(bs[k]) \in Nat
                            /\ bs[k].size \in Nat
                            /\ Payload(bs[k]) = bs[k].addr + HDR
                            /\ Payload(bs[k]) \in Nat
                            /\ BlockEnd(bs[k]) = Payload(bs[k]) + bs[k].size
  BY <1>2, BlockArithmetic
<1>4. bs[i].free /\ bs[i].size >= size
  BY DEF Fits
<1>5. /\ bs[1].addr <= Payload(bs[i]) /\ Payload(bs[i]) + size <= BlockEnd(bs[Len(bs)])
  <2>1. 1 \in 1..Len(bs) /\ Len(bs) \in 1..Len(bs)
    BY <1>1 DEF Chain
  <2>2. bs[1].addr <= bs[i].addr /\ BlockEnd(bs[i]) <= BlockEnd(bs[Len(bs)])
    BY ChainBounds
  <2>3. /\ bs[1].addr \in Nat /\ BlockEnd(bs[Len(bs)]) \in Nat
        /\ bs[i].addr \in Nat /\ BlockEnd(bs[i]) \in Nat /\ bs[i].size \in Nat
        /\ Payload(bs[i]) = bs[i].addr + HDR /\ Payload(bs[i]) \in Nat
        /\ BlockEnd(bs[i]) = Payload(bs[i]) + bs[i].size
    BY <1>3, <2>1
  <2>4. bs[i].addr <= Payload(bs[i])
    BY <2>3, HeaderSize
  <2>5. Payload(bs[i]) + size <= BlockEnd(bs[i])
    BY <1>4, <2>3, SMTT(30)
  <2>6. bs[1].addr <= Payload(bs[i])
    BY <2>2, <2>3, <2>4
  <2>7. Payload(bs[i]) + size <= BlockEnd(bs[Len(bs)])
    BY <2>2, <2>3, <2>5
  <2> QED
    BY <2>6, <2>7
<1>6. ASSUME NEW s \in lv
      PROVE  /\ s.ptr # Payload(bs[i])
             /\ \/ s.ptr + s.size <= Payload(bs[i])
                \/ Payload(bs[i]) + size <= s.ptr
  <2>1. PICK k \in 1..Len(bs) : Payload(bs[k]) = s.ptr /\ ~bs[k].free /\ s.size <= bs[k].size
    BY DEF Backs
  <2>2. k # i
    BY <1>4, <2>1
  <2>3. s.ptr # Payload(bs[i])
    BY <2>1, <2>2, ChainBounds
  <2>4. BlockEnd(bs[k]) <= bs[i].addr \/ BlockEnd(bs[i]) <= bs[k].addr
    BY <1>1, <2>2 DEF Chain, Sorted
  <2>5. s.ptr \in Nat /\ s.size \in Nat
    BY DEF Ranges
  <2>6. /\ BlockEnd(bs[k]) = s.ptr + bs[k].size /\ bs[k].addr + HDR = s.ptr
        /\ bs[k].size \in Nat /\ bs[k].addr \in Nat
    BY <1>3, <2>1
  <2>7. /\ BlockEnd(bs[i]) = Payload(bs[i]) + bs[i].size /\ bs[i].addr + HDR = Payload(bs[i])
        /\ bs[i].size \in Nat /\ bs[i].addr \in Nat /\ Payload(bs[i]) \in Nat
    BY <1>3
  <2>8. CASE BlockEnd(bs[k]) <= bs[i].addr
    <3>1. s.ptr + s.size <= BlockEnd(bs[k])
      BY <2>1, <2>5, <2>6
    <3>2. bs[i].addr <= Payload(bs[i])
      BY <2>7, HeapAssumption
    <3>3. s.ptr + s.size \in Nat /\ BlockEnd(bs[k]) \in Nat
      BY <1>3, <2>5, NatFacts, Zenon
    <3>4. s.ptr + s.size <= Payload(bs[i])
      BY <2>7, <2>8, <3>1, <3>2, <3>3, NatFacts, Zenon
    <3> QED
      BY <2>3, <3>4
  <2>9. CASE BlockEnd(bs[i]) <= bs[k].addr
    <3>1. Payload(bs[i]) + size <= BlockEnd(bs[i])
      BY <1>4, <2>7
    <3>2. Payload(bs[i]) + size <= BlockEnd(bs[i]) /\ bs[k].addr <= s.ptr
      BY <3>1, <2>5, <2>6, HeaderSize
    <3>3. Payload(bs[i]) + size \in Nat /\ BlockEnd(bs[i]) \in Nat
      BY <1>3, <2>7, NatFacts, Zenon
    <3>4. Payload(bs[i]) + size <= s.ptr
      BY <2>5, <2>6, <2>9, <3>2, <3>3, NatFacts, Zenon
    <3> QED
      BY <2>3, <3>4
  <2> QED
    BY <2>4, <2>8, <2>9
<1> QED
  BY <1>3, <1>5, <1>6

LEMMA HandOutKeepsBacking ==
  ASSUME NEW bs, Chain(bs), NEW lv \in SUBSET Ranges, Backs(bs, lv), OneOwner(lv),
         NEW i \in 1..Len(bs), NEW size \in Nat, Fits(bs[i], size)
  PROVE  LET lv2 == lv \cup {[ptr |-> Payload(bs[i]), size |-> size]}
         IN  lv2 \in SUBSET Ranges /\ Backs(Carve(bs, i, size), lv2) /\ OneOwner(lv2)
<1> DEFINE r2  == [ptr |-> Payload(bs[i]), size |-> size]
           lv2 == lv \cup {r2}
           cs  == Carve(bs, i, size)
<1>1. /\ \E j \in 1..Len(cs) : cs[j].addr = bs[i].addr /\ ~cs[j].free /\ cs[j].size >= size
      /\ \A k \in 1..Len(bs) : k # i => \E j \in 1..Len(cs) : cs[j] = bs[k]
      /\ \A j \in 1..Len(cs) :
            \/ cs[j].free
            \/ cs[j].addr = bs[i].addr /\ cs[j].size >= size
            \/ \E k \in 1..Len(bs) : k # i /\ cs[j] = bs[k]
  <2>1. CarvedFrom(cs, bs, i, size)
    BY CarveKeepsChain
  <2> HIDE DEF cs
  <2> QED
    BY <2>1 DEF CarvedFrom
<1>2. bs[i].free
  BY DEF Fits
<1>3. r2 \in Ranges /\ r2.ptr = Payload(bs[i]) /\ r2.size = size
  BY HandOutIsApart DEF Ranges
<1>4. \A s \in lv : s.ptr # r2.ptr
  BY <1>3, HandOutIsApart
<1> HIDE DEF r2, cs
<1>5. lv2 \in SUBSET Ranges
  BY <1>3
<1>6. OneOwner(lv2)
  BY <1>4 DEF OneOwner
<1>7. ASSUME NEW r \in lv2
      PROVE  \E j \in 1..Len(cs) : Payload(cs[j]) = r.ptr /\ ~cs[j].free /\ r.size <= cs[j].size
  <2>1. CASE r = r2
    <3>1. PICK j \in 1..Len(cs) : cs[j].addr = bs[i].addr /\ ~cs[j].free /\ cs[j].size >= size
      BY <1>1
    <3> QED
      BY <2>1, <1>3, <3>1 DEF Payload
  <2>2. CASE r \in lv
    <3>1. PICK k \in 1..Len(bs) : Payload(bs[k]) = r.ptr /\ ~bs[k].free /\ r.size <= bs[k].size
      BY <2>2 DEF Backs
    <3>2. PICK j \in 1..Len(cs) : cs[j] = bs[k]
      BY <1>1, <1>2, <3>1
    <3> QED
      BY <3>1, <3>2
  <2> QED
    BY <2>1, <2>2
<1>8. ASSUME NEW j \in 1..Len(cs), ~cs[j].free
      PROVE  \E r \in lv2 : r.ptr = Payload(cs[j]) /\ r.size <= cs[j].size
  <2>1. CASE cs[j].addr = bs[i].addr /\ cs[j].size >= size
    BY <2>1, <1>3 DEF Payload
  <2>2. CASE \E k \in 1..Len(bs) : k # i /\ cs[j] = bs[k]
    BY <2>2, <1>8 DEF Backs
  <2> QED
    BY <1>1, <1>8, <2>1, <2>2
<1>9. Backs(cs, lv2)
  BY <1>7, <1>8 DEF Backs
<1> QED
  BY <1>5, <1>6, <1>9 DEF r2, cs

LEMMA ReleaseKeepsBacking ==
  ASSUME NEW bs, Chain(bs), NEW lv \in SUBSET Ranges, Backs(bs, lv), OneOwner(lv),
         NEW r \in lv, NEW i \in 1..Len(bs), Payload(bs[i]) = r.ptr
  PROVE  Backs(Release(bs, i), lv \ {r}) /\ OneOwner(lv \ {r})
<1> DEFINE cs == Release(bs, i)
<1>1. /\ \A k \in 1..Len(bs) : k # i /\ ~bs[k].free => \E j \in 1..Len(cs) : cs[j] = bs[k]
      /\ \A j \in 1..Len(cs) :
            cs[j].free \/ \E k \in 1..Len(bs) : k # i /\ cs[j] = bs[k]
  BY ReleaseKeepsChain
<1> HIDE DEF cs
<1>2. \A k \in 1..Len(bs) : k # i => Payload(bs[k]) # r.ptr
  BY ChainBounds
<1>3. ASSUME NEW s \in lv \ {r}
      PROVE  \E j \in 1..Len(cs) : Payload(cs[j]) = s.ptr /\ ~cs[j].free /\ s.size <= cs[j].size
  <2>1. PICK k \in 1..Len(bs) : Payload(bs[k]) = s.ptr /\ ~bs[k].free /\ s.size <= bs[k].size
    BY DEF Backs
  <2>2. k # i
    BY <2>1 DEF OneOwner
  <2> QED
    BY <1>1, <2>1, <2>2
<1>4. ASSUME NEW j \in 1..Len(cs), ~cs[j].free
      PROVE  \E s \in lv \ {r} : s.ptr = Payload(cs[j]) /\ s.size <= cs[j].size
  <2>1. PICK k \in 1..Len(bs) : k # i /\ cs[j] = bs[k]
    BY <1>1, <1>4
  <2>2. PICK s \in lv : s.ptr = Payload(bs[k]) /\ s.size <= bs[k].size
    BY <1>4, <2>1 DEF Backs
  <2> QED
    BY <1>2, <2>1, <2>2
<1>5. OneOwner(lv \ {r})
  BY DEF OneOwner
<1> QED
  BY <1>3, <1>4, <1>5 DEF Backs, cs

(* Appending a block that starts where the last one ends.                  *)
LEMMA AppendKeepsChain ==
  ASSUME NEW bs, Chain(bs), NEW b \in Block, b.addr = BlockEnd(bs[Len(bs)]), b.free,
         NEW lv, Backs(bs, lv)
  PROVE  /\ Chain(Append(bs, b))
         /\ Append(bs, b)[1] = bs[1]
         /\ Append(bs, b)[Len(Append(bs, b))] = b
         /\ Backs(Append(bs, b), lv)
<1> DEFINE cs == Append(bs, b)
<1>1. bs \in Seq(Block) /\ Len(bs) \in Nat /\ Len(bs) >= 1
  BY DEF Chain
<1>2. /\ cs \in Seq(Block) /\ Len(cs) = Len(bs) + 1 /\ cs # <<>>
      /\ \A k \in 1..Len(bs) : cs[k] = bs[k]
      /\ cs[Len(bs) + 1] = b
  BY <1>1, AppendProperties
<1> HIDE DEF cs
<1>3. Gapless(cs)
  BY <1>1, <1>2 DEF Chain, Gapless
<1>4. Sorted(cs)
  <2> SUFFICES ASSUME NEW k \in 1..Len(cs), NEW l \in 1..Len(cs), k < l
               PROVE  BlockEnd(cs[k]) <= cs[l].addr
    BY DEF Sorted
  <2>1. CASE l <= Len(bs)
    BY <1>1, <1>2, <2>1 DEF Chain, Sorted
  <2>2. CASE l = Len(bs) + 1
    <3>1. k \in 1..Len(bs) /\ cs[k] = bs[k] /\ cs[l] = b
      BY <1>1, <1>2, <2>2
    <3>2. BlockEnd(bs[k]) <= BlockEnd(bs[Len(bs)])
      BY <3>1, ChainBounds
    <3> QED
      BY <3>1, <3>2
  <2> QED
    BY <1>1, <1>2, <2>1, <2>2
<1>5. Backs(cs, lv)
  <2>1. ASSUME NEW r \in lv
        PROVE  \E j \in 1..Len(cs) : Payload(cs[j]) = r.ptr /\ ~cs[j].free /\ r.size <= cs[j].size
    <3>1. PICK k \in 1..Len(bs) : Payload(bs[k]) = r.ptr /\ ~bs[k].free /\ r.size <= bs[k].size
      BY DEF Backs
    <3>2. k \in 1..Len(cs) /\ cs[k] = bs[k]
      BY <1>1, <1>2
    <3> QED
      BY <3>1, <3>2
  <2>2. ASSUME NEW j \in 1..Len(cs), ~cs[j].free
        PROVE  \E r \in lv : r.ptr = Payload(cs[j]) /\ r.size <= cs[j].size
    <3>1. j \in 1..Len(bs) /\ cs[j] = bs[j]
      BY <1>1, <1>2, <2>2
    <3> QED
      BY <2>2, <3>1 DEF Backs
  <2> QED
    BY <2>1, <2>2 DEF Backs
<1>6. cs[1] = bs[1] /\ cs[Len(cs)] = b
  BY <1>1, <1>2
<1> QED
  BY <1>2, <1>3, <1>4, <1>5, <1>6 DEF Chain, cs

-----------------------------------------------------------------------------
(* The inductive invariant.  Tiled and LiveBacked alone are not inductive: *)
(* a merge keeps the list gapless only because blocks are in address order,*)
(* and taking one pointer out of live leaves its block unowned only        *)
(* because no two holders have the same pointer.                           *)
IInv ==
  /\ TypeOK
  /\ Chain(free_list)
  /\ CoversHeap
  /\ Backs(free_list, live)
  /\ OneOwner(live)

LEMMA InitIInv == Init => IInv
<1> SUFFICES ASSUME Init PROVE IInv
  OBVIOUS
<1> USE HeapAssumption DEF Init
<1> DEFINE b == [addr |-> HEAP_START, size |-> PAGE_SIZE - HDR, free |-> TRUE]
<1>1. /\ b \in Block /\ b.addr = HEAP_START /\ b.free /\ BlockEnd(b) = heap_end
      /\ heap_end \in Nat
  BY DEF Block, BlockEnd
<1>2. free_list = <<b>> /\ Len(free_list) = 1 /\ free_list[1] = b /\ free_list \in Seq(Block)
  BY <1>1
<1> HIDE DEF b
<1>3. TypeOK
  BY <1>1, <1>2 DEF TypeOK
<1>4. Chain(free_list)
  BY <1>2 DEF Chain, Gapless, Sorted
<1>5. CoversHeap
  <2>1. free_list[1].addr = HEAP_START /\ BlockEnd(free_list[Len(free_list)]) = heap_end
    BY <1>1, <1>2, Zenon
  <2> QED
    BY <1>1, <2>1, SMT DEF CoversHeap
<1>6. Backs(free_list, live)
  BY <1>1, <1>2 DEF Backs
<1>7. OneOwner(live)
  BY DEF OneOwner
<1> QED
  BY <1>3, <1>4, <1>5, <1>6, <1>7 DEF IInv

LEMMA IInvFacts ==
  ASSUME IInv
  PROVE  /\ Chain(free_list) /\ live \in SUBSET Ranges
         /\ Backs(free_list, live) /\ OneOwner(live)
         /\ heap_end \in Nat /\ frames \in Nat
         /\ free_list \in Seq(Block) /\ Len(free_list) \in Nat /\ Len(free_list) >= 1
         /\ free_list[Len(free_list)] \in Block
         /\ free_list[1].addr = HEAP_START
         /\ BlockEnd(free_list[Len(free_list)]) <= heap_end
         /\ BlockEnd(free_list[Len(free_list)]) \in Nat
         /\ frames > 0 => BlockEnd(free_list[Len(free_list)]) = heap_end
<1>1. free_list \in Seq(Block) /\ Len(free_list) \in Nat /\ Len(free_list) >= 1
  BY DEF IInv, Chain
<1>2. free_list[Len(free_list)] \in Block
  BY <1>1
<1> QED
  BY <1>1, <1>2, BlockArithmetic DEF IInv, TypeOK, CoversHeap, Ranges

(* What an extension of the heap appends.                                  *)
LEMMA GrowthFacts ==
  ASSUME IInv, frames > 0, NEW size \in Nat
  PROVE  LET grown == Append(free_list, FreshBlock(Pages(size)))
         IN  /\ Chain(grown)
             /\ grown[1].addr = HEAP_START
             /\ BlockEnd(grown[Len(grown)]) = heap_end + Pages(size) * PAGE_SIZE
             /\ heap_end + Pages(size) * PAGE_SIZE \in Nat
             /\ Backs(grown, live)
<1> DEFINE b == FreshBlock(Pages(size))
<1>1. /\ Pages(size) * PAGE_SIZE \in Nat /\ Pages(size) * PAGE_SIZE - HDR \in Nat
  BY PagesHold, Zenon
<1>2. heap_end \in Nat
  BY IInvFacts
<1>3. /\ b \in Block /\ b.addr = heap_end /\ b.free
      /\ BlockEnd(b) = heap_end + Pages(size) * PAGE_SIZE
  BY <1>1, <1>2, HeapAssumption DEF FreshBlock, Block, BlockEnd
<1>4. BlockEnd(free_list[Len(free_list)]) = heap_end /\ free_list[1].addr = HEAP_START
  BY IInvFacts
<1> HIDE DEF b
<1>5. /\ Chain(Append(free_list, b))
      /\ Append(free_list, b)[1] = free_list[1]
      /\ Append(free_list, b)[Len(Append(free_list, b))] = b
      /\ Backs(Append(free_list, b), live)
  BY <1>3, <1>4, IInvFacts, AppendKeepsChain
<1> QED
  BY <1>1, <1>2, <1>3, <1>4, <1>5 DEF b

LEMMA NextIInv == IInv /\ [Next]_vars => IInv'
<1> SUFFICES ASSUME IInv, [Next]_vars PROVE IInv'
  OBVIOUS
<1>1. /\ Chain(free_list) /\ live \in SUBSET Ranges
      /\ Backs(free_list, live) /\ OneOwner(live)
      /\ heap_end \in Nat /\ frames \in Nat
      /\ free_list[1].addr = HEAP_START
      /\ BlockEnd(free_list[Len(free_list)]) <= heap_end
      /\ BlockEnd(free_list[Len(free_list)]) \in Nat
      /\ frames > 0 => BlockEnd(free_list[Len(free_list)]) = heap_end
  BY IInvFacts
<1>2. ASSUME NEW size \in Sizes, KmallocFit(size) PROVE IInv'
  <2>1. size \in Nat
    BY HeapAssumption
  <2>2. PICK i \in 1..Len(free_list) :
          /\ IsFirstFit(free_list, i, size)
          /\ free_list' = Carve(free_list, i, size)
          /\ live' = live \cup {[ptr |-> Payload(free_list[i]), size |-> size]}
    BY <1>2 DEF KmallocFit, HandOut
  <2>3. Fits(free_list[i], size)
    BY <2>2 DEF IsFirstFit
  <2>4. UNCHANGED <<heap_end, frames>>
    BY <1>2 DEF KmallocFit
  <2>5. /\ Chain(free_list') /\ free_list'[1].addr = HEAP_START
        /\ BlockEnd(free_list'[Len(free_list')]) = BlockEnd(free_list[Len(free_list)])
    BY <1>1, <2>1, <2>2, <2>3, CarveKeepsChain
  <2>6. live' \in SUBSET Ranges /\ Backs(free_list', live') /\ OneOwner(live')
    BY <1>1, <2>1, <2>2, <2>3, HandOutKeepsBacking
  <2>7. CoversHeap'
    BY <1>1, <2>4, <2>5 DEF CoversHeap, BlockEnd
  <2>8. TypeOK'
    BY <1>1, <2>4, <2>5, <2>6 DEF TypeOK, Chain, Ranges
  <2> QED
    BY <2>5, <2>6, <2>7, <2>8 DEF IInv, Chain, Gapless, Sorted, Backs, OneOwner, BlockEnd, Payload
<1>3. ASSUME NEW size \in Sizes, KmallocGrow(size) PROVE IInv'
  <2>1. size \in Nat
    BY HeapAssumption
  <2> DEFINE grown == Append(free_list, FreshBlock(Pages(size)))
  <2>2. PICK i \in 1..Len(grown) :
          /\ IsFirstFit(grown, i, size)
          /\ free_list' = Carve(grown, i, size)
          /\ live' = live \cup {[ptr |-> Payload(grown[i]), size |-> size]}
    BY <1>3 DEF KmallocGrow, HandOut
  <2>3. PICK tables \in 0..1 : frames >= Pages(size) + tables /\ frames' = frames - Pages(size) - tables
    BY <1>3 DEF KmallocGrow
  <2>4. heap_end' = heap_end + Pages(size) * PAGE_SIZE
    BY <1>3 DEF KmallocGrow
  <2>5. frames > 0 /\ frames' \in Nat
    <3>1. Pages(size) \in Nat \ {0}
      BY <2>1, PagesHold
    <3> HIDE DEF grown
    <3>2. frames \in Nat
      BY <1>1
    <3> DEFINE n == Pages(size)
    <3>3. n \in Nat \ {0} /\ frames >= n + tables /\ frames' = frames - n - tables
      BY <2>3, <3>1
    <3> HIDE DEF n
    <3> QED
      BY <3>2, <3>3
  <2>6. /\ Chain(grown) /\ grown[1].addr = HEAP_START
        /\ BlockEnd(grown[Len(grown)]) = heap_end' /\ heap_end' \in Nat
        /\ Backs(grown, live)
    BY <2>1, <2>4, <2>5, GrowthFacts
  <2>7. Fits(grown[i], size)
    BY <2>2 DEF IsFirstFit
  <2> HIDE DEF grown
  <2>8. /\ Chain(free_list') /\ free_list'[1].addr = HEAP_START
        /\ BlockEnd(free_list'[Len(free_list')]) = heap_end'
    BY <2>1, <2>2, <2>6, <2>7, CarveKeepsChain
  <2>9. live' \in SUBSET Ranges /\ Backs(free_list', live') /\ OneOwner(live')
    BY <1>1, <2>1, <2>2, <2>6, <2>7, HandOutKeepsBacking
  <2>10. CoversHeap'
    BY <2>6, <2>8 DEF CoversHeap, BlockEnd
  <2>11. TypeOK'
    BY <2>5, <2>6, <2>8, <2>9 DEF TypeOK, Chain, Ranges
  <2> QED
    BY <2>8, <2>9, <2>10, <2>11 DEF IInv, Chain, Gapless, Sorted, Backs, OneOwner, BlockEnd, Payload
<1>4. ASSUME NEW size \in Sizes, KmallocExhausted(size) PROVE IInv'
  <2>1. size \in Nat
    BY HeapAssumption
  <2>2. PICK k \in 0..(Pages(size) - 1) : heap_end' = heap_end + k * PAGE_SIZE
    BY <1>4 DEF KmallocExhausted
  <2>3. frames' = 0 /\ UNCHANGED <<free_list, live>>
    BY <1>4 DEF KmallocExhausted
  <2>4. heap_end' \in Nat /\ heap_end' >= heap_end
    <3>1. k * PAGE_SIZE \in Nat
      BY <2>1, <2>2, PagesHold
    <3> DEFINE more == k * PAGE_SIZE
    <3>2. heap_end' = heap_end + more /\ more \in Nat
      BY <2>2, <3>1
    <3> HIDE DEF more
    <3> QED
      BY <1>1, <3>2
  <2>5. TypeOK' /\ CoversHeap'
    BY <1>1, <2>3, <2>4 DEF IInv, TypeOK, CoversHeap, BlockEnd
  <2> QED
    BY <2>3, <2>5 DEF IInv, Chain, Gapless, Sorted, Backs, OneOwner, BlockEnd, Payload
<1>5. ASSUME NEW r \in live, Kfree(r) PROVE IInv'
  <2>1. PICK i \in 1..Len(free_list) :
          Payload(free_list[i]) = r.ptr /\ free_list' = Release(free_list, i)
    BY <1>5 DEF Kfree
  <2>2. live' = live \ {r} /\ UNCHANGED <<heap_end, frames>>
    BY <1>5 DEF Kfree
  <2>3. /\ Chain(free_list') /\ free_list'[1].addr = HEAP_START
        /\ BlockEnd(free_list'[Len(free_list')]) = BlockEnd(free_list[Len(free_list)])
    BY <1>1, <2>1, ReleaseKeepsChain
  <2>4. Backs(free_list', live') /\ OneOwner(live')
    BY <1>1, <2>1, <2>2, ReleaseKeepsBacking
  <2>5. CoversHeap'
    BY <1>1, <2>2, <2>3 DEF CoversHeap, BlockEnd
  <2>6. TypeOK'
    BY <1>1, <2>2, <2>3 DEF TypeOK, Chain, Ranges
  <2> QED
    BY <2>3, <2>4, <2>5, <2>6 DEF IInv, Chain, Gapless, Sorted, Backs, OneOwner, BlockEnd, Payload
<1>6. CASE UNCHANGED vars
  BY <1>6 DEF vars, IInv, TypeOK, CoversHeap, Chain, Gapless, Sorted, Backs, OneOwner, BlockEnd, Payload
<1> QED
  BY <1>2, <1>3, <1>4, <1>5, <1>6 DEF Next

LEMMA SpecIInv == Spec => []IInv
  BY InitIInv, NextIInv, PTL DEF Spec

(* kmalloc and kfree never bring a variable out of its type: in particular *)
(* no block size computed by a subtraction is negative.                    *)
THEOREM HeapTypeCorrect == Spec => []TypeOK
<1>1. IInv => TypeOK
  BY DEF IInv
<1> QED
  BY <1>1, SpecIInv, PTL

(* Neighbours on the list are neighbours in memory, after any sequence of  *)
(* kmalloc and kfree.                                                      *)
THEOREM HeapIsTiled == Spec => []Tiled
<1>1. IInv => Tiled
  BY DEF IInv, Chain, Gapless, Tiled
<1> QED
  BY <1>1, SpecIInv, PTL

(* The list reaches from heap_start to heap_end, failed extensions apart.  *)
THEOREM HeapIsCovered == Spec => []CoversHeap
<1>1. IInv => CoversHeap
  BY DEF IInv
<1> QED
  BY <1>1, SpecIInv, PTL

(* What kmalloc handed out stays on the list, in use and as large as asked *)
(* for, until kfree; and nothing else is marked in use.                    *)
THEOREM HeapBacksTheLive == Spec => []LiveBacked
<1>1. IInv => LiveBacked
  BY DEF IInv, Backs, LiveBacked, Owned
<1> QED
  BY <1>1, SpecIInv, PTL

(* The search that follows an extension of the heap succeeds.              *)
THEOREM HeapExtensionSuffices == Spec => []ExtensionSuffices
<1>1. ASSUME NEW size \in Sizes PROVE Fits(FreshBlock(Pages(size)), size)
  <2>1. size \in Nat
    BY HeapAssumption
  <2> QED
    BY <2>1, PagesHold, HeapAssumption DEF Fits, FreshBlock
<1>2. ExtensionSuffices
  BY <1>1 DEF ExtensionSuffices
<1> QED
  BY <1>2, PTL

-----------------------------------------------------------------------------
(* heap_end passes heap_max by less than the last request, in pages.       *)
LEMMA StepHeapBounded == IInv /\ HeapBounded /\ [Next]_vars => HeapBounded'
<1> SUFFICES ASSUME IInv, HeapBounded, [Next]_vars PROVE HeapBounded'
  OBVIOUS
<1>1. heap_end \in Nat
  BY IInvFacts
<1>2. ASSUME NEW size \in Sizes, KmallocGrow(size) PROVE HeapBounded'
  <2>1. heap_end < HEAP_MAX /\ heap_end' = heap_end + Pages(size) * PAGE_SIZE
    BY <1>2 DEF KmallocGrow, CanGrow
  <2>2. size \in Nat /\ Pages(size) * PAGE_SIZE \in Nat
    BY HeapAssumption, PagesHold
  <2>3. heap_end' < HEAP_MAX + Pages(size) * PAGE_SIZE
    BY <1>1, <2>1, <2>2, HeapAssumption
  <2> QED
    BY <2>3 DEF HeapBounded, Pages
<1>3. ASSUME NEW size \in Sizes, KmallocExhausted(size) PROVE HeapBounded'
  <2>1. PICK k \in 0..(Pages(size) - 1) : heap_end' = heap_end + k * PAGE_SIZE
    BY <1>3 DEF KmallocExhausted
  <2>2. heap_end < HEAP_MAX
    BY <1>3 DEF KmallocExhausted, CanGrow
  <2>3. /\ size \in Nat /\ Pages(size) * PAGE_SIZE \in Nat
        /\ k * PAGE_SIZE \in Nat /\ k * PAGE_SIZE <= Pages(size) * PAGE_SIZE
    BY HeapAssumption, PagesHold
  <2>4. heap_end' < HEAP_MAX + Pages(size) * PAGE_SIZE
    BY <1>1, <2>1, <2>2, <2>3, HeapAssumption
  <2> QED
    BY <2>4 DEF HeapBounded, Pages
<1>4. ASSUME UNCHANGED heap_end PROVE HeapBounded'
  BY <1>4 DEF HeapBounded, Pages
<1> QED
  BY <1>2, <1>3, <1>4 DEF Next, vars, KmallocFit, Kfree

(* heap_max is a limit up to one request, for every request size.          *)
THEOREM HeapStaysBounded == Sizes # {} /\ Spec => []HeapBounded
<1> SUFFICES ASSUME Sizes # {} PROVE Spec => []HeapBounded
  OBVIOUS
<1>1. ASSUME Init PROVE HeapBounded
  <2>1. PICK size \in Sizes : TRUE
    OBVIOUS
  <2>2. size \in Nat /\ Pages(size) \in Nat \ {0} /\ Pages(size) * PAGE_SIZE \in Nat
    BY HeapAssumption, PagesHold
  <2>3. Pages(size) * PAGE_SIZE >= PAGE_SIZE
    BY <2>2, HeapAssumption, Z3
  <2> QED
    BY <1>1, <2>2, <2>3, HeapAssumption DEF Init, HeapBounded
<1> QED
  BY <1>1, SpecIInv, StepHeapBounded, PTL DEF Spec

-----------------------------------------------------------------------------
(* Every step of the block list is a step of the abstract allocator.       *)
LEMMA HandOutIsAlloc ==
  ASSUME NEW bs, Chain(bs), live \in SUBSET Ranges, Backs(bs, live),
         NEW i \in 1..Len(bs), NEW size \in Nat, Fits(bs[i], size),
         HEAP_START <= bs[1].addr, bs[1].addr \in Nat,
         BlockEnd(bs[Len(bs)]) <= heap_end', BlockEnd(bs[Len(bs)]) \in Nat,
         heap_end \in Nat, heap_end' \in Nat, heap_end' >= heap_end,
         live' = live \cup {[ptr |-> Payload(bs[i]), size |-> size]}
  PROVE  Abstract!Alloc
<1> DEFINE r == [ptr |-> Payload(bs[i]), size |-> size]
<1>1. /\ Payload(bs[i]) \in Nat
      /\ bs[1].addr <= Payload(bs[i])
      /\ Payload(bs[i]) + size <= BlockEnd(bs[Len(bs)])
      /\ \A s \in live : /\ s.ptr # Payload(bs[i])
                         /\ \/ s.ptr + s.size <= Payload(bs[i])
                            \/ Payload(bs[i]) + size <= s.ptr
  BY HandOutIsApart
<1>2. r.ptr = Payload(bs[i]) /\ r.size = size
  OBVIOUS
<1>3. live' = live \cup {r}
  OBVIOUS
<1> HIDE DEF r
<1>4. r \notin live
  BY <1>1, <1>2
<1>5. r.size >= 0 /\ HEAP_START <= r.ptr /\ r.ptr + r.size <= heap_end'
  BY <1>1, <1>2, HeapAssumption
<1>6. ASSUME NEW s \in live PROVE s.ptr # r.ptr /\ ~Abstract!Overlap(r, s)
  <2>1. s.ptr \in Nat /\ s.size \in Nat
    BY DEF Ranges
  <2>2. s.ptr # r.ptr /\ (s.ptr + s.size <= r.ptr \/ r.ptr + r.size <= s.ptr)
    BY <1>1, <1>2
  <2>3. r.ptr \in Nat /\ r.size \in Nat
    BY <1>1, <1>2
  <2>4. r.ptr + r.size \in Nat /\ s.ptr + s.size \in Nat
    BY <2>1, <2>3, NatFacts, Zenon
  <2> QED
    BY <2>1, <2>2, <2>3, <2>4, NatFacts, Zenon DEF Abstract!Overlap
<1> QED
  BY <1>3, <1>4, <1>5, <1>6 DEF Abstract!Alloc

LEMMA StepImplements == IInv /\ [Next]_vars => [Abstract!Next]_(Abstract!absVars)
<1> SUFFICES ASSUME IInv, [Next]_vars PROVE Abstract!Next \/ UNCHANGED <<live, heap_end>>
  BY DEF Abstract!absVars
<1>1. /\ Chain(free_list) /\ live \in SUBSET Ranges
      /\ Backs(free_list, live) /\ heap_end \in Nat
      /\ free_list[1].addr = HEAP_START
      /\ BlockEnd(free_list[Len(free_list)]) <= heap_end
      /\ BlockEnd(free_list[Len(free_list)]) \in Nat
  BY IInvFacts
<1>2. ASSUME NEW size \in Sizes, KmallocFit(size) PROVE Abstract!Alloc
  <2>1. PICK i \in 1..Len(free_list) :
          /\ IsFirstFit(free_list, i, size)
          /\ live' = live \cup {[ptr |-> Payload(free_list[i]), size |-> size]}
    BY <1>2 DEF KmallocFit, HandOut
  <2>2. size \in Nat /\ heap_end' = heap_end /\ Fits(free_list[i], size)
    BY <1>2, <2>1, HeapAssumption DEF KmallocFit, IsFirstFit
  <2> QED
    BY <1>1, <2>1, <2>2, HeapAssumption, HandOutIsAlloc
<1>3. ASSUME NEW size \in Sizes, KmallocGrow(size) PROVE Abstract!Alloc
  <2> DEFINE grown == Append(free_list, FreshBlock(Pages(size)))
  <2>1. PICK i \in 1..Len(grown) :
          /\ IsFirstFit(grown, i, size)
          /\ live' = live \cup {[ptr |-> Payload(grown[i]), size |-> size]}
    BY <1>3 DEF KmallocGrow, HandOut
  <2>2. size \in Nat /\ heap_end' = heap_end + Pages(size) * PAGE_SIZE /\ Fits(grown[i], size)
    BY <1>3, <2>1, HeapAssumption DEF KmallocGrow, IsFirstFit
  <2>3. PICK tables \in 0..1 : frames >= Pages(size) + tables
    BY <1>3 DEF KmallocGrow
  <2>4. frames > 0 /\ Pages(size) * PAGE_SIZE \in Nat
    <3>1. Pages(size) \in Nat \ {0} /\ Pages(size) * PAGE_SIZE \in Nat
      BY <2>2, PagesHold
    <3>2. frames \in Nat
      BY IInvFacts
    <3> HIDE DEF grown
    <3> QED
      BY <2>3, <3>1, <3>2
  <2>5. /\ Chain(grown) /\ grown[1].addr = HEAP_START
        /\ BlockEnd(grown[Len(grown)]) = heap_end' /\ heap_end' \in Nat
        /\ Backs(grown, live)
    BY <2>2, <2>4, GrowthFacts
  <2> HIDE DEF grown
  <2>6. heap_end' >= heap_end
    BY <1>1, <2>2, <2>4
  <2>7. live \in SUBSET Ranges /\ HEAP_START \in Nat
    BY <1>1, HeapAssumption
  <2>8. /\ HEAP_START <= grown[1].addr /\ grown[1].addr \in Nat
        /\ BlockEnd(grown[Len(grown)]) <= heap_end' /\ BlockEnd(grown[Len(grown)]) \in Nat
        /\ heap_end \in Nat
    BY <1>1, <2>5, <2>7
  <2> QED
    BY <2>1, <2>2, <2>5, <2>6, <2>7, <2>8, HandOutIsAlloc, Zenon
<1>4. ASSUME NEW size \in Sizes, KmallocExhausted(size) PROVE Abstract!Fail
  <2>1. PICK k \in 0..(Pages(size) - 1) : heap_end' = heap_end + k * PAGE_SIZE
    BY <1>4 DEF KmallocExhausted
  <2>2. size \in Nat /\ k * PAGE_SIZE \in Nat
    BY <2>1, HeapAssumption, PagesHold
  <2>3. live' = live
    BY <1>4 DEF KmallocExhausted
  <2> QED
    BY <1>1, <2>1, <2>2, <2>3 DEF Abstract!Fail
<1>5. ASSUME NEW r \in live, Kfree(r) PROVE Abstract!Free
  BY <1>5 DEF Kfree, Abstract!Free
<1>6. CASE UNCHANGED vars
  BY <1>6 DEF vars
<1> QED
  BY <1>2, <1>3, <1>4, <1>5, <1>6 DEF Next, Abstract!Next

(* What kmalloc and kfree rely on when they trust the list: it is the      *)
(* memory, cut into blocks, and each in use has its owner.                 *)
THEOREM HeapIsSound == Spec => []BlocksAreSound
BY HeapTypeCorrect, HeapIsTiled, HeapIsCovered, HeapBacksTheLive, PTL DEF BlocksAreSound

(* Growth ends: near heap_max, and after one extension for each request.   *)
THEOREM HeapGrowthIsBounded == Sizes # {} /\ Spec => []GrowthIsBounded
BY HeapStaysBounded, HeapExtensionSuffices, PTL DEF GrowthIsBounded

(* The block list implements the abstract allocator: whatever the sequence *)
(* of kmalloc and kfree, no two ranges handed out overlap.                 *)
THEOREM HeapImplementsAbsHeap == Spec => AbstractSpec
<1>1. Init => Abstract!Init
  BY HeapAssumption DEF Init, Abstract!Init
<1> QED
  BY <1>1, SpecIInv, StepImplements, PTL DEF Spec, AbstractSpec, Abstract!Spec
=============================================================================
