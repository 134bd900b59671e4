-------------------------------- MODULE Heap --------------------------------
(***************************************************************************)
(* The kernel heap of src/impl/x86_64/kmemory.c.                           *)
(*                                                                         *)
(* free_list is a singly linked list of block headers, in use or free,     *)
(* each followed by its payload.  It is modelled as the sequence of        *)
(* records [addr, size, free] met when walking the next pointers.  Every   *)
(* operation runs with interrupts disabled once the shell is up, so one    *)
(* call is one step.  live is what callers hold: a record [ptr, size] for  *)
(* each pointer returned by kmalloc and not yet given to kfree.            *)
(***************************************************************************)
EXTENDS Integers, Sequences, SequencesExt

CONSTANTS HDR,          \* sizeof(struct Block): 24
          SLACK,        \* smallest remainder worth splitting off: 16
          PAGE_SIZE,    \* 4096
          HEAP_START,   \* heap_start: 0x1000000
          HEAP_MAX,     \* heap_max: 0x10000000
          Sizes,        \* the request sizes that callers use
          FRAMES        \* bound: physical pages left after heap_init

ASSUME HeapAssumption ==
  /\ HDR \in Nat \ {0} /\ SLACK \in Nat
  /\ PAGE_SIZE \in Nat /\ PAGE_SIZE > HDR
  /\ HEAP_START \in Nat /\ HEAP_MAX \in Nat /\ HEAP_START < HEAP_MAX
  /\ Sizes \subseteq Nat
  /\ FRAMES \in Nat

VARIABLES free_list, heap_end, frames, live

vars == <<free_list, heap_end, frames, live>>

Block == [addr : Nat, size : Nat, free : BOOLEAN]

BlockEnd(b) == b.addr + HDR + b.size
Payload(b)  == b.addr + HDR

-----------------------------------------------------------------------------
(* heap_init: one page, one free block that fills it.                      *)
Init ==
  /\ free_list = <<[addr |-> HEAP_START, size |-> PAGE_SIZE - HDR, free |-> TRUE]>>
  /\ heap_end = HEAP_START + PAGE_SIZE
  /\ frames \in 0..FRAMES
  /\ live = {}

(* Faulty variants end in a word that says what is wrong with them; no    *)
(* specification uses one, mutation of the definition below it does.      *)
FitsInUse(b, size) == b.size >= size
Fits(b, size) == b.free /\ b.size >= size

(* The block the first-fit loop of kmalloc stops at.                       *)
IsFirstFit(bs, i, size) ==
  /\ i \in 1..Len(bs)
  /\ Fits(bs[i], size)
  /\ \A j \in 1..(i - 1) : ~Fits(bs[j], size)

NoFit(bs, size) == \A i \in 1..Len(bs) : ~Fits(bs[i], size)

(* The header written behind the first size bytes of a block that is split.*)
Remainder(b, size) ==
  [addr |-> b.addr + HDR + size, size |-> b.size - size - HDR, free |-> TRUE]

Splits(b, size) == b.size > size + HDR + SLACK

(* The list after block i has been taken for a request of size bytes.      *)
Carve(bs, i, size) ==
  IF Splits(bs[i], size)
  THEN InsertAt([bs EXCEPT ![i] = [@ EXCEPT !.size = size, !.free = FALSE]],
                i + 1, Remainder(bs[i], size))
  ELSE [bs EXCEPT ![i] = [@ EXCEPT !.free = FALSE]]

HandOut(b, size) == live' = live \cup {[ptr |-> Payload(b), size |-> size]}

(* kmalloc, when some block on the list is large enough.                   *)
KmallocFit(size) ==
  /\ \E i \in 1..Len(free_list) :
        /\ IsFirstFit(free_list, i, size)
        /\ free_list' = Carve(free_list, i, size)
        /\ HandOut(free_list[i], size)
  /\ UNCHANGED <<heap_end, frames>>

PagesRoundedDown(size) == (size + HDR) \div PAGE_SIZE
Pages(size) == (size + HDR + PAGE_SIZE - 1) \div PAGE_SIZE

(* The block that covers n fresh pages mapped at the top of the heap.      *)
FreshBlock(n) == [addr |-> heap_end, size |-> n * PAGE_SIZE - HDR, free |-> TRUE]

CanGrow == heap_end < HEAP_MAX

(* kmalloc, when the heap is extended by Pages(size) pages and the search  *)
(* is repeated on the longer list.  A request under 2 MiB makes vmm_map    *)
(* take at most one page more, for a page table.                           *)
KmallocGrow(size) ==
  /\ NoFit(free_list, size)
  /\ CanGrow
  /\ \E tables \in 0..1 :
        /\ frames >= Pages(size) + tables
        /\ frames' = frames - Pages(size) - tables
  /\ heap_end' = heap_end + Pages(size) * PAGE_SIZE
  /\ LET grown == Append(free_list, FreshBlock(Pages(size)))
     IN \E i \in 1..Len(grown) :
           /\ IsFirstFit(grown, i, size)
           /\ free_list' = Carve(grown, i, size)
           /\ HandOut(grown[i], size)

(* kmalloc, when pmm_alloc runs dry after k pages: it returns NULL, and    *)
(* the k pages stay mapped below heap_end without a block of their own.    *)
KmallocExhausted(size) ==
  /\ NoFit(free_list, size)
  /\ CanGrow
  /\ \E k \in 0..(Pages(size) - 1), tables \in 0..1 :
        /\ frames = k + tables
        /\ heap_end' = heap_end + k * PAGE_SIZE
  /\ frames' = 0
  /\ UNCHANGED <<free_list, live>>

(* kfree looks at the following block only, and merges it when it is free. *)
MergesNextInUse(bs, i) == i < Len(bs)
MergesNext(bs, i) == i < Len(bs) /\ bs[i + 1].free

Merged(b, next) == [b EXCEPT !.size = @ + HDR + next.size, !.free = TRUE]

Release(bs, i) ==
  IF MergesNext(bs, i)
  THEN RemoveAt([bs EXCEPT ![i] = Merged(@, bs[i + 1])], i + 1)
  ELSE [bs EXCEPT ![i] = [@ EXCEPT !.free = TRUE]]

(* kfree(ptr): the header sits just below the payload.                     *)
Kfree(r) ==
  /\ \E i \in 1..Len(free_list) :
        /\ Payload(free_list[i]) = r.ptr
        /\ free_list' = Release(free_list, i)
  /\ live' = live \ {r}
  /\ UNCHANGED <<heap_end, frames>>

Next ==
  \/ \E size \in Sizes :
        KmallocFit(size) \/ KmallocGrow(size) \/ KmallocExhausted(size)
  \/ \E r \in live : Kfree(r)

Spec == Init /\ [][Next]_vars

-----------------------------------------------------------------------------
(* The types of the variables; sizes are never negative, although the code *)
(* subtracts header sizes from unsigned ones.                              *)
TypeOK ==
  /\ free_list \in Seq(Block)
  /\ free_list # <<>>
  /\ heap_end \in Nat
  /\ frames \in Nat
  /\ live \subseteq [ptr : Nat, size : Nat]

(* Neighbours on the list are neighbours in memory: the header of the next *)
(* block starts where this payload ends.  kfree's merge adds up sizes on   *)
(* the strength of it and never looks at an address.                       *)
Tiled ==
  \A i \in 1..(Len(free_list) - 1) :
     free_list[i + 1].addr = BlockEnd(free_list[i])

(* The list covers the heap from heap_start up to heap_end, except for     *)
(* pages a failed extension left behind, after which no page is available  *)
(* to extend it again.                                                     *)
CoversHeap ==
  /\ free_list[1].addr = HEAP_START
  /\ BlockEnd(free_list[Len(free_list)]) <= heap_end
  /\ frames > 0 => BlockEnd(free_list[Len(free_list)]) = heap_end

(* Every pointer a caller holds still has its header on the list, in use,  *)
(* with at least the bytes asked for; and no block is in use without an    *)
(* owner, so that the allocator loses nothing by itself.                   *)
Owned(b) == \E r \in live : r.ptr = Payload(b) /\ r.size <= b.size

LiveBacked ==
  /\ \A r \in live : \E i \in 1..Len(free_list) :
        /\ Payload(free_list[i]) = r.ptr
        /\ ~free_list[i].free
        /\ r.size <= free_list[i].size
  /\ \A i \in 1..Len(free_list) : ~free_list[i].free => Owned(free_list[i])

(* No size is ever negative, and the list, the memory and the callers      *)
(* agree: what kfree's blind merge, the search of kmalloc and the growth at*)
(* the end of the list rely on.                                            *)
BlocksAreSound == TypeOK /\ Tiled /\ CoversHeap /\ LiveBacked

(* heap_max is tested before an extension, not after it: the heap passes   *)
(* the limit by less than one request rounded up to pages.                 *)
HeapBounded ==
  \/ heap_end < HEAP_MAX
  \/ \E size \in Sizes : heap_end < HEAP_MAX + Pages(size) * PAGE_SIZE

(* The recursive call at the end of kmalloc ends after one extension: the  *)
(* block it appends is large enough for the request that caused it.        *)
ExtensionSuffices ==
  \A size \in Sizes : Fits(FreshBlock(Pages(size)), size)

(* However long the program runs, growth ends: within one request of       *)
(* heap_max, and after one extension for each request.                     *)
GrowthIsBounded == HeapBounded /\ ExtensionSuffices

Abstract == INSTANCE AbsHeap WITH LO <- HEAP_START, owned <- live, top <- heap_end

(* kmalloc and kfree keep the promise of AbsHeap: no two owned ranges      *)
(* overlap, all lie inside the heap, and nothing but kfree ends one.       *)
AbstractSpec == Abstract!Spec
=============================================================================
