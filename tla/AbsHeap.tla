------------------------------ MODULE AbsHeap ------------------------------
(***************************************************************************)
(* What kmalloc and kfree promise to the rest of the kernel, without the   *)
(* block list: a set of owned ranges, none of which overlaps another, all  *)
(* of them between LO and the current top of the heap, which only grows.   *)
(***************************************************************************)
EXTENDS Integers

CONSTANT LO             \* lowest address of the heap

VARIABLES owned,        \* the ranges [ptr, size] handed out and not yet freed
          top           \* first address above the heap

absVars == <<owned, top>>

Overlap(r, s) == /\ r.ptr < s.ptr + s.size
                 /\ s.ptr < r.ptr + r.size

Init == owned = {} /\ top >= LO

(* A new range lies inside the heap, overlaps no owned one, and has a      *)
(* pointer no owner holds (two empty ranges are still told apart by it).   *)
Alloc ==
  \E r \in owned' \ owned :
     /\ owned' = owned \cup {r}
     /\ r.size >= 0
     /\ LO <= r.ptr /\ r.ptr + r.size <= top'
     /\ \A s \in owned : s.ptr # r.ptr /\ ~Overlap(r, s)
     /\ top' >= top

Free == /\ \E r \in owned : owned' = owned \ {r}
        /\ top' = top

(* An allocation that fails may still have moved the top of the heap.      *)
Fail == owned' = owned /\ top' >= top

Next == Alloc \/ Free \/ Fail

Spec == Init /\ [][Next]_absVars
=============================================================================
