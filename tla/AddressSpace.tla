---------------------------- MODULE AddressSpace ----------------------------
(***************************************************************************)
(* What the callers of the virtual memory mapper rely on, without tables:  *)
(* an address space that changes at the pages they ask for and nowhere     *)
(* else, with memory of their own behind every page they get.              *)
(***************************************************************************)
EXTENDS Integers

CONSTANTS Pages,        \* the pages of the address space
          Identity,     \* those that boot maps to themselves
          HEAP_START,   \* the first page of the heap
          MEMTEST,      \* the page that memtest borrows
          UserPages     \* the pages of the program in ring 3

VARIABLE space          \* what the processor finds at each page

None == [frame |-> -2, user |-> FALSE]

Init == space = [p \in Pages |-> IF p \in Identity THEN [frame |-> p, user |-> FALSE] ELSE None]

(* What a step does is said of the space before it, s, the space after it, *)
(* t, and the pages C that differ.                                         *)

(* Frames that serve a page at another address than their own.             *)
Serving(s) == {s[p].frame : p \in {q \in Pages : s[q] # None /\ s[q].frame # q}}

(* Memory that nobody had, a frame of its own for every page of C.         *)
GetMemory(s, t, C, user) ==
  /\ \A p \in C : t[p] # None /\ t[p].user = user
  /\ {t[p].frame : p \in {q \in C : t[q].frame # q}} \cap Serving(s) = {}
  /\ \A p, q \in C : p # q => t[p].frame # t[q].frame

(* The heap grows at its end.                                              *)
GrowHeap(s, t, C) ==
  /\ \A p \in C : /\ p >= HEAP_START /\ s[p] = None
                  /\ \A q \in HEAP_START..p : t[q] # None
  /\ GetMemory(s, t, C, FALSE)

(* A page of the program gets memory, or other memory.                     *)
GivePage(s, t, C) ==
  /\ \E p \in UserPages : C = {p}
  /\ GetMemory(s, t, C, TRUE)

Borrow(s, t, C) == C = {MEMTEST} /\ GetMemory(s, t, C, FALSE)

Return(t, C) == C = {MEMTEST} /\ t[MEMTEST] = None

Step(s, t, C) ==
  /\ C # {}
  /\ GrowHeap(s, t, C) \/ GivePage(s, t, C) \/ Borrow(s, t, C) \/ Return(t, C)

(* Bound variables, so that TLC computes each of the three once.           *)
Next ==
  \E s \in {space}, t \in {space'} :
    \E C \in {{p \in Pages : t[p] # s[p]}} : Step(s, t, C)

Spec == Init /\ [][Next]_space
=============================================================================
