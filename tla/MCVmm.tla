-------------------------------- MODULE MCVmm --------------------------------
(***************************************************************************)
(* Small machines for Vmm: tables of 8 entries.                            *)
(***************************************************************************)
EXTENDS Vmm

(* Memory of which nothing is left when the heap needs its second table,   *)
(* memory that ends where memory mapped to itself ends, and memory beyond, *)
(* so that a table may come to lie there, or at one of the addresses that  *)
(* memtest and the program take.                                           *)
Machines == {25, 32, 44}

CachedPages == {MEMTEST, USER_STACK}
=============================================================================
