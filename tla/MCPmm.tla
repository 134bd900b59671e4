------------------------------- MODULE MCPmm --------------------------------
(***************************************************************************)
(* Memory maps for Pmm with pages of 4 bytes.  The system occupies the     *)
(* pages 0 to 3.                                                           *)
(***************************************************************************)
EXTENDS Pmm

Ram(from, to)  == [addr |-> from, len |-> to - from, type |-> 1]
Hole(from, to) == [addr |-> from, len |-> to - from, type |-> 2]

(* A PC: low memory that ends inside a page, a hole, and memory above it   *)
(* whose last bytes make neither a whole page nor, with it, a whole byte   *)
(* of bits.                                                                *)
PC == {Ram(0, 6), Hole(6, 8), Ram(8, 70)}

(* The same with a second hole in high memory.                             *)
TwoHoles == {Ram(0, 6), Hole(6, 8), Ram(8, 42), Hole(42, 48), Ram(48, 64)}

(* So little memory that no byte of the bitmap is ever looked at.          *)
Tiny == {Ram(0, 12)}

(* An available region that starts inside a page, and pays for it with its *)
(* last page; one that starts inside a page and ends inside one.           *)
Unaligned == {Ram(0, 26), Hole(26, 30), Ram(30, 64)}
Ragged    == {Ram(0, 25), Hole(25, 31), Ram(31, 50), Hole(50, 53), Ram(53, 69)}

MCMaps == {PC, TwoHoles, Tiny, Unaligned, Ragged}

UnalignedMaps == {Unaligned}
=============================================================================
