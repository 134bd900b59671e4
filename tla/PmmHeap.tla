------------------------------ MODULE PmmHeap -------------------------------
(***************************************************************************)
(* The page allocator together with the first page of the heap.  The byte  *)
(* array of pmm.c lies at a fixed address that no reservation covers, so   *)
(* heap_init may be given the very page that holds it, and what the heap   *)
(* then writes into its page is read back by pmm_alloc as bits.            *)
(***************************************************************************)
EXTENDS Pmm

CONSTANTS BITMAP,       \* address of the byte array: 0x300000
          HDR           \* sizeof(struct Block): 24

VARIABLE heap_page      \* frame that backs the first heap page, or None

None == -1

heapVars == <<vars, heap_page>>

HeapBoot == Init /\ heap_page = None

(* pmm_setup and pmm_free leave the heap alone.                            *)
Setup == PmmSetup /\ UNCHANGED heap_page

(* Bits that block->size, block->free and block->next occupy when they are *)
(* read as the start of the byte array; the four bytes behind the int free *)
(* are padding and keep their value.                                       *)
WrittenBits == 0..95 \cup 128..191

(* size = PAGE_SIZE - HDR, free = 1, next = NULL.  A page is 4096 bytes,   *)
(* so that size has no bit above the twelfth.                              *)
OneBits == {b \in 0..11 : ((PAGE_SIZE - HDR) \div 2^b) % 2 = 1} \cup {64}

HeaderOver(bits, p) ==
  IF p = BITMAP \div PAGE_SIZE
  THEN (bits \ WrittenBits) \cup (OneBits \cap Scanned(total_pages))
  ELSE bits

(* heap_init: one page for the heap, one page for the page table vmm_map   *)
(* needs to map it at heap_start, then the first block header.             *)
HeapInit ==
  /\ ready /\ heap_page = None
  /\ Cardinality(Unmarked) >= 2
  /\ LET p == Min(Unmarked)
         q == Min(Unmarked \ {p})
     IN /\ heap_page' = p
        /\ bitmap' = HeaderOver(bitmap \cup {p, q}, p)
        /\ held' = held \cup {p, q}
  /\ used_pages' = used_pages + 2
  /\ UNCHANGED <<ready, mmap, total_pages>>

HeapNext == Setup \/ HeapInit

HeapSpec == HeapBoot /\ [][HeapNext]_heapVars

-----------------------------------------------------------------------------
(* Memory of a machine with 8 MiB: conventional memory up to 0x9FC00, the  *)
(* hole of the video memory and the firmware, memory from 1 MiB on.        *)
Machine8MiB ==
  {{[addr |-> 0,       len |-> 654336,  type |-> 1],
    [addr |-> 654336,  len |-> 394240,  type |-> 2],
    [addr |-> 1048576, len |-> 7340032, type |-> 1]}}

(* The comment on the type field of a memory map entry, pmm.h:18: a page   *)
(* the map does not call available is never open to be handed out.         *)
ReservedIsNotFree == ReservedIsMarked
=============================================================================
