-------------------------------- MODULE Pmm ---------------------------------
(***************************************************************************)
(* The physical page allocator of src/impl/x86_64/pmm.c.                   *)
(*                                                                         *)
(* The byte array at 0x300000 is modelled as the set of pages whose bit is *)
(* set.  pmm_alloc reads whole bytes only, so bits of the last             *)
(* total_pages % 8 pages are never looked at and are left out of the set.  *)
(* held is the set of pages that callers got from pmm_alloc and have not   *)
(* given to pmm_free.                                                      *)
(***************************************************************************)
EXTENDS Integers, FiniteSets, FiniteSetsExt

CONSTANTS PAGE_SIZE,    \* 4096
          LOW_LEN,      \* bytes reserved from address 0: 0x100000
          KERNEL_LEN,   \* bytes reserved behind them for the kernel: 0x200000
          MemoryMaps    \* the multiboot memory maps a boot loader may pass

(* A memory map is a set of entries; type 1 is available memory.           *)
Entry == [addr : Nat, len : Nat, type : Nat]

ASSUME PmmAssumption ==
  /\ PAGE_SIZE \in Nat \ {0} /\ LOW_LEN \in Nat /\ KERNEL_LEN \in Nat
  /\ LOW_LEN % PAGE_SIZE = 0
  /\ \A m \in MemoryMaps : m \subseteq Entry /\ IsFiniteSet(m)

VARIABLES ready,        \* pmm_setup has run
          mmap,         \* the memory map passed at boot
          total_pages, bitmap, used_pages, held

vars == <<ready, mmap, total_pages, bitmap, used_pages, held>>

Available(m) == {e \in m : e.type = 1}

(* First pass of pmm_setup: the end of the highest available region.       *)
TotalMemory(m) == Max({0} \cup {e.addr + e.len : e \in Available(m)})

(* The pages pmm_alloc looks at when there are n pages.                    *)
Scanned(n) == 0..(8 * (n \div 8) - 1)

FreedCount(e) == e.len \div PAGE_SIZE

(* pmm_free_region: the page of the first byte, and as many as fit in len. *)
FreedPagesRoundedUp(e) ==
  (e.addr \div PAGE_SIZE)..(e.addr \div PAGE_SIZE + (e.len + PAGE_SIZE - 1) \div PAGE_SIZE - 1)
FreedPages(e) ==
  (e.addr \div PAGE_SIZE)..(e.addr \div PAGE_SIZE + FreedCount(e) - 1)

ReservedCount(len) == (len + PAGE_SIZE - 1) \div PAGE_SIZE

(* pmm_reserve_region                                                      *)
ReservedPages(addr, len) ==
  (addr \div PAGE_SIZE)..(addr \div PAGE_SIZE + ReservedCount(len) - 1)

SystemPages == ReservedPages(0, LOW_LEN) \cup ReservedPages(LOW_LEN, KERNEL_LEN)

-----------------------------------------------------------------------------
Init ==
  /\ ready = FALSE
  /\ mmap \in MemoryMaps
  /\ total_pages = 0 /\ used_pages = 0
  /\ bitmap = {} /\ held = {}

(* pmm_setup: mark everything, clear the available regions, mark what the  *)
(* system occupies.  used_pages is adjusted for every page of a region,    *)
(* whatever its bit was before.                                            *)
PmmSetup ==
  /\ ~ready
  /\ ready' = TRUE
  /\ total_pages' = TotalMemory(mmap) \div PAGE_SIZE
  /\ LET all == Scanned(total_pages')
     IN bitmap' = (all \ UNION {FreedPages(e) : e \in Available(mmap)})
                    \cup (all \cap SystemPages)
  /\ used_pages' = total_pages'
                     - MapThenSumSet(FreedCount, Available(mmap))
                     + ReservedCount(LOW_LEN) + ReservedCount(KERNEL_LEN)
  /\ UNCHANGED <<mmap, held>>

Unmarked == Scanned(total_pages) \ bitmap

(* pmm_alloc hands out the first page whose bit is clear.                  *)
IsFirstUnmarked(p) == p \in Unmarked /\ \A q \in Unmarked : p <= q

MarkNothing(p) == bitmap' = bitmap
Mark(p) == bitmap' = bitmap \cup {p}

PmmAlloc ==
  /\ ready
  /\ \E p \in Unmarked :
        /\ IsFirstUnmarked(p)
        /\ Mark(p)
        /\ held' = held \cup {p}
  /\ used_pages' = used_pages + 1
  /\ UNCHANGED <<ready, mmap, total_pages>>

(* pmm_alloc returns NULL and changes nothing.                             *)
PmmAllocNull ==
  /\ ready
  /\ Unmarked = {}
  /\ UNCHANGED vars

ClearNothing(p) == bitmap' = bitmap
Clear(p) == bitmap' = bitmap \ {p}

CountFreedForgotten(n) == n
CountFreed(n) == n - 1

(* pmm_free, called for a page its caller holds.                           *)
PmmFree(p) ==
  /\ Clear(p)
  /\ held' = held \ {p}
  /\ used_pages' = CountFreed(used_pages)
  /\ UNCHANGED <<ready, mmap, total_pages>>

Next ==
  \/ PmmSetup
  \/ PmmAlloc
  \/ PmmAllocNull
  \/ \E p \in held : PmmFree(p)

Spec == Init /\ [][Next]_vars

-----------------------------------------------------------------------------
(* The types of the variables.                                             *)
TypeOK ==
  /\ ready \in BOOLEAN
  /\ mmap \in MemoryMaps
  /\ total_pages \in Nat
  /\ bitmap \subseteq Scanned(total_pages)
  /\ used_pages \in Int
  /\ held \subseteq Scanned(total_pages)

(* A page that somebody holds is marked, so that no second caller gets it. *)
HeldIsMarked == held \subseteq bitmap

(* No page below the end of the kernel's reservation is ever handed out:   *)
(* in particular not page 0, which a caller could not tell from NULL.      *)
SystemIsKept ==
  \A p \in held : p * PAGE_SIZE >= LOW_LEN + KERNEL_LEN

(* A page has one user: the system, one caller, or nobody.                 *)
PagesArePrivate == HeldIsMarked /\ SystemIsKept

(* Page p lies in the region e.                                            *)
Inside(p, e) == e.addr <= p * PAGE_SIZE /\ (p + 1) * PAGE_SIZE <= e.addr + e.len

(* Every byte of every page handed out lies in one available region of the *)
(* memory map (pmm.h:18, "1 = available, 2 = reserved").                   *)
Backed(p) == \E e \in Available(mmap) : Inside(p, e)

OnlyAvailable == \A p \in held : Backed(p)

(* A page that is not wholly available is marked from setup on, so that    *)
(* pmm_alloc passes it over.                                               *)
ReservedIsMarked == ready => \A p \in Unmarked : Backed(p)

(* Page p is available up to its end: from its beginning, or from where a  *)
(* region begins inside it.                                                *)
EndIsBacked(p) ==
  \E e \in Available(mmap) :
     e.addr < (p + 1) * PAGE_SIZE /\ (p + 1) * PAGE_SIZE <= e.addr + e.len

(* Nothing is handed out, now or later, that runs past the end of a region.*)
(* It may begin before one: pmm_free_region rounds the start of a region   *)
(* down, so that OnlyAvailable and ReservedIsMarked fail where a region    *)
(* begins inside a page (MCPmmUnaligned.cfg).                              *)
HandsOutAvailable ==
  /\ \A p \in held : EndIsBacked(p)
  /\ ready => \A p \in Unmarked : EndIsBacked(p)

(* After setup used_pages moves exactly as the number of marked pages does,*)
(* so that the figures of free, memmap and neofetch keep their meaning.    *)
CountFollowsBits ==
  [][ready => used_pages' - used_pages = Cardinality(bitmap') - Cardinality(bitmap)]_vars

(* pmm_alloc says NULL only when every page it looks at is in use: taken   *)
(* from a caller that still holds it, belonging to the system, or not      *)
(* wholly inside an available region.  No page is lost, but the last of a  *)
(* region that begins inside a page: it pays for the one rounded down to.  *)
NoPageLost ==
  ready => \A p \in bitmap :
             \/ p \in held
             \/ p \in SystemPages
             \/ \A e \in Available(mmap) :
                  Inside(p, e) => e.addr % PAGE_SIZE # 0 /\ ~Inside(p + 1, e)

(* The bitmap is exact: its bits are those of pages of this machine, and   *)
(* each that is set has a reason.                                          *)
BitmapIsExact == TypeOK /\ NoPageLost
=============================================================================
