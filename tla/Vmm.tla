-------------------------------- MODULE Vmm ---------------------------------
(***************************************************************************)
(* The virtual memory mapper of src/impl/x86_64/vmm.c on the page tables   *)
(* that boot/main.asm builds, with everybody who calls it: heap_init and   *)
(* kmalloc, the pages of the user program in kernel_main, and memtest.     *)
(*                                                                         *)
(* Addresses are page numbers.  The mapper follows the physical addresses  *)
(* in the tables as if they were pointers, so each of its loads and stores *)
(* goes through the very tables it edits; the processor walks them by      *)
(* physical address.  The two agree only where memory is mapped to itself. *)
(***************************************************************************)
EXTENDS Integers, FiniteSets, FiniteSetsExt

CONSTANTS FANOUT,       \* entries of a table: 512
          BOOT_L1,      \* first-level tables made at boot: 4
          FIRST_FREE,   \* first page behind the kernel's reservation: 0x300
          MEMTEST,      \* the page memtest borrows: 0x400
          USER_CODE,    \* 0x600
          USER_STACK,   \* 0x800
          STACK_PAGES,  \* 17
          HEAP_START,   \* 0x1000
          HEAP_MAX,     \* bound: end of the heap, 0x10000 and what kmalloc goes beyond
          MemorySizes,  \* numbers of physical pages a machine may have
          BOOT_HEAP,    \* bound: heap pages in use before the system is up
          Cached        \* bound: pages whose translation the processor keeps

Identity == 0..(BOOT_L1 * FANOUT - 1)
Pages == 0..(HEAP_MAX - 1)
Index == 0..(FANOUT - 1)

(* The tables of main.asm lie in the kernel image.                         *)
L4 == 1
L3 == 2
L2 == 3
L1(k) == 4 + k

ASSUME VmmAssumption ==
  /\ FANOUT \in Nat \ {0, 1} /\ BOOT_L1 \in 1..FANOUT
  /\ FIRST_FREE \in Identity /\ L1(BOOT_L1) <= FIRST_FREE
  /\ {MEMTEST, USER_CODE} \subseteq FIRST_FREE..(BOOT_L1 * FANOUT - 1)
  /\ MEMTEST # USER_CODE /\ STACK_PAGES \in Nat \ {0}
  /\ {USER_STACK, HEAP_START, HEAP_MAX} \subseteq Nat
  /\ BOOT_L1 * FANOUT <= USER_STACK /\ USER_STACK + STACK_PAGES <= HEAP_START
  /\ HEAP_START + BOOT_HEAP <= HEAP_MAX /\ HEAP_START < HEAP_MAX /\ HEAP_MAX <= FANOUT * FANOUT
  /\ MemorySizes \subseteq 0..(FANOUT * FANOUT * FANOUT * FANOUT)
  /\ BOOT_HEAP \in Nat \ {0} /\ Cached \subseteq Pages

(* heap_init and kernel_main do not look whether pmm_alloc has a page for  *)
(* them: there is memory for all that is mapped before the system is up, a *)
(* table with each page at most.                                           *)
ASSUME MemoryForBoot ==
  \A n \in MemorySizes : FIRST_FREE + 2 * (BOOT_HEAP + STACK_PAGES + 2) <= n

VARIABLES frames,       \* physical pages of this machine
          mem,          \* the cells of the physical pages that hold tables
          used,         \* pages that pmm_alloc has handed out
          tlb,          \* translations the processor keeps
          boot,         \* how far kernel_main has come
          heap_end,
          testing,      \* the page memtest is working with, or 0
          status        \* "up"; "fault", halted by the handler; or "wild"

vars == <<frames, mem, used, tlb, boot, heap_end, testing, status>>

(* A cell is an entry of a table or anything else, Junk: what else it is   *)
(* does not matter, nor what the processor does that takes it for an entry.*)
(* All cells of pages outside DOMAIN mem are Junk.                         *)
Entry(frame, user) == [present |-> TRUE, frame |-> frame, user |-> user]
Zero  == [present |-> FALSE, frame |-> 0, user |-> FALSE]
Junk  == [present |-> TRUE, frame |-> -1, user |-> TRUE]

Cell(m, frame, i) == IF frame \in DOMAIN m THEN m[frame][i] ELSE Junk

(* setup_page_tables: page i is mapped to frame i.                         *)
BootEntry(f, i) ==
  CASE f = L4 /\ i = 0 -> Entry(L3, FALSE)
    [] f = L3 /\ i = 0 -> Entry(L2, FALSE)
    [] f = L2 /\ i < BOOT_L1 -> Entry(L1(i), FALSE)
    [] f >= L1(0) -> Entry((f - L1(0)) * FANOUT + i, FALSE)
    [] OTHER -> Zero

-----------------------------------------------------------------------------
(* The processor.                                                          *)

(* The pages that an entry of level 1, 2, 3 or 4 covers, and the index that*)
(* level n takes from a page number.                                       *)
Span == <<1, FANOUT, FANOUT * FANOUT, FANOUT * FANOUT * FANOUT>>

At(n, page) == (page \div Span[n]) % FANOUT

Unmapped == [frame |-> -2, user |-> FALSE]
Leads(t) == t.frame >= 0

(* A walk of the tables in m.  Below a cell that is no entry there is Junk.*)
Walk(m, page) ==
  LET c4 == Cell(m, L4, At(4, page))
      c3 == Cell(m, c4.frame, At(3, page))
      c2 == Cell(m, c3.frame, At(2, page))
      c1 == Cell(m, c2.frame, At(1, page))
  IN IF c4.present /\ c3.present /\ c2.present /\ c1.present
     THEN [frame |-> c1.frame, user |-> c4.user /\ c3.user /\ c2.user /\ c1.user]
     ELSE Unmapped

(* The processor may keep a translation at any time.                       *)
Keep(page) ==
  /\ Leads(Walk(mem, page))
  /\ tlb' = [p \in DOMAIN tlb \cup {page} |->
               IF p = page THEN Walk(mem, page) ELSE tlb[p]]
  /\ UNCHANGED <<frames, mem, used, boot, heap_end, testing, status>>

-----------------------------------------------------------------------------
(* The kernel.  A step of a call works on a copy of the state, k, and does *)
(* nothing once the page fault handler has halted the machine or the kernel*)
(* runs on something that is no table.  A call gives the set of the states *)
(* it can end in, K, and Then is the next step of it.                      *)
Then(K, Step(_)) == {Step(k) : k \in K}

Now == [mem |-> mem, used |-> used, tlb |-> tlb, heap_end |-> heap_end,
        status |-> status, ptr |-> L4]

Become(K) ==
  /\ \E k \in K : /\ mem' = k.mem /\ used' = k.used /\ tlb' = k.tlb
                 /\ heap_end' = k.heap_end /\ status' = k.status
  /\ UNCHANGED frames

(* Where an access to a page through a pointer ends up.                    *)
Target(k, page) ==
  IF page < 0 THEN Junk
  ELSE IF page \in DOMAIN k.tlb THEN k.tlb[page] ELSE Walk(k.mem, page)

Reaches(k, page) == k.status = "up" /\ Leads(Target(k, page))

Touch(k, page) ==
  IF k.status # "up" \/ Reaches(k, page) THEN k
  ELSE [k EXCEPT !.status = IF Target(k, page) = Unmapped THEN "fault" ELSE "wild"]

Load(k, page, i) ==
  IF Reaches(k, page) THEN Cell(k.mem, Target(k, page).frame, i) ELSE Junk

(* Stores to pages that hold no table leave no trace here.                 *)
Over(m, rows) ==
  [f \in DOMAIN m \cup DOMAIN rows |-> IF f \in DOMAIN rows THEN rows[f] ELSE m[f]]

Write(k, page, rows) ==
  IF Reaches(k, page) THEN [k EXCEPT !.mem = Over(k.mem, rows)] ELSE Touch(k, page)

Store(k, page, i, cell) ==
  Write(k, page, [f \in {Target(k, page).frame} \cap DOMAIN k.mem |->
                    [k.mem[f] EXCEPT ![i] = cell]])

Clear(k, page) ==
  Write(k, page, [f \in {Target(k, page).frame} |-> [i \in Index |-> Zero]])

(* pmm_alloc (module Pmm): the lowest free page, or NULL, which is page 0. *)
Free(k) == (FIRST_FREE..(frames - 1)) \ k.used
Fresh(k) == IF Free(k) = {} THEN 0 ELSE Min(Free(k))
Take(k) == [k EXCEPT !.used = @ \cup ({Fresh(k)} \ {0})]

(* make_table does not look whether it got a page.                         *)
MakeTableUncleared(k) == Take(k)
MakeTableUnmarked(k) == Clear(k, Fresh(k))
MakeTable(k) == [Clear(k, Fresh(k)) EXCEPT !.used = Take(k).used]

(* One level of vmm_map: make the table below if there is none, open it to *)
(* ring 3 if asked, go there.                                              *)
Table(k, i) ==
  IF Load(k, k.ptr, i).present THEN k
  ELSE Store(MakeTable(k), k.ptr, i, Entry(Fresh(k), FALSE))

Open(k, i) == Store(k, k.ptr, i, [Load(k, k.ptr, i) EXCEPT !.user = TRUE])

Go(k, i) == [k EXCEPT !.ptr = Load(k, k.ptr, i).frame]

DescendUserForgotten(K, n, page, user) ==
  LET i == At(n, page)
  IN Then(Then(K, LAMBDA k : Table(k, i)), LAMBDA k : Go(k, i))
Descend(K, n, page, user) ==
  LET i == At(n, page)
      made == Then(K, LAMBDA k : Table(k, i))
  IN Then(IF user THEN Then(made, LAMBDA k : Open(k, i)) ELSE made, LAMBDA k : Go(k, i))

InvlpgForgotten(k, page) == k
Invlpg(k, page) ==
  IF k.status = "up" THEN [k EXCEPT !.tlb = [p \in DOMAIN @ \ {page} |-> @[p]]] ELSE k

FromRoot(K) == Then(K, LAMBDA k : [k EXCEPT !.ptr = L4])

(* The entry of the lowest table, and what the processor keeps of it.      *)
SetEntry(K, i, cell, page) ==
  Then(Then(K, LAMBDA k : Store(k, k.ptr, i, cell)), LAMBDA k : Invlpg(k, page))

VmmMap(K, page, frame, user) ==
  LET l1 == Descend(Descend(Descend(FromRoot(K), 4, page, user), 3, page, user), 2, page, user)
  IN SetEntry(l1, At(1, page), Entry(frame, user), page)

(* One level of vmm_unmap and vmm_get_phys, which give up where there is no*)
(* table.                                                                  *)
Nowhere == -3
Lookup(k, n, page) ==
  LET cell == Load(k, k.ptr, At(n, page))
  IN IF k.ptr = Nowhere THEN k
     ELSE IF ~cell.present THEN [k EXCEPT !.ptr = Nowhere]
     ELSE [Touch(k, k.ptr) EXCEPT !.ptr = cell.frame]

LowestTable(K, page) ==
  Then(Then(Then(FromRoot(K), LAMBDA k : Lookup(k, 4, page)),
            LAMBDA k : Lookup(k, 3, page)), LAMBDA k : Lookup(k, 2, page))

VmmUnmapNext(K, page) ==
  UNION Then(LowestTable(K, page), LAMBDA k :
    IF k.ptr = Nowhere THEN {k} ELSE SetEntry({k}, At(1, page + 1), Zero, page))
VmmUnmap(K, page) ==
  UNION Then(LowestTable(K, page), LAMBDA k :
    IF k.ptr = Nowhere THEN {k} ELSE SetEntry({k}, At(1, page), Zero, page))

VmmGetPhys(K, page) ==
  Then(LowestTable(K, page), LAMBDA k :
    LET cell == Load(k, k.ptr, At(1, page))
    IN IF k.ptr = Nowhere \/ ~cell.present THEN 0 ELSE cell.frame)

-----------------------------------------------------------------------------
(* The callers.                                                            *)

Init ==
  /\ frames \in MemorySizes
  /\ mem = [f \in {L4, L3, L2} \cup {L1(k) : k \in 0..(BOOT_L1 - 1)} |->
              [i \in Index |-> BootEntry(f, i)]]
  /\ used = {} /\ tlb = <<>>
  /\ boot = 0 /\ heap_end = HEAP_START
  /\ testing = 0 /\ status = "up"

(* The stages of kernel_main: heap_init, the page of the program, the first*)
(* page of its stack, and once more every page of the stack.               *)
StackMapped == 3
Booted == StackMapped + STACK_PAGES

Running == status = "up" /\ testing = 0

(* A new page, mapped; and its first word written, which is no entry.      *)
MapNew(k, page, user) == VmmMap({Take(k)}, page, Fresh(k), user)

Fill(K, page) == Then(K, LAMBDA k : Store(k, page, 0, Junk))

HeapInit ==
  /\ Running /\ boot = 0
  /\ Become(Fill({[k EXCEPT !.heap_end = HEAP_START + 1] : k \in MapNew(Now, HEAP_START, FALSE)},
                 HEAP_START))
  /\ boot' = 1
  /\ UNCHANGED testing

MapUserCode ==
  /\ Running /\ boot = 1
  /\ Become(Fill(MapNew(Now, USER_CODE, TRUE), USER_CODE))
  /\ boot' = 2
  /\ UNCHANGED testing

MapUserStack ==
  /\ Running /\ boot = 2
  /\ Become(MapNew(Now, USER_STACK, TRUE))
  /\ boot' = StackMapped
  /\ UNCHANGED testing

MapStackPage ==
  /\ Running /\ boot \in StackMapped..(Booted - 1)
  /\ Become(MapNew(Now, USER_STACK + boot - StackMapped, TRUE))
  /\ boot' = boot + 1
  /\ UNCHANGED testing

(* kmalloc when no block is large enough: n pages behind the heap, as many *)
(* of them as there are, and a header in the first if there were all.      *)
HeapLimit == IF boot < Booted THEN HEAP_START + BOOT_HEAP ELSE HEAP_MAX

Extend(k) ==
  IF Free(k) = {} \/ k.status # "up" THEN {k}
  ELSE {[m EXCEPT !.heap_end = @ + 1] : m \in MapNew(k, k.heap_end, FALSE)}

KmallocExtend(n) ==
  LET grown[i \in 0..n] == IF i = 0 THEN {Now} ELSE UNION Then(grown[i - 1], Extend)
      Header(k) == IF k.heap_end = heap_end + n THEN Fill({k}, heap_end) ELSE {k}
  IN /\ Running /\ boot > 0
     /\ heap_end + n <= HeapLimit
     /\ Become(UNION Then(grown[n], Header))
     /\ UNCHANGED <<boot, testing>>

(* memtest; between its two halves the processor may keep what it used.    *)
MemtestBegin ==
  /\ Running /\ boot > 0
  /\ Fresh(Now) # 0
  /\ Become(Fill(MapNew(Now, MEMTEST, FALSE), MEMTEST))
  /\ testing' = Fresh(Now)
  /\ UNCHANGED boot

MemtestEnd ==
  /\ status = "up" /\ testing # 0
  /\ Become({[k EXCEPT !.used = k.used \ {testing}] : k \in VmmUnmap({Now}, MEMTEST)})
  /\ testing' = 0
  /\ UNCHANGED boot

Next ==
  \/ HeapInit \/ MapUserCode \/ MapUserStack \/ MapStackPage
  \/ \E n \in 1..2 : KmallocExtend(n)
  \/ MemtestBegin \/ MemtestEnd
  \/ \E page \in Cached : Keep(page)

Spec == Init /\ [][Next]_vars

-----------------------------------------------------------------------------
(* Every variable has the values it is meant to have.                      *)
TypeOK ==
  /\ frames \in MemorySizes
  /\ DOMAIN mem \subseteq 0..(frames - 1)
  /\ \A f \in DOMAIN mem : DOMAIN mem[f] = Index
  /\ used \subseteq FIRST_FREE..(frames - 1)
  /\ DOMAIN tlb \subseteq Cached
  /\ boot \in 0..Booted
  /\ heap_end \in HEAP_START..HEAP_MAX
  /\ testing \in used \cup {0}
  /\ status \in {"up", "fault", "wild"}

(* What the processor keeps is what the tables say: whoever changes an     *)
(* entry tells it.                                                         *)
TlbCoherent == \A page \in DOMAIN tlb : tlb[page] = Walk(mem, page)

(* The frames of the tables below l4, each once for every entry that leads *)
(* to it.                                                                  *)
Links ==
  LET Below(S) == {e \in (S \cap DOMAIN mem) \X Index : mem[e[1]][e[2]].present}
      Ends(E) == {mem[e[1]][e[2]].frame : e \in E}
      e4 == Below({L4})
      e3 == Below(Ends(e4))
      e2 == Below(Ends(e3))
  IN e4 \cup e3 \cup e2

Tables == {mem[e[1]][e[2]].frame : e \in Links}

(* The mapping of a page as boot has left it.                              *)
AtBoot(page) == IF page \in Identity THEN [frame |-> page, user |-> FALSE] ELSE Unmapped

(* Frames that serve a page other than being mapped to themselves at boot. *)
Serving == {Walk(mem, page).frame : page \in {p \in Pages : Walk(mem, p) # AtBoot(p)}}

(* Every table lies where memory is mapped to itself, so that the mapper   *)
(* finds it: not beyond, and not at an address that memtest or the program *)
(* has taken.                                                              *)
TablesInReach == \A t \in (used \cup Tables) \ Serving : Walk(mem, t).frame = t

(* A table hangs from one entry only and is never at the same time a page  *)
(* of the heap, of the program or of memtest, even when memory has run out *)
(* and a table lies in page 0.                                             *)
TablesArePrivate ==
  TablesInReach =>
    Cardinality(Links) = Cardinality(Tables) /\ Tables \cap Serving = {}

(* A page that was allocated is a table or serves some page; kernel_main   *)
(* loses one, the first of the stack, which it maps twice.                 *)
NoFrameLost ==
  status = "up" /\ TablesInReach =>
    Cardinality(used \ (Tables \cup Serving \cup {testing})) = IF boot > StackMapped THEN 1 ELSE 0

(* Each frame has one use, and none has none.                              *)
FramesAreAccounted == TypeOK /\ TablesArePrivate /\ NoFrameLost

(* The mapper finds the frame that the processor finds.                    *)
GetPhysAgrees ==
  status = "up" /\ TablesInReach =>
    \A page \in Pages :
       VmmGetPhys({Now}, page) = {IF Leads(Walk(mem, page)) THEN Walk(mem, page).frame ELSE 0}

(* Memory stays mapped to itself, for the kernel alone, but for the pages  *)
(* that memtest and the program took.                                      *)
IdentityKept ==
  \A page \in Identity \ {MEMTEST, USER_CODE} :
     Walk(mem, page) = AtBoot(page)

(* The kernel sees the memory that it takes itself to see: where it is     *)
(* mapped to itself, and by vmm_get_phys everywhere.                       *)
KernelSeesMemory == IdentityKept /\ GetPhysAgrees

(* The system stops for nothing but a table that the mapper cannot reach.  *)
StopsOnlyForATable == status # "up" => ~TablesInReach

(* The address space that the callers rely on: as long as the tables are in*)
(* reach, each step is one of AddressSpace, or changes no mapping.         *)
SpaceNow == [page \in Pages |-> Walk(mem, page)]

Space == INSTANCE AddressSpace WITH
           space <- SpaceNow,
           UserPages <- {USER_CODE} \cup USER_STACK..(USER_STACK + STACK_PAGES - 1)

MapsAsAsked ==
  Space!Init /\ [][TablesInReach /\ TablesInReach' => [Space!Next]_SpaceNow]_vars
=============================================================================
