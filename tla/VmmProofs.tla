----------------------------- MODULE VmmProofs ------------------------------
(***************************************************************************)
(* Proofs about module Vmm, for any machine: any number of entries in a    *)
(* table, any place of the heap, the program and memtest, any memory, and  *)
(* any number of pages that the heap takes and the processor remembers.    *)
(*                                                                         *)
(* The argument.  Only two levels of the tables ever matter: the tables of *)
(* boot never move, so that a page is looked up in one entry of l2, Dir,   *)
(* and in one entry of the table below, Low.  KInv(k, D) is what holds in  *)
(* the middle of every call, when the pages D have been given memory: the  *)
(* tables of boot are where they were, each table that vmm_map made hangs  *)
(* from one entry, in a frame of its own or, out of memory, in page 0, and *)
(* each entry of such a table is nothing yet, or leads to a frame of its   *)
(* own, or is Junk because the mapper does not see the table.  A load or a *)
(* store of the mapper hits the table it wants, or a page that holds no    *)
(* table, or it stops the machine: LoadIs, StoreIs, ClearIs.  So what a    *)
(* call does while every table is where the mapper looks for it is known   *)
(* entry by entry (SetViews, LinkViews); and once a table is not, it stays *)
(* out of reach, and Moves and Lost claim nothing any more.  MapKeeps and  *)
(* ReturnKeeps put vmm_map and vmm_unmap together from these steps.        *)
(*                                                                         *)
(* IInv is KInv between the calls, with what kernel_main and the heap have *)
(* asked for so far, Given; how many frames were handed out for it, which  *)
(* MemoryForBoot shows to be there as long as nobody looks (Spent, Lasts); *)
(* and which frame was lost (Lost).  Each action keeps IInv and says what  *)
(* it does to the address space (Moves); the theorems follow.              *)
(***************************************************************************)
EXTENDS Vmm, FiniteSetTheorems, WellFoundedInduction, TLAPS

-----------------------------------------------------------------------------
(* Numbers.                                                                *)

(* Quotient and remainder are what they should be.                         *)
LEMMA DivideUnique ==
  ASSUME NEW w \in Nat, w > 0, NEW q \in Int, NEW r \in 0..(w - 1)
  PROVE  (w * q + r) \div w = q /\ (w * q + r) % w = r
<1> DEFINE a == w * q + r
           p == a \div w
           m == a % w
<1>1. p \in Int /\ m \in 0..(w - 1) /\ a = w * p + m /\ a \in Int
  OBVIOUS
<1>2. a = w * q + r
  OBVIOUS
<1> HIDE DEF a, p, m
<1>3. p = q
  <2>1. CASE p >= q + 1
    <3> DEFINE d == p - (q + 1)
    <3>1. d \in Nat /\ p = q + 1 + d
      BY <1>1, <2>1
    <3> HIDE DEF d
    <3>2. w * (q + 1 + d) = w * q + w + w * d /\ w * d \in Nat /\ w * q \in Int
      BY <3>1
    <3>3. QED
      BY <1>1, <1>2, <3>1, <3>2
  <2>2. CASE p <= q - 1
    <3> DEFINE d == (q - 1) - p
    <3>1. d \in Nat /\ q = p + 1 + d
      BY <1>1, <2>2
    <3> HIDE DEF d
    <3>2. w * (p + 1 + d) = w * p + w + w * d /\ w * d \in Nat /\ w * p \in Int
      BY <1>1, <3>1
    <3>3. QED
      BY <1>1, <1>2, <3>1, <3>2
  <2>3. QED
    BY <1>1, <2>1, <2>2
<1>4. m = r
  BY <1>1, <1>2, <1>3
<1>5. QED
  BY <1>3, <1>4 DEF a, p, m

(* The tables have at least two entries.                                   *)
LEMMA FanoutIs == FANOUT \in Nat /\ FANOUT > 1 /\ BOOT_L1 \in Nat /\ 0 < BOOT_L1 /\ BOOT_L1 <= FANOUT
<1>1. FANOUT \in Nat \ {0, 1} /\ BOOT_L1 \in 1..FANOUT
  BY VmmAssumption, Zenon
<1>2. QED
  BY <1>1

(* The pages that one table of level 3 leads to.                           *)
Reach == 0..(FANOUT * FANOUT - 1)

(* The index of a page in the table of level 2, and in that of level 1.    *)
Hi(page) == page \div FANOUT
Lo(page) == page % FANOUT

(* A page is made of its two indexes.                                      *)
LEMMA HiLo ==
  ASSUME NEW page \in Nat
  PROVE  Hi(page) \in Nat /\ Lo(page) \in Index /\ page = FANOUT * Hi(page) + Lo(page)
<1>1. /\ page \div FANOUT \in Int /\ page % FANOUT \in 0..(FANOUT - 1)
      /\ page = FANOUT * (page \div FANOUT) + (page % FANOUT)
  BY FanoutIs
<1> DEFINE q == page \div FANOUT
<1>2. q \in Int /\ page = FANOUT * q + (page % FANOUT)
  BY <1>1
<1> HIDE DEF q
<1>3. q >= 0
  <2>1. CASE q <= -1
    <3> DEFINE d == -1 - q
    <3>1. d \in Nat /\ q = -1 - d
      BY <1>2, <2>1
    <3> HIDE DEF d
    <3>2. FANOUT * (-1 - d) = -FANOUT - FANOUT * d /\ FANOUT * d \in Nat
      BY <3>1, FanoutIs
    <3>3. QED
      BY <1>1, <1>2, <3>1, <3>2, FanoutIs
  <2>2. QED
    BY <1>2, <2>1
<1>4. QED
  BY <1>1, <1>2, <1>3 DEF q, Hi, Lo, Index

(* The page with two given indexes.                                        *)
LEMMA PageOf ==
  ASSUME NEW i \in Index, NEW j \in Index
  PROVE  /\ FANOUT * i + j \in Reach
         /\ Hi(FANOUT * i + j) = i /\ Lo(FANOUT * i + j) = j
<1>1. i \in Nat /\ j \in Nat /\ i <= FANOUT - 1 /\ j <= FANOUT - 1 /\ j \in 0..(FANOUT - 1)
  BY FanoutIs DEF Index
<1>2. Hi(FANOUT * i + j) = i /\ Lo(FANOUT * i + j) = j
  BY <1>1, FanoutIs, DivideUnique DEF Hi, Lo
<1>3. FANOUT * i + j \in Reach
  <2> DEFINE d == FANOUT - 1 - i
  <2>1. d \in Nat /\ FANOUT = i + 1 + d
    BY <1>1, FanoutIs
  <2>2. FANOUT * (i + 1 + d) = FANOUT * i + FANOUT + FANOUT * d /\ FANOUT * d \in Nat /\ FANOUT * i \in Nat
    BY <1>1, <2>1, FanoutIs
  <2>3. FANOUT * FANOUT = FANOUT * i + FANOUT + FANOUT * d
    BY <2>1, <2>2
  <2> HIDE DEF d
  <2>4. FANOUT * FANOUT \in Nat
    BY FanoutIs
  <2>5. QED
    BY <1>1, <2>2, <2>3, <2>4, FanoutIs DEF Reach
<1>4. QED
  BY <1>2, <1>3

(* Comparing pages by their upper index.                                   *)
LEMMA HiBelow ==
  ASSUME NEW page \in Nat, NEW n \in Nat
  PROVE  Hi(page) < n <=> page < n * FANOUT
<1> DEFINE h == Hi(page)
           l == Lo(page)
<1>1. h \in Nat /\ l \in 0..(FANOUT - 1) /\ page = FANOUT * h + l
  BY HiLo DEF Index
<1> HIDE DEF h, l
<1>2. CASE h < n
  <2> DEFINE d == n - 1 - h
  <2>1. d \in Nat /\ n = h + 1 + d
    BY <1>1, <1>2
  <2> HIDE DEF d
  <2>2. (h + 1 + d) * FANOUT = FANOUT * h + FANOUT + FANOUT * d /\ FANOUT * d \in Nat /\ FANOUT * h \in Nat
    BY <1>1, <2>1, FanoutIs
  <2>3. QED
    BY <1>1, <1>2, <2>1, <2>2, FanoutIs DEF h
<1>3. CASE ~(h < n)
  <2> DEFINE d == h - n
  <2>1. d \in Nat /\ h = n + d
    BY <1>1, <1>3
  <2> HIDE DEF d
  <2>2. FANOUT * (n + d) = n * FANOUT + FANOUT * d /\ FANOUT * d \in Nat /\ n * FANOUT \in Nat
    BY <2>1, FanoutIs
  <2>3. QED
    BY <1>1, <1>3, <2>1, <2>2, FanoutIs DEF h
<1>4. QED
  BY <1>2, <1>3

(* The pages of the kernel and where they lie.                             *)
LEMMA Places ==
  /\ Identity \subseteq Reach /\ Pages \subseteq Reach /\ Reach \subseteq Nat
  /\ \A page \in Reach : page \in Identity <=> Hi(page) < BOOT_L1
  /\ MEMTEST \in Identity /\ USER_CODE \in Identity /\ MEMTEST # USER_CODE
  /\ MEMTEST >= FIRST_FREE /\ USER_CODE >= FIRST_FREE
  /\ FIRST_FREE \in Nat /\ FIRST_FREE >= 4 + BOOT_L1 /\ FIRST_FREE \in Identity
<1> DEFINE E == BOOT_L1 * FANOUT
           R == FANOUT * FANOUT
<1>1. E \in Nat /\ R \in Nat /\ E <= R
  <2>1. PICK d \in Nat : FANOUT = BOOT_L1 + d
    <3>1. FANOUT - BOOT_L1 \in Nat /\ FANOUT = BOOT_L1 + (FANOUT - BOOT_L1)
      BY FanoutIs
    <3>2. QED
      BY <3>1
  <2>2. (BOOT_L1 + d) * FANOUT = BOOT_L1 * FANOUT + d * FANOUT /\ d * FANOUT \in Nat
    BY FanoutIs
  <2>3. FANOUT * FANOUT = (BOOT_L1 + d) * FANOUT
    BY <2>1
  <2>4. BOOT_L1 * FANOUT \in Nat /\ FANOUT * FANOUT \in Nat
    BY FanoutIs
  <2>5. QED
    BY <2>2, <2>3, <2>4
<1>2. \A page \in Nat : Hi(page) < BOOT_L1 <=> page < E
  BY HiBelow, FanoutIs
<1>3. Identity = 0..(E - 1) /\ Reach = 0..(R - 1) /\ Pages = 0..(HEAP_MAX - 1)
  BY DEF Identity, Reach, Pages
<1>4. /\ FIRST_FREE \in 0..(E - 1) /\ L1(BOOT_L1) <= FIRST_FREE
      /\ {MEMTEST, USER_CODE} \subseteq FIRST_FREE..(E - 1) /\ MEMTEST # USER_CODE
      /\ HEAP_MAX <= R
  BY VmmAssumption, Zenon DEF Identity
<1>5. {USER_STACK, HEAP_START, HEAP_MAX} \subseteq Nat
  BY VmmAssumption, Zenon
<1> HIDE DEF E, R
<1>6. L1(BOOT_L1) = 4 + BOOT_L1
  BY DEF L1
<1>7. QED
  BY <1>1, <1>2, <1>3, <1>4, <1>5, <1>6, FanoutIs

(* What the mapper and the processor take for the indexes of a page: those *)
(* of the two upper levels are both 0 where one table of level 3 leads.    *)
LEMMA Indexes ==
  ASSUME NEW page \in Nat
  PROVE  /\ At(1, page) = Lo(page)
         /\ page \in Reach => At(2, page) = Hi(page) /\ At(3, page) = 0 /\ At(4, page) = 0
         /\ page \in Reach => Hi(page) \in Index
         /\ At(4, page) \in Index /\ At(3, page) \in Index
         /\ page \notin Reach /\ page < FANOUT * FANOUT * FANOUT * FANOUT
              => At(4, page) # 0 \/ At(3, page) # 0
<1> DEFINE a == Hi(page)
           b == Hi(a)
           c == Hi(b)
<1>1. a \in Nat /\ b \in Nat /\ c \in Nat
  BY HiLo
<1>2. /\ page = FANOUT * a + Lo(page) /\ a = FANOUT * b + Lo(a) /\ b = FANOUT * c + Lo(b)
      /\ Lo(page) \in Index /\ Lo(a) \in Index /\ Lo(b) \in Index /\ Lo(c) \in Index
  BY <1>1, HiLo
<1>3. Span[1] = 1 /\ Span[2] = FANOUT /\ Span[3] = FANOUT * FANOUT
      /\ Span[4] = FANOUT * FANOUT * FANOUT
  BY DEF Span
<1>4. page \div 1 = page
  BY DivideUnique
<1>5. page \div (FANOUT * FANOUT) = b
  <2> DEFINE w == FANOUT * FANOUT
             r == FANOUT * Lo(a) + Lo(page)
  <2>1. w \in Nat /\ w > 0 /\ r \in 0..(w - 1)
    BY <1>2, PageOf, FanoutIs DEF Reach
  <2>2. page = w * b + r
    <3>1. FANOUT * (FANOUT * b + Lo(a)) = (FANOUT * FANOUT) * b + FANOUT * Lo(a)
      BY <1>1, <1>2, FanoutIs DEF Index
    <3>2. page = FANOUT * (FANOUT * b + Lo(a)) + Lo(page)
      BY <1>2
    <3> HIDE DEF a, b
    <3>3. (FANOUT * FANOUT) * b \in Int /\ FANOUT * Lo(a) \in Int /\ Lo(page) \in Int
      BY <1>1, <1>2, FanoutIs DEF Index
    <3>4. QED
      BY <3>1, <3>2, <3>3
  <2> HIDE DEF w, r, a, b
  <2>3. page \div w = b
    BY <1>1, <2>1, <2>2, DivideUnique
  <2>4. QED
    BY <2>3 DEF w
<1>6. page \div (FANOUT * FANOUT * FANOUT) = c
  <2> DEFINE w == FANOUT * FANOUT * FANOUT
             s == FANOUT * Lo(b) + Lo(a)
             r == FANOUT * s + Lo(page)
  <2>1. s \in Nat /\ s <= FANOUT * FANOUT - 1 /\ FANOUT * FANOUT \in Nat
    BY <1>2, PageOf, FanoutIs DEF Reach
  <2>2. w \in Nat /\ w > 0
    BY FanoutIs
  <2>3. r \in 0..(w - 1)
    <3> DEFINE d == FANOUT * FANOUT - 1 - s
    <3>1. d \in Nat /\ FANOUT * FANOUT = s + 1 + d
      BY <2>1
    <3> HIDE DEF s
    <3>2. FANOUT * (s + 1 + d) = FANOUT * s + FANOUT + FANOUT * d /\ FANOUT * d \in Nat /\ FANOUT * s \in Nat
      BY <2>1, <3>1, FanoutIs
    <3>3. w = FANOUT * (s + 1 + d)
      <4>1. w = FANOUT * (FANOUT * FANOUT)
        BY FanoutIs
      <4>2. QED
        BY <3>1, <4>1
    <3> HIDE DEF d, w
    <3>4. Lo(page) \in Nat /\ Lo(page) <= FANOUT - 1
      BY <1>2, FanoutIs DEF Index
    <3>5. r = FANOUT * s + Lo(page)
      OBVIOUS
    <3> HIDE DEF r
    <3>6. QED
      BY <2>2, <3>2, <3>3, <3>4, <3>5, FanoutIs
  <2>4. page = w * c + r
    <3> HIDE DEF a, b, c
    <3>1. /\ Lo(page) \in Int /\ Lo(a) \in Int /\ Lo(b) \in Int /\ FANOUT \in Int
          /\ a \in Int /\ b \in Int /\ c \in Int
      BY <1>1, <1>2, FanoutIs DEF Index
    <3>2. FANOUT * (FANOUT * c + Lo(b)) = (FANOUT * FANOUT) * c + FANOUT * Lo(b)
      BY <3>1
    <3>3. a = (FANOUT * FANOUT) * c + s
      <4>1. a = FANOUT * (FANOUT * c + Lo(b)) + Lo(a)
        BY <1>2
      <4>2. (FANOUT * FANOUT) * c \in Int /\ FANOUT * Lo(b) \in Int
        BY <3>1
      <4>3. QED
        BY <3>1, <3>2, <4>1, <4>2
    <3>4. s \in Int
      BY <2>1
    <3> HIDE DEF s
    <3>5. FANOUT * ((FANOUT * FANOUT) * c + s) = w * c + FANOUT * s
      BY <3>1, <3>4
    <3>6. page = FANOUT * ((FANOUT * FANOUT) * c + s) + Lo(page)
      BY <1>2, <3>3
    <3>7. w * c \in Int /\ FANOUT * s \in Int
      BY <2>2, <3>1, <3>4
    <3> HIDE DEF w
    <3>8. QED
      BY <3>1, <3>5, <3>6, <3>7
  <2> HIDE DEF w, r, c
  <2>5. page \div w = c
    BY <1>1, <2>2, <2>3, <2>4, DivideUnique
  <2>6. QED
    BY <2>5 DEF w
<1>7. /\ At(1, page) = Lo(page) /\ At(2, page) = Lo(a)
      /\ At(3, page) = Lo(b) /\ At(4, page) = Lo(c)
  BY <1>3, <1>4, <1>5, <1>6 DEF At, Lo, Hi
<1> HIDE DEF a, b, c
<1>8. page \in Reach <=> a < FANOUT
  BY HiBelow, FanoutIs DEF Reach, a
<1>9. ASSUME a < FANOUT
      PROVE  Lo(a) = a /\ b = 0 /\ c = 0 /\ Lo(b) = 0 /\ Lo(c) = 0 /\ a \in Index
  <2>1. \A n \in Nat : n < FANOUT => Hi(n) = 0 /\ Lo(n) = n /\ n \in Index
    <3> TAKE n \in Nat
    <3> HAVE n < FANOUT
    <3>1. n \in 0..(FANOUT - 1) /\ FANOUT * 0 + n = n
      BY FanoutIs
    <3>2. QED
      BY <3>1, FanoutIs, DivideUnique DEF Hi, Lo, Index
  <2>2. Lo(a) = a /\ b = 0 /\ a \in Index
    BY <1>1, <1>9, <2>1 DEF b
  <2>3. c = 0 /\ Lo(b) = 0
    BY <2>1, <2>2, FanoutIs DEF c
  <2>4. QED
    BY <2>1, <2>2, <2>3, FanoutIs
<1>10. ASSUME ~(a < FANOUT), page < FANOUT * FANOUT * FANOUT * FANOUT
       PROVE  Lo(c) # 0 \/ Lo(b) # 0
  <2>1. c < FANOUT
    <3> DEFINE q == FANOUT * FANOUT
    <3>1. q \in Nat /\ q * FANOUT \in Nat /\ FANOUT \in Nat
      BY FanoutIs
    <3>2. page < (q * FANOUT) * FANOUT
      BY <1>10
    <3> HIDE DEF q
    <3>3. a < q * FANOUT
      BY <3>1, <3>2, HiBelow DEF a
    <3>4. b < q
      BY <1>1, <3>1, <3>3, HiBelow DEF b
    <3>5. QED
      BY <1>1, <3>1, <3>4, HiBelow DEF c, q
  <2>2. b >= 1
    BY <1>1, <1>10, <1>2, HiBelow, FanoutIs DEF Index
  <2>3. CASE c = 0
    BY <1>1, <1>2, <2>2, <2>3, FanoutIs
  <2>4. CASE c # 0
    <3>1. c \in 0..(FANOUT - 1) /\ FANOUT * 0 + c = c
      BY <1>1, <2>1, FanoutIs
    <3>2. Lo(c) = c
      BY <3>1, FanoutIs, DivideUnique DEF Lo
    <3>3. QED
      BY <2>4, <3>2
  <2>5. QED
    BY <2>3, <2>4
<1>11. QED
  BY <1>2, <1>7, <1>8, <1>9, <1>10 DEF a

-----------------------------------------------------------------------------
(* The tables.  Those that boot leaves behind are never replaced; the      *)
(* kernel makes tables of the lowest level only, behind the upper entries  *)
(* of the table of level 2.                                                *)
BootTables == {L4, L3, L2} \cup {L1(i) : i \in 0..(BOOT_L1 - 1)}
Upper == BOOT_L1..(FANOUT - 1)
Cells == [present : BOOLEAN, frame : Int, user : BOOLEAN]

(* The identity pages that serve for something else later.                 *)
Taken == {MEMTEST, USER_CODE}

Dir(m, i) == m[L2][i]
Low(m, page) == Cell(m, Dir(m, Hi(page)).frame, Lo(page))
Opened(m, page) == m[L4][0].user /\ m[L3][0].user /\ Dir(m, Hi(page)).user
Serves(m, page) == Dir(m, Hi(page)).present /\ Low(m, page).present /\ Low(m, page).frame >= 0

Made(m) == {Dir(m, i).frame : i \in {h \in Upper : Dir(m, h).present}}

(* What never changes in the tables.                                       *)
Typed(m) == DOMAIN m \subseteq Nat /\ \A f \in DOMAIN m : m[f] \in [Index -> Cells]

Shape(m) ==
  /\ Typed(m) /\ BootTables \subseteq DOMAIN m
  /\ m[L4][0].present /\ m[L4][0].frame = L3
  /\ m[L3][0].present /\ m[L3][0].frame = L2
  /\ \A i \in Index \ {0} : m[L4][i] = Zero /\ m[L3][i] = Zero
  /\ \A i \in 0..(BOOT_L1 - 1) : Dir(m, i).present /\ Dir(m, i).frame = L1(i)
  /\ \A page \in Identity \ Taken : m[L1(Hi(page))][Lo(page)] = Entry(page, FALSE)

(* The tables of boot lie below the memory that is handed out.             *)
LEMMA TablePlaces ==
  /\ BootTables \subseteq Identity \ Taken /\ 0 \in Identity \ Taken /\ 0 \notin BootTables
  /\ \A f \in BootTables : f < FIRST_FREE
  /\ L4 # L3 /\ L4 # L2 /\ L3 # L2
  /\ \A i \in 0..(BOOT_L1 - 1) : L1(i) \in BootTables /\ L1(i) \notin {L4, L3, L2}
  /\ \A i, j \in 0..(BOOT_L1 - 1) : L1(i) = L1(j) => i = j
<1>1. \A f \in BootTables : f \in Nat /\ f < FIRST_FREE /\ f # 0
  BY Places, FanoutIs DEF BootTables, L4, L3, L2, L1
<1>2. \A n \in Nat : n < FIRST_FREE => n \in Identity
  BY Places, FanoutIs DEF Identity
<1>3. 0 \in Identity \ Taken /\ BootTables \subseteq Identity \ Taken
  BY <1>1, <1>2, Places, FanoutIs DEF Taken
<1>4. QED
  BY <1>1, <1>3 DEF BootTables, L4, L3, L2, L1

(* The kinds of cells are different, and cells.                            *)
LEMMA CellKinds ==
  /\ Zero \in Cells /\ ~Zero.present /\ Zero.frame = 0
  /\ Junk \in Cells /\ Junk.present /\ Junk.frame = -1
  /\ \A f \in Int, u \in BOOLEAN :
       Entry(f, u) \in Cells /\ Entry(f, u).present /\ Entry(f, u).frame = f /\ Entry(f, u).user = u
BY DEF Zero, Junk, Entry, Cells

(* A cell of any page is a cell.                                           *)
LEMMA CellType ==
  ASSUME NEW m, Typed(m), NEW f, NEW i \in Index
  PROVE  Cell(m, f, i) \in Cells
BY CellKinds DEF Typed, Cell

(* The processor's walk in terms of the two lower levels.                  *)
LEMMA WalkIs ==
  ASSUME NEW m, Shape(m), NEW page \in Nat
  PROVE  /\ page \in Reach =>
              Walk(m, page) = IF Dir(m, Hi(page)).present /\ Low(m, page).present
                              THEN [frame |-> Low(m, page).frame,
                                    user |-> Opened(m, page) /\ Low(m, page).user]
                              ELSE Unmapped
         /\ page \notin Reach /\ page < FANOUT * FANOUT * FANOUT * FANOUT => Walk(m, page) = Unmapped
<1>1. L4 \in DOMAIN m /\ L3 \in DOMAIN m /\ L2 \in DOMAIN m /\ 0 \in Index
  BY FanoutIs DEF Shape, BootTables, Index
<1>2. CASE page \in Reach
  <2>1. At(4, page) = 0 /\ At(3, page) = 0 /\ At(2, page) = Hi(page) /\ At(1, page) = Lo(page)
    BY <1>2, Indexes
  <2>2. /\ Cell(m, L4, 0) = m[L4][0] /\ Cell(m, L3, 0) = m[L3][0]
        /\ Cell(m, L2, Hi(page)) = m[L2][Hi(page)]
    BY <1>1 DEF Cell
  <2>3. m[L4][0].present /\ m[L4][0].frame = L3 /\ m[L3][0].present /\ m[L3][0].frame = L2
    BY DEF Shape
  <2>4. Walk(m, page) = IF m[L4][0].present /\ m[L3][0].present /\ m[L2][Hi(page)].present
                             /\ Low(m, page).present
                        THEN [frame |-> Low(m, page).frame,
                              user |-> m[L4][0].user /\ m[L3][0].user /\ m[L2][Hi(page)].user
                                       /\ Low(m, page).user]
                        ELSE Unmapped
    BY <2>1, <2>2, <2>3 DEF Walk, Low, Dir
  <2>5. QED
    BY <1>2, <2>3, <2>4 DEF Opened, Dir
<1>3. CASE page \notin Reach /\ page < FANOUT * FANOUT * FANOUT * FANOUT
  <2>1. At(4, page) # 0 \/ At(3, page) # 0
    BY <1>3, Indexes
  <2>2. At(4, page) \in Index /\ At(3, page) \in Index
    BY Indexes
  <2>3. CASE At(4, page) # 0
    <3>1. Cell(m, L4, At(4, page)) = Zero
      BY <1>1, <2>2, <2>3 DEF Cell, Shape
    <3>2. QED
      BY <1>3, <3>1, CellKinds DEF Walk
  <2>4. CASE At(4, page) = 0 /\ At(3, page) # 0
    <3>1. Cell(m, L4, At(4, page)).frame = L3
      BY <1>1, <2>4 DEF Cell, Shape
    <3>2. Cell(m, L3, At(3, page)) = Zero
      BY <1>1, <2>2, <2>4 DEF Cell, Shape
    <3>3. QED
      BY <1>3, <3>1, <3>2, CellKinds DEF Walk
  <2>5. QED
    BY <2>1, <2>3, <2>4
<1>4. QED
  BY <1>2, <1>3

(* A page leads somewhere just if it serves, and then to its own frame.    *)
LEMMA WalkLeads ==
  ASSUME NEW m, Shape(m), NEW page \in Nat, page < FANOUT * FANOUT * FANOUT * FANOUT
  PROVE  /\ Leads(Walk(m, page)) <=> page \in Reach /\ Serves(m, page)
         /\ Leads(Walk(m, page)) => Walk(m, page).frame = Low(m, page).frame
         /\ Walk(m, page).frame \in Int
<1>1. Leads(Unmapped) = FALSE /\ Unmapped.frame = -2
  BY DEF Leads, Unmapped
<1>2. Low(m, page) \in Cells
  BY CellType, HiLo DEF Low, Shape
<1>3. QED
  BY <1>1, <1>2, WalkIs DEF Leads, Serves, Cells

(* The memory that boot maps to itself stays so.                           *)
LEMMA WalkIdentity ==
  ASSUME NEW m, Shape(m), NEW page \in Identity \ Taken
  PROVE  /\ page \in Reach /\ Hi(page) \in 0..(BOOT_L1 - 1) /\ Dir(m, Hi(page)).present
         /\ Low(m, page) = Entry(page, FALSE)
         /\ Walk(m, page) = [frame |-> page, user |-> FALSE] /\ Leads(Walk(m, page))
<1>1. page \in Reach /\ page \in Nat /\ Hi(page) \in 0..(BOOT_L1 - 1)
  BY Places, HiLo, FanoutIs
<1>2. Dir(m, Hi(page)).present /\ Dir(m, Hi(page)).frame = L1(Hi(page))
  BY <1>1 DEF Shape
<1>3. L1(Hi(page)) \in DOMAIN m
  BY <1>1, TablePlaces DEF Shape
<1>4. Low(m, page) = Entry(page, FALSE)
  BY <1>2, <1>3 DEF Low, Cell, Shape
<1>5. Entry(page, FALSE).present /\ Entry(page, FALSE).frame = page /\ ~Entry(page, FALSE).user
  BY DEF Entry
<1>6. Walk(m, page) = [frame |-> page, user |-> FALSE]
  BY <1>1, <1>2, <1>4, <1>5, WalkIs
<1>7. QED
  BY <1>1, <1>2, <1>4, <1>6 DEF Leads
-----------------------------------------------------------------------------
(* What holds of the tables m, the frames U handed out and the pages D that*)
(* were given one.                                                         *)
Movable == Reach \ (Identity \ Taken)

Held(m, D) == {Low(m, page).frame : page \in {p \in D : Serves(m, p)}}
Reached(m, t) == Walk(m, t).frame = t
InReach(m) == \A t \in Made(m) : Reached(m, t)

(* A table made hangs from one entry, in a frame of its own or in page 0.  *)
TablesMade(m, U) ==
  /\ Made(m) \subseteq U \cup {0}
  /\ \A i, j \in Upper :
       Dir(m, i).present /\ Dir(m, j).present /\ Dir(m, i).frame = Dir(m, j).frame => i = j

(* What an entry of the lowest level may be.                               *)
Kind(m, U, D, page) ==
  \/ Low(m, page) = Zero
  \/ Low(m, page) = Junk /\ ~Reached(m, Dir(m, Hi(page)).frame)
  \/ page \in D /\ Low(m, page).present /\ Low(m, page).frame \in U \ Made(m)
  \/ page \in Taken \ D /\ Low(m, page) = Entry(page, FALSE)

Kinds(m, U, D) == \A page \in Movable : Dir(m, Hi(page)).present => Kind(m, U, D, page)

HeldOnce(m, D) ==
  \A p, q \in D : Serves(m, p) /\ Serves(m, q) /\ Low(m, p).frame = Low(m, q).frame => p = q

UserOpen(m) == \A page \in Reach : Serves(m, page) /\ Low(m, page).user => Opened(m, page)

Coherent(m, T) ==
  /\ DOMAIN T \subseteq Cached
  /\ \A page \in DOMAIN T : T[page] = Walk(m, page) /\ Leads(Walk(m, page))

(* The same of a state that a call works on.                               *)
Fields(k) ==
  k = [mem |-> k.mem, used |-> k.used, tlb |-> k.tlb, heap_end |-> k.heap_end,
       status |-> k.status, ptr |-> k.ptr]

Stopped(k, D) ==
  k.status # "up" =>
    /\ k.status \in {"fault", "wild"}
    /\ \E t \in k.used \ Held(k.mem, D) : ~Reached(k.mem, t)

Sizes(k) ==
  /\ frames \in MemorySizes
  /\ k.used \subseteq FIRST_FREE..(frames - 1)
  /\ DOMAIN k.mem \subseteq BootTables \cup k.used \cup {0}
  /\ 0 \in Made(k.mem) => Free(k) = {}

KInv(k, D) ==
  /\ Fields(k) /\ Sizes(k) /\ D \subseteq Movable
  /\ Shape(k.mem) /\ TablesMade(k.mem, k.used) /\ Kinds(k.mem, k.used, D)
  /\ HeldOnce(k.mem, D) /\ UserOpen(k.mem) /\ Coherent(k.mem, k.tlb)
  /\ Stopped(k, D)

(* While every table can be reached, every page of D is mapped and only X  *)
(* has no use.                                                             *)
Loose(k, D) == k.used \ (Made(k.mem) \cup Held(k.mem, D))

Accounts(k, D, X) ==
  k.status = "up" /\ InReach(k.mem) =>
    (\A page \in D : Serves(k.mem, page)) /\ Loose(k, D) = X

(* Tables that differ in no more than who may use them.                    *)
Like(m, n) ==
  /\ \A i \in Index : Dir(n, i).present = Dir(m, i).present /\ Dir(n, i).frame = Dir(m, i).frame
  /\ \A page \in Reach : Dir(m, Hi(page)).present => Low(n, page) = Low(m, page)
  /\ \A page \in Reach : Opened(m, page) => Opened(n, page)

(* Such tables lead to the same frames, and to the same translations.      *)
LEMMA LikeViews ==
  ASSUME NEW m, NEW n, Shape(m), Shape(n), UserOpen(m), Like(m, n)
  PROVE  /\ Made(n) = Made(m)
         /\ \A page \in Reach : Serves(n, page) = Serves(m, page)
         /\ \A D \in SUBSET Reach : Held(n, D) = Held(m, D)
         /\ UserOpen(n)
         /\ \A page \in Nat : page < FANOUT * FANOUT * FANOUT * FANOUT =>
              /\ Walk(n, page).frame = Walk(m, page).frame
              /\ Reached(n, page) = Reached(m, page)
              /\ Leads(Walk(m, page)) => Walk(n, page) = Walk(m, page)
<1>1. \A i \in Index : Dir(n, i).present = Dir(m, i).present /\ Dir(n, i).frame = Dir(m, i).frame
  BY Zenon DEF Like
<1>2. \A page \in Reach : Dir(m, Hi(page)).present => Low(n, page) = Low(m, page)
  BY Zenon DEF Like
<1>3. \A page \in Reach : Opened(m, page) => Opened(n, page)
  BY Zenon DEF Like
<1>4. Upper \subseteq Index
  BY FanoutIs DEF Upper, Index
<1>5. Made(n) = Made(m)
  BY <1>1, <1>4 DEF Made
<1>6. \A page \in Reach : page \in Nat /\ Hi(page) \in Index
  BY Indexes, Places
<1>7. \A page \in Reach : Serves(n, page) = Serves(m, page)
  BY <1>1, <1>2, <1>6 DEF Serves
<1>8. \A D \in SUBSET Reach : Held(n, D) = Held(m, D)
  <2> TAKE D \in SUBSET Reach
  <2>1. {p \in D : Serves(n, p)} = {p \in D : Serves(m, p)}
    BY <1>7
  <2>2. \A p \in {q \in D : Serves(m, q)} : Low(n, p).frame = Low(m, p).frame
    BY <1>2 DEF Serves
  <2>3. QED
    BY <2>1, <2>2 DEF Held
<1>9. UserOpen(n)
  <2> SUFFICES ASSUME NEW page \in Reach, Serves(n, page), Low(n, page).user
               PROVE  Opened(n, page)
    BY DEF UserOpen
  <2>1. Serves(m, page) /\ Low(m, page).user
    BY <1>2, <1>7 DEF Serves
  <2>2. QED
    BY <1>3, <2>1 DEF UserOpen
<1>10. ASSUME NEW page \in Nat, page < FANOUT * FANOUT * FANOUT * FANOUT
       PROVE  /\ Walk(n, page).frame = Walk(m, page).frame
              /\ Leads(Walk(m, page)) => Walk(n, page) = Walk(m, page)
  <2>1. CASE page \notin Reach
    BY <1>10, <2>1, WalkIs
  <2>2. CASE page \in Reach
    <3>1. Walk(n, page) = IF Dir(m, Hi(page)).present /\ Low(m, page).present
                          THEN [frame |-> Low(m, page).frame,
                                user |-> Opened(n, page) /\ Low(m, page).user]
                          ELSE Unmapped
      BY <1>1, <1>2, <1>6, <2>2, WalkIs
    <3>2. Walk(m, page) = IF Dir(m, Hi(page)).present /\ Low(m, page).present
                          THEN [frame |-> Low(m, page).frame,
                                user |-> Opened(m, page) /\ Low(m, page).user]
                          ELSE Unmapped
      BY <2>2, WalkIs
    <3>3. Walk(n, page).frame = Walk(m, page).frame
      BY <3>1, <3>2
    <3>4. ASSUME Leads(Walk(m, page))
          PROVE  Walk(n, page) = Walk(m, page)
      <4>1. Serves(m, page)
        BY <1>10, <3>4, WalkLeads
      <4>2. Low(m, page).user => Opened(m, page) /\ Opened(n, page)
        BY <1>3, <2>2, <4>1 DEF UserOpen
      <4>3. Opened(m, page) \in BOOLEAN /\ Opened(n, page) \in BOOLEAN
        BY DEF Opened
      <4>4. (Opened(n, page) /\ Low(m, page).user) = (Opened(m, page) /\ Low(m, page).user)
        BY <4>2
      <4>5. QED
        BY <3>1, <3>2, <4>4
    <3>5. QED
      BY <3>3, <3>4
  <2>3. QED
    BY <2>1, <2>2
<1>11. QED
  BY <1>5, <1>7, <1>8, <1>9, <1>10 DEF Reached
(* The fields of a changed state.                                          *)
LEMMA Excepts ==
  ASSUME NEW k, Fields(k), NEW v, NEW n
  PROVE  /\ n = [k EXCEPT !.mem = v] =>
              /\ Fields(n) /\ n.mem = v /\ n.used = k.used /\ n.tlb = k.tlb
              /\ n.heap_end = k.heap_end /\ n.status = k.status /\ n.ptr = k.ptr
         /\ n = [k EXCEPT !.used = v] =>
              /\ Fields(n) /\ n.mem = k.mem /\ n.used = v /\ n.tlb = k.tlb
              /\ n.heap_end = k.heap_end /\ n.status = k.status /\ n.ptr = k.ptr
         /\ n = [k EXCEPT !.tlb = v] =>
              /\ Fields(n) /\ n.mem = k.mem /\ n.used = k.used /\ n.tlb = v
              /\ n.heap_end = k.heap_end /\ n.status = k.status /\ n.ptr = k.ptr
         /\ n = [k EXCEPT !.heap_end = v] =>
              /\ Fields(n) /\ n.mem = k.mem /\ n.used = k.used /\ n.tlb = k.tlb
              /\ n.heap_end = v /\ n.status = k.status /\ n.ptr = k.ptr
         /\ n = [k EXCEPT !.status = v] =>
              /\ Fields(n) /\ n.mem = k.mem /\ n.used = k.used /\ n.tlb = k.tlb
              /\ n.heap_end = k.heap_end /\ n.status = v /\ n.ptr = k.ptr
         /\ n = [k EXCEPT !.ptr = v] =>
              /\ Fields(n) /\ n.mem = k.mem /\ n.used = k.used /\ n.tlb = k.tlb
              /\ n.heap_end = k.heap_end /\ n.status = k.status /\ n.ptr = v
<1> DEFINE a == k.mem
           b == k.used
           c == k.tlb
           d == k.heap_end
           e == k.status
           f == k.ptr
<1>1. k = [mem |-> a, used |-> b, tlb |-> c, heap_end |-> d, status |-> e, ptr |-> f]
  BY DEF Fields
<1> HIDE DEF a, b, c, d, e, f
<1>2. /\ [k EXCEPT !.mem = v] = [mem |-> v, used |-> b, tlb |-> c, heap_end |-> d, status |-> e, ptr |-> f]
      /\ [k EXCEPT !.used = v] = [mem |-> a, used |-> v, tlb |-> c, heap_end |-> d, status |-> e, ptr |-> f]
      /\ [k EXCEPT !.tlb = v] = [mem |-> a, used |-> b, tlb |-> v, heap_end |-> d, status |-> e, ptr |-> f]
  BY <1>1
<1>3. /\ [k EXCEPT !.heap_end = v] = [mem |-> a, used |-> b, tlb |-> c, heap_end |-> v, status |-> e, ptr |-> f]
      /\ [k EXCEPT !.status = v] = [mem |-> a, used |-> b, tlb |-> c, heap_end |-> d, status |-> v, ptr |-> f]
      /\ [k EXCEPT !.ptr = v] = [mem |-> a, used |-> b, tlb |-> c, heap_end |-> d, status |-> e, ptr |-> v]
  BY <1>1
<1>4. QED
  BY <1>2, <1>3 DEF Fields, a, b, c, d, e, f

(* A frame lies where the tables can lead.                                 *)
LEMMA FramesFit ==
  ASSUME NEW k, Sizes(k)
  PROVE  /\ frames \in Nat /\ frames <= FANOUT * FANOUT * FANOUT * FANOUT
         /\ \A t \in k.used \cup BootTables \cup {0} :
              t \in Nat /\ t < FANOUT * FANOUT * FANOUT * FANOUT
         /\ \A t \in k.used : t >= FIRST_FREE /\ t # 0
         /\ \A t \in Reach : t \in Nat /\ t < FANOUT * FANOUT * FANOUT * FANOUT
<1> DEFINE E == FANOUT * FANOUT * FANOUT * FANOUT
           R == FANOUT * FANOUT
<1>1. MemorySizes \subseteq 0..E
  BY VmmAssumption, Zenon
<1>2. E \in Nat /\ R \in Nat /\ R <= E
  <2>1. R \in Nat /\ R >= 1 /\ E = R * R
    <3>1. R \in Nat /\ E = R * R
      BY FanoutIs
    <3>2. R >= 1
      <4>1. PICK d \in Nat : FANOUT = 1 + d
        <5>1. FANOUT - 1 \in Nat /\ FANOUT = 1 + (FANOUT - 1)
          BY FanoutIs
        <5>2. QED
          BY <5>1
      <4>2. R = (1 + d) * (1 + d) /\ (1 + d) * (1 + d) = 1 + d + d + d * d /\ d * d \in Nat
        BY <4>1
      <4>3. QED
        BY <4>2, <4>1
    <3>3. QED
      BY <3>1, <3>2
  <2> HIDE DEF R, E
  <2>2. PICK d \in Nat : R = 1 + d
    <3>1. R - 1 \in Nat /\ R = 1 + (R - 1)
      BY <2>1
    <3>2. QED
      BY <3>1
  <2>3. R * (1 + d) = R + R * d /\ R * d \in Nat
    BY <2>1
  <2>4. QED
    BY <2>1, <2>2, <2>3
<1>3. frames \in 0..E
  BY <1>1, Zenon DEF Sizes
<1>4. \A t \in Reach : t \in Nat /\ t < R
  BY <1>2 DEF Reach
<1> HIDE DEF E, R
<1>5. \A t \in k.used : t \in Nat /\ t >= FIRST_FREE /\ t < frames /\ t # 0
  BY <1>2, <1>3, Places, FanoutIs DEF Sizes
<1>6. 0 < R /\ \A t \in BootTables : t \in Nat /\ t < R
  <2>1. BootTables \cup {0} \subseteq Reach
    BY TablePlaces, Places
  <2>2. QED
    BY <1>4, <2>1
<1>7. QED
  BY <1>2, <1>3, <1>4, <1>5, <1>6 DEF E

(* What the processor finds for a page is what its tables say.             *)
LEMMA TargetIs ==
  ASSUME NEW k, Coherent(k.mem, k.tlb), NEW page \in Nat
  PROVE  Target(k, page) = Walk(k.mem, page)
BY DEF Target, Coherent

(* A page leads to itself where memory is mapped to itself, and otherwise  *)
(* to a frame that is no table.                                            *)
LEMMA WhereTo ==
  ASSUME NEW k, NEW D, KInv(k, D), NEW page \in Nat,
         page < FANOUT * FANOUT * FANOUT * FANOUT, Leads(Walk(k.mem, page))
  PROVE  /\ page \in Reach /\ Serves(k.mem, page) /\ Walk(k.mem, page).frame = Low(k.mem, page).frame
         /\ \/ page \in Identity \ Taken /\ Walk(k.mem, page).frame = page
            \/ page \in Taken \ D /\ Walk(k.mem, page).frame = page
            \/ page \in D /\ Walk(k.mem, page).frame \in k.used \ Made(k.mem)
<1>1. Shape(k.mem) /\ Kinds(k.mem, k.used, D)
  BY DEF KInv
<1>2. page \in Reach /\ Serves(k.mem, page) /\ Walk(k.mem, page).frame = Low(k.mem, page).frame
  BY <1>1, WalkLeads
<1>3. CASE page \in Identity \ Taken
  <2>1. Walk(k.mem, page) = [frame |-> page, user |-> FALSE]
    BY <1>1, <1>3, WalkIdentity
  <2>2. QED
    BY <1>2, <1>3, <2>1
<1>4. CASE page \notin Identity \ Taken
  <2>1. Kind(k.mem, k.used, D, page)
    BY <1>1, <1>2, <1>4 DEF Kinds, Movable, Serves
  <2>2. Low(k.mem, page).present /\ Low(k.mem, page).frame >= 0
    BY <1>2 DEF Serves
  <2>3. Low(k.mem, page) # Zero /\ Low(k.mem, page) # Junk
    BY <2>2, CellKinds
  <2>4. Entry(page, FALSE).frame = page
    BY DEF Entry
  <2>5. QED
    BY <1>2, <2>1, <2>3, <2>4 DEF Kind
<1>5. QED
  BY <1>3, <1>4
(* The frames of the pages of D are in use, and none is a table.           *)
LEMMA HeldUsed ==
  ASSUME NEW k, NEW D, KInv(k, D)
  PROVE  /\ Held(k.mem, D) \subseteq k.used \ Made(k.mem)
         /\ \A page \in D : page \in Reach /\ page \in Nat /\ page \notin Identity \ Taken
         /\ \A page \in D : Serves(k.mem, page) => Low(k.mem, page).frame \in k.used \ Made(k.mem)
<1>1. \A page \in D : page \in Reach /\ page \in Nat /\ page \notin Identity \ Taken
  BY Places DEF KInv, Movable
<1>2. ASSUME NEW page \in D, Serves(k.mem, page)
      PROVE  Low(k.mem, page).frame \in k.used \ Made(k.mem)
  <2>1. Kind(k.mem, k.used, D, page)
    BY <1>1, <1>2 DEF KInv, Kinds, Movable, Serves
  <2>2. Low(k.mem, page) # Zero /\ Low(k.mem, page) # Junk
    BY <1>2, CellKinds DEF Serves
  <2>3. QED
    BY <2>1, <2>2 DEF Kind
<1>3. QED
  BY <1>1, <1>2 DEF Held

(* A step that changes the tables no more than in who may use them, hands  *)
(* out frames, or stops for a table out of reach, keeps the invariant.     *)
LEMMA KInvLike ==
  ASSUME NEW k, NEW D, KInv(k, D), NEW n, Fields(n), Sizes(n), Shape(n.mem),
         Like(k.mem, n.mem), k.used \subseteq n.used, n.tlb = k.tlb,
         n.status # "up" =>
           /\ n.status \in {"fault", "wild"}
           /\ \E t \in n.used \ Held(k.mem, D) : ~Reached(k.mem, t)
  PROVE  KInv(n, D)
<1>1. /\ Shape(k.mem) /\ UserOpen(k.mem) /\ D \subseteq Movable /\ TablesMade(k.mem, k.used)
      /\ Kinds(k.mem, k.used, D) /\ HeldOnce(k.mem, D) /\ Coherent(k.mem, k.tlb)
  BY DEF KInv
<1> DEFINE E == FANOUT * FANOUT * FANOUT * FANOUT
<1>2. /\ Made(n.mem) = Made(k.mem)
      /\ \A page \in Reach : Serves(n.mem, page) = Serves(k.mem, page)
      /\ \A S \in SUBSET Reach : Held(n.mem, S) = Held(k.mem, S)
      /\ UserOpen(n.mem)
      /\ \A page \in Nat : page < E =>
           /\ Walk(n.mem, page).frame = Walk(k.mem, page).frame
           /\ Reached(n.mem, page) = Reached(k.mem, page)
           /\ Leads(Walk(k.mem, page)) => Walk(n.mem, page) = Walk(k.mem, page)
  BY <1>1, LikeViews
<1>3. /\ \A i \in Index : Dir(n.mem, i).present = Dir(k.mem, i).present
                          /\ Dir(n.mem, i).frame = Dir(k.mem, i).frame
      /\ \A page \in Reach : Dir(k.mem, Hi(page)).present => Low(n.mem, page) = Low(k.mem, page)
  BY Zenon DEF Like
<1>4. Upper \subseteq Index
  BY FanoutIs DEF Upper, Index
<1>5. \A page \in Reach : page \in Nat /\ Hi(page) \in Index /\ page < E
  BY Indexes, Places, FramesFit
<1>6. D \subseteq Reach /\ Movable \subseteq Reach
  BY <1>1 DEF Movable
<1> HIDE DEF E
<1>7. TablesMade(n.mem, n.used)
  <2>1. Made(n.mem) \subseteq n.used \cup {0}
    BY <1>1, <1>2 DEF TablesMade
  <2>2. QED
    BY <1>1, <1>3, <1>4, <2>1 DEF TablesMade
<1>8. Kinds(n.mem, n.used, D)
  <2> SUFFICES ASSUME NEW page \in Movable, Dir(n.mem, Hi(page)).present
               PROVE  Kind(n.mem, n.used, D, page)
    BY Zenon DEF Kinds
  <2>1. page \in Reach /\ Hi(page) \in Index
    BY <1>5, <1>6
  <2>2. Dir(k.mem, Hi(page)).present /\ Dir(n.mem, Hi(page)).frame = Dir(k.mem, Hi(page)).frame
        /\ Low(n.mem, page) = Low(k.mem, page)
    BY <1>3, <2>1
  <2>3. Kind(k.mem, k.used, D, page)
    BY <1>1, <2>2 DEF Kinds
  <2>4. ASSUME Low(k.mem, page) = Junk, ~Reached(k.mem, Dir(k.mem, Hi(page)).frame)
        PROVE  ~Reached(n.mem, Dir(k.mem, Hi(page)).frame)
    <3>1. Dir(k.mem, Hi(page)).frame \in Made(k.mem) \cup BootTables
      <4>1. CASE Hi(page) \in Upper
        BY <2>2, <4>1 DEF Made
      <4>2. CASE Hi(page) \notin Upper
        <5>1. Hi(page) \in 0..(BOOT_L1 - 1)
          BY <2>1, <4>2, FanoutIs DEF Upper, Index
        <5>2. QED
          BY <1>1, <5>1, TablePlaces DEF Shape
      <4>3. QED
        BY <4>1, <4>2
    <3>2. Dir(k.mem, Hi(page)).frame \in k.used \cup {0} \cup BootTables
      BY <1>1, <3>1 DEF TablesMade
    <3>3. Sizes(k)
      BY DEF KInv
    <3>4. Dir(k.mem, Hi(page)).frame \in Nat /\ Dir(k.mem, Hi(page)).frame < E
      BY <3>2, <3>3, FramesFit DEF E
    <3>5. QED
      BY <1>2, <2>4, <3>4
  <2>5. QED
    BY <1>2, <2>2, <2>3, <2>4 DEF Kind
<1>9. HeldOnce(n.mem, D)
  <2>1. \A p \in D : Serves(n.mem, p) = Serves(k.mem, p)
    BY <1>2, <1>6
  <2>2. \A p \in D : Serves(k.mem, p) => Low(n.mem, p) = Low(k.mem, p)
    BY <1>3, <1>6 DEF Serves
  <2>3. QED
    BY <1>1, <2>1, <2>2 DEF HeldOnce
<1>10. Coherent(n.mem, n.tlb)
  <2>1. \A page \in DOMAIN k.tlb : page \in Nat /\ page < E
    <3>1. Cached \subseteq Pages
      BY VmmAssumption, Zenon
    <3>2. QED
      BY <1>1, <1>5, <3>1, Places DEF Coherent
  <2>2. QED
    BY <1>1, <1>2, <2>1 DEF Coherent
<1>11. Stopped(n, D)
  <2>1. Held(n.mem, D) = Held(k.mem, D)
    BY <1>2, <1>6
  <2>2. \A t \in n.used : Reached(n.mem, t) = Reached(k.mem, t)
    BY <1>2, FramesFit DEF E
  <2>3. QED
    BY <2>1, <2>2 DEF Stopped
<1>12. QED
  BY <1>1, <1>2, <1>7, <1>8, <1>9, <1>10, <1>11 DEF KInv

(* And what such a step hands out has no use yet.                          *)
LEMMA AccountsLike ==
  ASSUME NEW k, NEW D, KInv(k, D), NEW n, Sizes(n), Shape(n.mem),
         Like(k.mem, n.mem), k.used \subseteq n.used, n.status = "up" => k.status = "up"
  PROVE  /\ Loose(n, D) = Loose(k, D) \cup (n.used \ k.used)
         /\ \A X : Accounts(k, D, X) => Accounts(n, D, X \cup (n.used \ k.used))
         /\ InReach(n.mem) = InReach(k.mem)
<1>1. Shape(k.mem) /\ UserOpen(k.mem) /\ D \subseteq Reach /\ TablesMade(k.mem, k.used) /\ Sizes(k)
  BY DEF KInv, Movable
<1>2. /\ Made(n.mem) = Made(k.mem)
      /\ \A page \in Reach : Serves(n.mem, page) = Serves(k.mem, page)
      /\ \A S \in SUBSET Reach : Held(n.mem, S) = Held(k.mem, S)
      /\ \A page \in Nat : page < FANOUT * FANOUT * FANOUT * FANOUT =>
           Reached(n.mem, page) = Reached(k.mem, page)
  BY <1>1, LikeViews
<1>3. Made(k.mem) \subseteq k.used \cup {0} /\ Held(k.mem, D) \subseteq k.used /\ 0 \notin n.used
  BY <1>1, HeldUsed, FramesFit DEF TablesMade
<1>4. Held(n.mem, D) = Held(k.mem, D)
  BY <1>1, <1>2
<1>5. InReach(n.mem) = InReach(k.mem)
  BY <1>1, <1>2, <1>3, FramesFit DEF InReach
<1>6. Loose(n, D) = Loose(k, D) \cup (n.used \ k.used)
  BY <1>2, <1>3, <1>4 DEF Loose
<1>7. ASSUME NEW X, Accounts(k, D, X)
      PROVE  Accounts(n, D, X \cup (n.used \ k.used))
  <2> SUFFICES ASSUME n.status = "up", InReach(n.mem)
               PROVE  (\A page \in D : Serves(n.mem, page)) /\ Loose(n, D) = X \cup (n.used \ k.used)
    BY Zenon DEF Accounts
  <2>1. (\A page \in D : Serves(k.mem, page)) /\ Loose(k, D) = X
    BY <1>5, <1>7 DEF Accounts
  <2>2. QED
    BY <1>1, <1>2, <1>6, <2>1
<1>8. QED
  BY <1>5, <1>6, <1>7
-----------------------------------------------------------------------------
(* Loads and stores.                                                       *)

(* Tables of which m and n have the same.                                  *)
Agree(m, n) ==
  /\ Typed(n)
  /\ \A t \in BootTables \cup Made(m) :
       /\ (t \in DOMAIN n) = (t \in DOMAIN m)
       /\ t \in DOMAIN m => n[t] = m[t]

Patched(m, n, f, row) ==
  /\ DOMAIN n = DOMAIN m \cup {f}
  /\ n[f] = row
  /\ \A t \in DOMAIN m \ {f} : n[t] = m[t]

(* The three things that become of a store.                                *)
Others(k, n) == n.used = k.used /\ n.tlb = k.tlb /\ n.heap_end = k.heap_end /\ n.ptr = k.ptr

Halts(k, n) == Fields(n) /\ Others(k, n) /\ n.mem = k.mem /\ n.status \in {"fault", "wild"}

Puts(k, n, f, row) ==
  Fields(n) /\ Others(k, n) /\ n.status = k.status /\ Patched(k.mem, n.mem, f, row)

Misses(k, n) ==
  /\ Fields(n) /\ Others(k, n) /\ n.status = k.status
  /\ DOMAIN n.mem = DOMAIN k.mem /\ \A t \in DOMAIN k.mem : n.mem[t] = k.mem[t]

(* Where memory is written that is no table, the tables are as they were.  *)
LEMMA AgreeLike ==
  ASSUME NEW m, NEW n, Shape(m), Agree(m, n)
  PROVE  Shape(n) /\ Like(m, n)
<1>1. \A t \in BootTables : t \in DOMAIN m /\ t \in DOMAIN n /\ n[t] = m[t]
  BY DEF Shape, Agree
<1>2. L4 \in BootTables /\ L3 \in BootTables /\ L2 \in BootTables
  BY DEF BootTables
<1>3. \A i : Dir(n, i) = Dir(m, i)
  BY <1>1, <1>2 DEF Dir
<1>4. Shape(n)
  <2>1. Typed(n) /\ BootTables \subseteq DOMAIN n
    BY <1>1 DEF Agree
  <2>2. \A page \in Identity \ Taken : L1(Hi(page)) \in BootTables
    BY Places, HiLo, TablePlaces, FanoutIs
  <2>3. \A page \in Identity \ Taken : n[L1(Hi(page))][Lo(page)] = Entry(page, FALSE)
    BY <1>1, <2>2 DEF Shape
  <2>4. /\ n[L4][0].present /\ n[L4][0].frame = L3
        /\ n[L3][0].present /\ n[L3][0].frame = L2
        /\ \A i \in Index \ {0} : n[L4][i] = Zero /\ n[L3][i] = Zero
    BY <1>1, <1>2 DEF Shape
  <2>5. \A i \in 0..(BOOT_L1 - 1) : Dir(n, i).present /\ Dir(n, i).frame = L1(i)
    BY <1>3 DEF Shape
  <2>6. QED
    BY <2>1, <2>3, <2>4, <2>5 DEF Shape
<1>5. ASSUME NEW page \in Reach, Dir(m, Hi(page)).present
      PROVE  Low(n, page) = Low(m, page)
  <2> DEFINE t == Dir(m, Hi(page)).frame
  <2>1. t \in BootTables \cup Made(m)
    <3>1. Hi(page) \in Index
      BY Indexes, Places
    <3>2. CASE Hi(page) \in Upper
      BY <1>5, <3>2 DEF Made
    <3>3. CASE Hi(page) \notin Upper
      <4>1. Hi(page) \in 0..(BOOT_L1 - 1)
        BY <3>1, <3>3, FanoutIs DEF Upper, Index
      <4>2. QED
        BY <4>1, TablePlaces DEF Shape
    <3>4. QED
      BY <3>2, <3>3
  <2>2. (t \in DOMAIN n) = (t \in DOMAIN m) /\ (t \in DOMAIN m => n[t] = m[t])
    BY <2>1 DEF Agree
  <2>3. Cell(n, t, Lo(page)) = Cell(m, t, Lo(page))
    BY <2>2 DEF Cell
  <2>4. QED
    BY <1>3, <2>3 DEF Low
<1>6. \A page \in Reach : Opened(m, page) => Opened(n, page)
  BY <1>1, <1>2, <1>3 DEF Opened
<1>7. QED
  BY <1>3, <1>4, <1>5, <1>6 DEF Like

(* A page outside the tables can be rewritten.                             *)
LEMMA PatchAgrees ==
  ASSUME NEW m, NEW n, Shape(m), NEW f \in Nat, f \notin BootTables \cup Made(m),
         NEW row \in [Index -> Cells], Patched(m, n, f, row)
  PROVE  Agree(m, n)
<1>1. Typed(n)
  BY DEF Shape, Typed, Patched
<1>2. \A t \in BootTables \cup Made(m) : (t \in DOMAIN n) = (t \in DOMAIN m) /\ (t \in DOMAIN m => n[t] = m[t])
  BY DEF Patched
<1>3. QED
  BY <1>1, <1>2 DEF Agree

(* Writing through a pointer.                                              *)
LEMMA WriteIs ==
  ASSUME NEW k, Fields(k), Coherent(k.mem, k.tlb), NEW page \in Nat, NEW rows
  PROVE  LET n == Write(k, page, rows)
         IN /\ k.status # "up" => n = k
            /\ k.status = "up" /\ ~Leads(Walk(k.mem, page)) => Halts(k, n)
            /\ k.status = "up" /\ Leads(Walk(k.mem, page)) =>
                 Fields(n) /\ Others(k, n) /\ n.status = k.status /\ n.mem = Over(k.mem, rows)
<1> DEFINE n == Write(k, page, rows)
<1>1. Target(k, page) = Walk(k.mem, page)
  BY TargetIs
<1>2. k.status # "up" => n = k
  BY DEF Write, Reaches, Touch
<1>3. ASSUME k.status = "up", Leads(Walk(k.mem, page))
      PROVE  Fields(n) /\ Others(k, n) /\ n.status = k.status /\ n.mem = Over(k.mem, rows)
  <2> DEFINE v == Over(k.mem, rows)
  <2>1. n = [k EXCEPT !.mem = v]
    BY <1>1, <1>3 DEF Write, Reaches
  <2> HIDE DEF v, n
  <2>2. Fields(n) /\ Others(k, n) /\ n.status = k.status /\ n.mem = v
    BY <2>1, Excepts DEF Others
  <2>3. QED
    BY <2>2 DEF v
<1>4. ASSUME k.status = "up", ~Leads(Walk(k.mem, page))
      PROVE  Halts(k, n)
  <2> DEFINE s == IF Target(k, page) = Unmapped THEN "fault" ELSE "wild"
  <2>1. n = [k EXCEPT !.status = s]
    BY <1>1, <1>4 DEF Write, Reaches, Touch
  <2>2. s \in {"fault", "wild"}
    OBVIOUS
  <2> HIDE DEF s, n
  <2>3. Fields(n) /\ Others(k, n) /\ n.status = s /\ n.mem = k.mem
    BY <2>1, Excepts DEF Others
  <2>4. QED
    BY <2>2, <2>3 DEF Halts
<1> HIDE DEF n
<1>5. QED
  BY <1>2, <1>3, <1>4 DEF n

(* Storing an entry.                                                       *)
LEMMA StoreIs ==
  ASSUME NEW k, Fields(k), Coherent(k.mem, k.tlb), NEW page \in Nat, NEW i, NEW cell
  PROVE  LET n == Store(k, page, i, cell)
             f == Walk(k.mem, page).frame
         IN /\ k.status # "up" => n = k
            /\ k.status = "up" /\ ~Leads(Walk(k.mem, page)) => Halts(k, n)
            /\ k.status = "up" /\ Leads(Walk(k.mem, page)) /\ f \in DOMAIN k.mem =>
                 Puts(k, n, f, [k.mem[f] EXCEPT ![i] = cell])
            /\ k.status = "up" /\ Leads(Walk(k.mem, page)) /\ f \notin DOMAIN k.mem => Misses(k, n)
<1> DEFINE m == k.mem
           f == Walk(k.mem, page).frame
           row == [m[f] EXCEPT ![i] = cell]
           rows == [t \in {f} \cap DOMAIN m |-> [m[t] EXCEPT ![i] = cell]]
           n == Store(k, page, i, cell)
<1>1. Target(k, page) = Walk(k.mem, page)
  BY TargetIs
<1>2. n = Write(k, page, rows)
  BY <1>1 DEF Store
<1>3. f \in DOMAIN m => Patched(m, Over(m, rows), f, row)
  <2> HIDE DEF m, f
  <2>1. f \in DOMAIN m => DOMAIN rows = {f} /\ rows[f] = row
    OBVIOUS
  <2> HIDE DEF row, rows
  <2>2. QED
    BY <2>1 DEF Over, Patched
<1>4. f \notin DOMAIN m =>
        /\ DOMAIN Over(m, rows) = DOMAIN m
        /\ \A t \in DOMAIN m : Over(m, rows)[t] = m[t]
  <2> HIDE DEF m, f
  <2>1. f \notin DOMAIN m => DOMAIN rows = {}
    OBVIOUS
  <2> HIDE DEF rows
  <2>2. QED
    BY <2>1 DEF Over
<1> HIDE DEF f, row, rows, n
<1>5. /\ k.status # "up" => n = k
      /\ k.status = "up" /\ ~Leads(Walk(k.mem, page)) => Halts(k, n)
      /\ k.status = "up" /\ Leads(Walk(k.mem, page)) =>
           Fields(n) /\ Others(k, n) /\ n.status = k.status /\ n.mem = Over(k.mem, rows)
  BY <1>2, WriteIs
<1>6. k.status = "up" /\ Leads(Walk(k.mem, page)) /\ f \in DOMAIN m => Puts(k, n, f, row)
  BY <1>3, <1>5 DEF Puts
<1>7. k.status = "up" /\ Leads(Walk(k.mem, page)) /\ f \notin DOMAIN m => Misses(k, n)
  BY <1>4, <1>5 DEF Misses
<1>8. QED
  BY <1>5, <1>6, <1>7 DEF f, row, n

(* Clearing a page.                                                        *)
LEMMA ClearIs ==
  ASSUME NEW k, Fields(k), Coherent(k.mem, k.tlb), NEW page \in Nat
  PROVE  LET n == Clear(k, page)
         IN /\ k.status # "up" => n = k
            /\ k.status = "up" /\ ~Leads(Walk(k.mem, page)) => Halts(k, n)
            /\ k.status = "up" /\ Leads(Walk(k.mem, page)) =>
                 Puts(k, n, Walk(k.mem, page).frame, [i \in Index |-> Zero])
<1> DEFINE m == k.mem
           f == Walk(k.mem, page).frame
           row == [i \in Index |-> Zero]
           rows == [t \in {f} |-> row]
           n == Clear(k, page)
<1>1. Target(k, page) = Walk(k.mem, page)
  BY TargetIs
<1>2. n = Write(k, page, rows)
  BY <1>1 DEF Clear
<1>3. Patched(m, Over(m, rows), f, row)
  <2> HIDE DEF m, f, row
  <2>1. DOMAIN rows = {f} /\ rows[f] = row
    OBVIOUS
  <2> HIDE DEF rows
  <2>2. QED
    BY <2>1 DEF Over, Patched
<1> HIDE DEF f, row, rows, n
<1>4. /\ k.status # "up" => n = k
      /\ k.status = "up" /\ ~Leads(Walk(k.mem, page)) => Halts(k, n)
      /\ k.status = "up" /\ Leads(Walk(k.mem, page)) =>
           Fields(n) /\ Others(k, n) /\ n.status = k.status /\ n.mem = Over(k.mem, rows)
  BY <1>2, WriteIs
<1>5. k.status = "up" /\ Leads(Walk(k.mem, page)) => Puts(k, n, f, row)
  BY <1>3, <1>4 DEF Puts
<1>6. QED
  BY <1>4, <1>5 DEF f, row, n
-----------------------------------------------------------------------------
(* Steps that leave the tables alone.                                      *)

(* Where boot maps memory to itself, everything can be reached.            *)
LEMMA BootReached ==
  ASSUME NEW m, Shape(m), NEW t \in Identity \ Taken
  PROVE  Reached(m, t)
<1>1. Walk(m, t) = [frame |-> t, user |-> FALSE]
  BY WalkIdentity
<1>2. QED
  BY <1>1 DEF Reached

(* A table out of reach is a frame in use, and no page's.                  *)
LEMMA OutOfReach ==
  ASSUME NEW k, NEW D, KInv(k, D)
  PROVE  /\ \A t \in Made(k.mem) : ~Reached(k.mem, t) => t \in k.used \ Held(k.mem, D)
         /\ ~InReach(k.mem) => \E t \in k.used \ Held(k.mem, D) : ~Reached(k.mem, t)
<1>1. Reached(k.mem, 0)
  BY TablePlaces, BootReached DEF KInv
<1>2. Made(k.mem) \subseteq k.used \cup {0}
  BY DEF KInv, TablesMade
<1>3. \A t \in Made(k.mem) : ~Reached(k.mem, t) => t \in k.used \ Held(k.mem, D)
  BY <1>1, <1>2, HeldUsed
<1>4. QED
  BY <1>3 DEF InReach

(* A store that halts the machine, for a table out of reach.               *)
LEMMA HaltKeeps ==
  ASSUME NEW k, NEW D, KInv(k, D), NEW n, Halts(k, n),
         \E t \in k.used \ Held(k.mem, D) : ~Reached(k.mem, t)
  PROVE  KInv(n, D) /\ Like(k.mem, n.mem)
<1>1. n.mem = k.mem /\ n.used = k.used /\ n.tlb = k.tlb /\ Fields(n) /\ n.status \in {"fault", "wild"}
  BY DEF Halts, Others
<1>2. Like(k.mem, n.mem)
  BY <1>1 DEF Like
<1>3. Sizes(n)
  BY <1>1 DEF KInv, Sizes, Free
<1>4. Shape(n.mem)
  BY <1>1 DEF KInv
<1>5. QED
  BY <1>1, <1>2, <1>3, <1>4, KInvLike

(* A store to a page that no cells are kept of.                            *)
LEMMA MissKeeps ==
  ASSUME NEW k, NEW D, KInv(k, D), NEW n, Misses(k, n)
  PROVE  KInv(n, D) /\ Like(k.mem, n.mem)
<1>1. /\ Fields(n) /\ n.used = k.used /\ n.tlb = k.tlb /\ n.status = k.status
      /\ DOMAIN n.mem = DOMAIN k.mem /\ \A t \in DOMAIN k.mem : n.mem[t] = k.mem[t]
  BY DEF Misses, Others
<1>2. Shape(k.mem)
  BY DEF KInv
<1>3. Agree(k.mem, n.mem)
  BY <1>1, <1>2 DEF Agree, Shape, Typed
<1>4. Shape(n.mem) /\ Like(k.mem, n.mem)
  BY <1>2, <1>3, AgreeLike
<1>5. Made(n.mem) = Made(k.mem)
  BY <1>2, <1>4, LikeViews DEF KInv
<1>6. Sizes(n)
  BY <1>1, <1>5 DEF KInv, Sizes, Free
<1>7. QED
  BY <1>1, <1>4, <1>6, KInvLike DEF KInv, Stopped

(* A store to a page of some use other than as a table.                    *)
LEMMA PutKeeps ==
  ASSUME NEW k, NEW D, KInv(k, D), NEW f \in k.used \cup {0}, f \notin Made(k.mem),
         NEW row \in [Index -> Cells], NEW n, Puts(k, n, f, row)
  PROVE  KInv(n, D) /\ Like(k.mem, n.mem)
<1>1. /\ Fields(n) /\ n.used = k.used /\ n.tlb = k.tlb /\ n.status = k.status
      /\ Patched(k.mem, n.mem, f, row)
  BY DEF Puts, Others
<1>2. Shape(k.mem) /\ Sizes(k)
  BY DEF KInv
<1>3. f \in Nat /\ f \notin BootTables
  <2>1. f \in Nat
    BY <1>2, FramesFit
  <2>2. f = 0 \/ f >= FIRST_FREE
    BY <1>2, FramesFit
  <2>3. FIRST_FREE \in Nat /\ 0 \notin BootTables /\ \A t \in BootTables : t < FIRST_FREE
    BY TablePlaces, Places
  <2>4. f < FIRST_FREE => ~(f >= FIRST_FREE)
    BY <2>1, <2>3
  <2>5. QED
    BY <2>1, <2>2, <2>3, <2>4
<1>4. Shape(n.mem) /\ Like(k.mem, n.mem)
  BY <1>1, <1>2, <1>3, PatchAgrees, AgreeLike
<1>5. Made(n.mem) = Made(k.mem)
  BY <1>2, <1>4, LikeViews DEF KInv
<1>6. DOMAIN n.mem = DOMAIN k.mem \cup {f}
  BY <1>1 DEF Patched
<1>7. Sizes(n)
  BY <1>1, <1>2, <1>5, <1>6 DEF Sizes, Free
<1>8. QED
  BY <1>1, <1>4, <1>7, KInvLike DEF KInv, Stopped

(* A store through a page that leads to no table.                          *)
LEMMA StoreAway ==
  ASSUME NEW k, NEW D, KInv(k, D), NEW page \in Nat, NEW i \in Index, NEW cell \in Cells,
         Leads(Walk(k.mem, page)) => Walk(k.mem, page).frame \in k.used \ Made(k.mem),
         k.status = "up" /\ ~Leads(Walk(k.mem, page)) =>
           \E t \in k.used \ Held(k.mem, D) : ~Reached(k.mem, t)
  PROVE  LET n == Store(k, page, i, cell)
         IN /\ KInv(n, D) /\ Like(k.mem, n.mem) /\ Others(k, n)
            /\ n.status = k.status \/ (~Leads(Walk(k.mem, page)) /\ n.status # "up")
<1> DEFINE n == Store(k, page, i, cell)
           f == Walk(k.mem, page).frame
           row == [k.mem[f] EXCEPT ![i] = cell]
<1>1. Fields(k) /\ Coherent(k.mem, k.tlb) /\ Shape(k.mem)
  BY DEF KInv
<1>2. /\ k.status # "up" => n = k
      /\ k.status = "up" /\ ~Leads(Walk(k.mem, page)) => Halts(k, n)
      /\ k.status = "up" /\ Leads(Walk(k.mem, page)) /\ f \in DOMAIN k.mem => Puts(k, n, f, row)
      /\ k.status = "up" /\ Leads(Walk(k.mem, page)) /\ f \notin DOMAIN k.mem => Misses(k, n)
  BY <1>1, StoreIs
<1>3. f \in DOMAIN k.mem => row \in [Index -> Cells]
  BY <1>1 DEF Shape, Typed
<1> HIDE DEF n, row
<1>4. CASE k.status # "up"
  <2>1. n = k
    BY <1>2, <1>4
  <2>2. Others(k, k) /\ Like(k.mem, k.mem)
    BY DEF Others, Like
  <2>3. KInv(n, D) /\ Like(k.mem, n.mem) /\ Others(k, n) /\ n.status = k.status
    BY <2>1, <2>2
  <2>4. QED
    BY <2>3 DEF n
<1>5. CASE k.status = "up" /\ ~Leads(Walk(k.mem, page))
  <2>1. KInv(n, D) /\ Like(k.mem, n.mem)
    BY <1>2, <1>5, HaltKeeps
  <2>2. QED
    BY <1>2, <1>5, <2>1 DEF Halts, n
<1>6. CASE k.status = "up" /\ Leads(Walk(k.mem, page)) /\ f \in DOMAIN k.mem
  <2>1. KInv(n, D) /\ Like(k.mem, n.mem)
    BY <1>2, <1>3, <1>6, PutKeeps
  <2>2. QED
    BY <1>2, <1>6, <2>1 DEF Puts, n
<1>7. CASE k.status = "up" /\ Leads(Walk(k.mem, page)) /\ f \notin DOMAIN k.mem
  <2>1. KInv(n, D) /\ Like(k.mem, n.mem)
    BY <1>2, <1>7, MissKeeps
  <2>2. QED
    BY <1>2, <1>7, <2>1 DEF Misses, n
<1>8. QED
  BY <1>4, <1>5, <1>6, <1>7
(* A set of natural numbers has a first one.                               *)
LEMMA Least ==
  ASSUME NEW S \in SUBSET Nat, S # {}
  PROVE  \E m \in S : \A k \in S : m <= k
<1>1. PICK m \in S : \A k \in S : <<k, m>> \notin OpToRel(<, Nat)
  BY NatLessThanWellFounded, WFMin, Zenon
<1>2. \A k \in S : ~(k < m)
  BY <1>1, Zenon DEF OpToRel
<1> QED
  BY <1>2

(* The page that pmm_alloc takes is a free one, or page 0 for none.        *)
LEMMA FreshIs ==
  ASSUME NEW k, Sizes(k)
  PROVE  /\ Free(k) = {} => Fresh(k) = 0
         /\ Free(k) # {} => Fresh(k) \in Free(k)
         /\ Fresh(k) \in Nat /\ Fresh(k) \notin k.used /\ Fresh(k) < FANOUT * FANOUT * FANOUT * FANOUT
         /\ Fresh(k) # 0 => Fresh(k) \in FIRST_FREE..(frames - 1)
<1> DEFINE E == FANOUT * FANOUT * FANOUT * FANOUT
<1>1. frames \in Nat /\ frames <= E /\ 0 < E /\ E \in Nat
  <2>1. frames \in Nat /\ frames <= E /\ 0 < E
    BY FramesFit
  <2>2. QED
    BY <2>1, FanoutIs
<1> HIDE DEF E
<1>2. \A f \in FIRST_FREE..(frames - 1) : f \in Nat /\ f < E /\ f # 0
  BY <1>1, Places, FanoutIs
<1>3. CASE Free(k) = {}
  <2>1. Fresh(k) = 0
    BY <1>3 DEF Fresh
  <2>2. 0 \notin k.used
    BY <1>2 DEF Sizes
  <2>3. QED
    BY <1>1, <1>3, <2>1, <2>2 DEF E
<1>4. CASE Free(k) # {}
  <2>1. Free(k) \in SUBSET Nat
    BY <1>2 DEF Free
  <2>2. \E x \in Free(k) : \A y \in Free(k) : x <= y
    BY <1>4, <2>1, Least
  <2>3. Min(Free(k)) \in Free(k)
    BY <2>2 DEF Min
  <2>4. Fresh(k) \in Free(k)
    BY <1>4, <2>3 DEF Fresh
  <2>5. QED
    BY <1>2, <1>4, <2>4 DEF Free, E
<1>5. QED
  BY <1>3, <1>4

(* A frame taken has no use yet.                                           *)
LEMMA TakeKeeps ==
  ASSUME NEW k, NEW D, KInv(k, D)
  PROVE  LET n == Take(k)
         IN /\ KInv(n, D) /\ Fields(n) /\ n.mem = k.mem /\ n.tlb = k.tlb /\ n.status = k.status
            /\ n.heap_end = k.heap_end /\ n.ptr = k.ptr
            /\ n.used = k.used \cup ({Fresh(k)} \ {0})
            /\ Like(k.mem, n.mem)
<1> DEFINE n == Take(k)
           v == k.used \cup ({Fresh(k)} \ {0})
<1>1. n = [k EXCEPT !.used = v]
  BY DEF Take
<1>2. Fields(k) /\ Sizes(k) /\ Shape(k.mem)
  BY DEF KInv
<1> HIDE DEF v, n
<1>3. /\ Fields(n) /\ n.mem = k.mem /\ n.used = v /\ n.tlb = k.tlb
      /\ n.heap_end = k.heap_end /\ n.status = k.status /\ n.ptr = k.ptr
  BY <1>1, <1>2, Excepts
<1>4. Sizes(n)
  BY <1>2, <1>3, FreshIs DEF Sizes, Free, v
<1>5. Like(k.mem, n.mem)
  BY <1>3 DEF Like
<1>6. KInv(n, D)
  <2>1. k.used \subseteq n.used
    BY <1>3 DEF v
  <2>2. QED
    BY <1>2, <1>3, <1>4, <1>5, <2>1, KInvLike DEF KInv, Stopped
<1>7. QED
  BY <1>3, <1>5, <1>6 DEF v, n

(* Nothing happens any more once the machine has stopped.                  *)
LEMMA DownIs ==
  ASSUME NEW k, k.status # "up", NEW page, NEW i, NEW cell
  PROVE  /\ Store(k, page, i, cell) = k /\ Load(k, page, i) = Junk
         /\ Table(k, i) = k /\ Open(k, i) = k /\ Touch(k, page) = k /\ Invlpg(k, page) = k
<1>1. ~Reaches(k, page) /\ ~Reaches(k, k.ptr)
  BY DEF Reaches
<1>2. Touch(k, page) = k /\ Touch(k, k.ptr) = k
  BY DEF Touch
<1>3. Load(k, page, i) = Junk /\ Load(k, k.ptr, i) = Junk
  BY <1>1 DEF Load
<1>4. \A r : Write(k, page, r) = k /\ Write(k, k.ptr, r) = k
  BY <1>1, <1>2 DEF Write
<1>5. Store(k, page, i, cell) = k /\ Open(k, i) = k
  BY <1>4 DEF Store, Open
<1>6. Table(k, i) = k
  BY <1>3, CellKinds DEF Table
<1>7. Invlpg(k, page) = k
  BY DEF Invlpg
<1>8. QED
  BY <1>2, <1>3, <1>5, <1>6, <1>7

(* An entry of an upper table opened to ring 3, and nothing else changed.  *)
OpenDone(k, n, D, i) ==
  /\ KInv(n, D) /\ Like(k.mem, n.mem) /\ Others(k, n) /\ n.status = "up"
  /\ n.mem[k.ptr][i].user /\ DOMAIN n.mem = DOMAIN k.mem
  /\ \A t \in {L4, L3, L2} : \A j \in Index :
       /\ n.mem[t][j].present = k.mem[t][j].present /\ n.mem[t][j].frame = k.mem[t][j].frame
       /\ k.mem[t][j].user => n.mem[t][j].user

(* What the mapper loads from a table it can reach.                        *)
LEMMA LoadIs ==
  ASSUME NEW k, Coherent(k.mem, k.tlb), k.status = "up", NEW t \in Nat, NEW i
  PROVE  /\ Reached(k.mem, t) => Load(k, t, i) = Cell(k.mem, t, i) /\ Touch(k, t) = k
         /\ ~Leads(Walk(k.mem, t)) => Load(k, t, i) = Junk
         /\ Leads(Walk(k.mem, t)) => Load(k, t, i) = Cell(k.mem, Walk(k.mem, t).frame, i)
<1>1. Target(k, t) = Walk(k.mem, t)
  BY TargetIs
<1>2. Reached(k.mem, t) => Leads(Walk(k.mem, t))
  BY DEF Reached, Leads
<1>3. Reached(k.mem, t) => Walk(k.mem, t).frame = t
  BY DEF Reached
<1>4. QED
  BY <1>1, <1>2, <1>3 DEF Load, Reaches, Touch
(* A new table is all zero if it can be reached; if not, the machine stops *)
(* or clears some other page.                                              *)
LEMMA MakeTableKeeps ==
  ASSUME NEW k, NEW D, KInv(k, D), k.status = "up", Fresh(k) \notin Made(k.mem)
  PROVE  LET n == MakeTable(k)
             f == Fresh(k)
         IN /\ KInv(n, D) /\ Like(k.mem, n.mem) /\ n.ptr = k.ptr /\ n.heap_end = k.heap_end
            /\ n.tlb = k.tlb /\ n.used = k.used \cup ({f} \ {0})
            /\ Reached(k.mem, f) => n.status = "up" /\ f \in DOMAIN n.mem /\ n.mem[f] = [i \in Index |-> Zero]
            /\ ~Reached(k.mem, f) /\ n.status = "up" => f \notin DOMAIN n.mem
            /\ \A t \in BootTables : n.mem[t] = k.mem[t]
<1> DEFINE f == Fresh(k)
           c == Clear(k, f)
           v == Take(k).used
           n == MakeTable(k)
           w == Walk(k.mem, f)
           row == [i \in Index |-> Zero]
<1>1. /\ Fields(k) /\ Coherent(k.mem, k.tlb) /\ Shape(k.mem) /\ Sizes(k) /\ UserOpen(k.mem)
      /\ TablesMade(k.mem, k.used)
  BY DEF KInv
<1>2. f \in Nat /\ f \notin k.used /\ f < FANOUT * FANOUT * FANOUT * FANOUT
      /\ (f # 0 => f \in FIRST_FREE..(frames - 1))
  BY <1>1, FreshIs
<1>3. v = k.used \cup ({f} \ {0})
  BY TakeKeeps
<1>4. /\ k.status = "up" /\ ~Leads(w) => Halts(k, c)
      /\ k.status = "up" /\ Leads(w) => Puts(k, c, w.frame, row)
  BY <1>1, <1>2, ClearIs
<1>5. n = [c EXCEPT !.used = v]
  BY DEF MakeTable
<1>6. Reached(k.mem, f) <=> w.frame = f
  BY DEF Reached
<1>7. Leads(w) <=> w.frame >= 0
  BY DEF Leads
<1>8. Leads(w) /\ w.frame # f => w.frame \in k.used \ Made(k.mem)
  BY <1>1, <1>2, WhereTo
<1>9. row \in [Index -> Cells]
  BY CellKinds
<1>10. Reached(k.mem, 0) /\ 0 \notin BootTables
  BY <1>1, BootReached, TablePlaces
<1>11. f # 0 => f \notin BootTables
  <2>1. FIRST_FREE \in Nat /\ \A t \in BootTables : t < FIRST_FREE
    BY TablePlaces, Places
  <2>2. QED
    BY <1>2, <2>1
<1>12. f \notin k.used \cup BootTables
  BY <1>2, <1>10, <1>11
<1> HIDE DEF f, c, v, n, w, row
<1>13. Fields(c) /\ Others(k, c)
  BY <1>4 DEF Halts, Puts
<1>14. /\ Fields(n) /\ n.used = v /\ n.mem = c.mem /\ n.tlb = k.tlb /\ n.heap_end = k.heap_end
       /\ n.status = c.status /\ n.ptr = k.ptr
  BY <1>5, <1>13, Excepts DEF Others
<1>15. Shape(n.mem) /\ Like(k.mem, n.mem) /\ \A t \in BootTables : n.mem[t] = k.mem[t]
  <2>1. CASE ~Leads(w)
    <3>1. n.mem = k.mem
      BY <1>4, <1>14, <2>1 DEF Halts
    <3>2. QED
      BY <1>1, <3>1 DEF Like
  <2>2. CASE Leads(w)
    <3>1. w.frame = f \/ w.frame \in k.used
      BY <1>8, <2>2
    <3>2. w.frame \in Nat /\ w.frame \notin BootTables \cup Made(k.mem)
      <4>1. CASE w.frame = f
        BY <1>2, <1>10, <1>11, <4>1 DEF f
      <4>2. CASE w.frame # f
        <5>1. w.frame \in k.used \ Made(k.mem)
          BY <1>8, <2>2, <4>2
        <5>2. w.frame \in Nat /\ w.frame >= FIRST_FREE
          BY <1>1, <5>1, FramesFit
        <5>3. FIRST_FREE \in Nat /\ \A t \in BootTables : t < FIRST_FREE
          BY TablePlaces, Places
        <5>4. w.frame < FIRST_FREE => ~(w.frame >= FIRST_FREE)
          BY <5>2, <5>3
        <5>5. QED
          BY <5>1, <5>2, <5>3, <5>4
      <4>3. QED
        BY <4>1, <4>2
    <3>3. Patched(k.mem, n.mem, w.frame, row)
      BY <1>4, <1>14, <2>2 DEF Puts
    <3>4. Agree(k.mem, n.mem)
      BY <1>1, <1>9, <3>2, <3>3, PatchAgrees
    <3>5. Shape(n.mem) /\ Like(k.mem, n.mem)
      BY <1>1, <3>4, AgreeLike
    <3>6. \A t \in BootTables : n.mem[t] = k.mem[t]
      BY <1>1, <3>4 DEF Agree, Shape
    <3>7. QED
      BY <3>5, <3>6
  <2>3. QED
    BY <2>1, <2>2
<1>16. Made(n.mem) = Made(k.mem)
  BY <1>1, <1>15, LikeViews
<1>17. DOMAIN n.mem = DOMAIN k.mem \cup (IF Leads(w) THEN {w.frame} ELSE {})
  <2>1. CASE Leads(w)
    BY <1>4, <1>14, <2>1 DEF Puts, Patched
  <2>2. CASE ~Leads(w)
    BY <1>4, <1>14, <2>2 DEF Halts
  <2>3. QED
    BY <2>1, <2>2
<1>18. Sizes(n)
  <2>1. n.used \subseteq FIRST_FREE..(frames - 1)
    BY <1>1, <1>2, <1>3, <1>14 DEF Sizes
  <2>2. DOMAIN n.mem \subseteq BootTables \cup n.used \cup {0}
    BY <1>1, <1>3, <1>8, <1>14, <1>17 DEF Sizes
  <2>3. 0 \in Made(n.mem) => Free(n) = {}
    BY <1>1, <1>3, <1>14, <1>16 DEF Sizes, Free
  <2>4. QED
    BY <1>1, <2>1, <2>2, <2>3 DEF Sizes
<1>19. n.status # "up" => n.status \in {"fault", "wild"} /\ f # 0 /\ ~Leads(w)
  <2>1. f = 0 => Leads(w)
    BY <1>6, <1>7, <1>10
  <2>2. QED
    BY <1>4, <1>14, <2>1 DEF Halts, Puts
<1>20. KInv(n, D)
  <2>1. n.status # "up" => \E t \in n.used \ Held(k.mem, D) : ~Reached(k.mem, t)
    <3> SUFFICES ASSUME n.status # "up"
                 PROVE  f \in n.used \ Held(k.mem, D) /\ ~Reached(k.mem, f)
      BY Zenon
    <3>1. f # 0 /\ ~Leads(w)
      BY <1>19
    <3>2. f \in n.used /\ f \notin k.used
      BY <1>2, <1>3, <1>14, <3>1 DEF f
    <3>3. ~Reached(k.mem, f)
      BY <1>2, <1>6, <1>7, <3>1 DEF f
    <3>4. QED
      BY <3>2, <3>3, HeldUsed
  <2>2. k.used \subseteq n.used
    BY <1>3, <1>14
  <2>3. QED
    BY <1>14, <1>15, <1>18, <1>19, <2>1, <2>2, KInvLike
<1>21. ASSUME Reached(k.mem, f)
       PROVE  n.status = "up" /\ f \in DOMAIN n.mem /\ n.mem[f] = row
  <2>1. w.frame = f /\ Leads(w)
    BY <1>2, <1>6, <1>7, <1>21 DEF f
  <2>2. QED
    BY <1>4, <1>14, <2>1 DEF Puts, Patched
<1>22. ASSUME ~Reached(k.mem, f), n.status = "up"
       PROVE  f \notin DOMAIN n.mem
  <2>1. Leads(w) => w.frame # f
    BY <1>6, <1>22
  <2>2. f # 0
    BY <1>10, <1>22
  <2>3. f \notin DOMAIN k.mem
    BY <1>1, <1>12, <2>2 DEF Sizes
  <2>4. QED
    BY <1>17, <2>1, <2>3
<1>23. QED
  BY <1>3, <1>14, <1>15, <1>20, <1>21, <1>22 DEF f, n, row
(* Opening an entry of an upper table to ring 3 changes no translation that*)
(* leads anywhere.                                                         *)
LEMMA OpenKeeps ==
  ASSUME NEW k, NEW D, KInv(k, D), k.status = "up", NEW i \in Index,
         k.ptr \in {L4, L3, L2}, k.mem[k.ptr][i].present
  PROVE  OpenDone(k, Open(k, i), D, i)
<1> DEFINE n == Open(k, i)
           t == k.ptr
           m == k.mem
           c == [m[t][i] EXCEPT !.user = TRUE]
           row == [m[t] EXCEPT ![i] = c]
<1>1. Fields(k) /\ Coherent(m, k.tlb) /\ Shape(m) /\ Sizes(k) /\ UserOpen(m)
  BY DEF KInv
<1>2. t \in BootTables /\ t \in Identity \ Taken /\ t \in Nat /\ t \in DOMAIN m
  BY <1>1, TablePlaces, Places DEF BootTables, Shape
<1>3. Reached(m, t) /\ Leads(Walk(m, t)) /\ Walk(m, t).frame = t
  BY <1>1, <1>2, BootReached, WalkIdentity DEF Reached
<1>4. Load(k, t, i) = m[t][i]
  BY <1>1, <1>2, <1>3, LoadIs DEF Cell
<1>5. Puts(k, n, t, row)
  BY <1>1, <1>2, <1>3, <1>4, StoreIs DEF Open
<1>6. m[t] \in [Index -> Cells] /\ m[t][i] \in Cells
  BY <1>1, <1>2 DEF Shape, Typed
<1>7. c \in Cells /\ c.present = m[t][i].present /\ c.frame = m[t][i].frame /\ c.user = TRUE
  BY <1>6 DEF Cells
<1>8. row \in [Index -> Cells] /\ row[i] = c /\ \A j \in Index \ {i} : row[j] = m[t][j]
  BY <1>6, <1>7
<1> HIDE DEF n, t, m, c, row
<1>9. /\ Fields(n) /\ Others(k, n) /\ n.status = k.status
      /\ DOMAIN n.mem = DOMAIN m /\ n.mem[t] = row /\ \A x \in DOMAIN m \ {t} : n.mem[x] = m[x]
  BY <1>2, <1>5 DEF Puts, Patched, m
<1>10. \A x \in DOMAIN m : \A j \in Index :
         /\ n.mem[x][j].present = m[x][j].present /\ n.mem[x][j].frame = m[x][j].frame
         /\ m[x][j].user => n.mem[x][j].user
  BY <1>7, <1>8, <1>9
<1>11. L4 \in DOMAIN m /\ L3 \in DOMAIN m /\ L2 \in DOMAIN m /\ 0 \in Index
  BY <1>1, FanoutIs DEF Shape, BootTables, Index
<1>12. \A j \in Index : /\ Dir(n.mem, j).present = Dir(m, j).present /\ Dir(n.mem, j).frame = Dir(m, j).frame
                        /\ Dir(m, j).user => Dir(n.mem, j).user
  BY <1>10, <1>11 DEF Dir
<1>13. t \in {L4, L3, L2}
  BY DEF t
<1>14. \A j \in Index \ {0} : t = L4 \/ t = L3 => j # i
  <2>1. m[t][i].present
    BY DEF m, t
  <2>2. QED
    BY <1>1, <2>1, CellKinds DEF Shape
<1>15. Shape(n.mem)
  <2>1. Typed(n.mem) /\ BootTables \subseteq DOMAIN n.mem
    BY <1>1, <1>8, <1>9 DEF Shape, Typed
  <2>2. n.mem[L4][0].present /\ n.mem[L4][0].frame = L3 /\ n.mem[L3][0].present /\ n.mem[L3][0].frame = L2
    BY <1>1, <1>10, <1>11 DEF Shape
  <2>3. \A j \in Index \ {0} : n.mem[L4][j] = Zero /\ n.mem[L3][j] = Zero
    <3> TAKE j \in Index \ {0}
    <3>1. n.mem[L4][j] = m[L4][j]
      BY <1>8, <1>9, <1>11, <1>14
    <3>2. n.mem[L3][j] = m[L3][j]
      BY <1>8, <1>9, <1>11, <1>14
    <3>3. QED
      BY <1>1, <3>1, <3>2 DEF Shape
  <2>4. \A j \in 0..(BOOT_L1 - 1) : Dir(n.mem, j).present /\ Dir(n.mem, j).frame = L1(j)
    <3>1. 0..(BOOT_L1 - 1) \subseteq Index
      BY FanoutIs DEF Index
    <3>2. QED
      BY <1>1, <1>12, <3>1 DEF Shape
  <2>5. \A page \in Identity \ Taken : n.mem[L1(Hi(page))][Lo(page)] = Entry(page, FALSE)
    <3> TAKE page \in Identity \ Taken
    <3>1. Hi(page) \in 0..(BOOT_L1 - 1)
      BY <1>1, WalkIdentity
    <3>2. L1(Hi(page)) \in DOMAIN m /\ L1(Hi(page)) # t
      BY <1>1, <1>13, <3>1, TablePlaces DEF Shape
    <3>3. QED
      BY <1>1, <1>9, <3>2 DEF Shape
  <2>6. QED
    BY <2>1, <2>2, <2>3, <2>4, <2>5 DEF Shape
<1>16. Like(m, n.mem)
  <2>1. ASSUME NEW page \in Reach, Dir(m, Hi(page)).present
        PROVE  Low(n.mem, page) = Low(m, page)
    <3>1. Hi(page) \in Index /\ page \in Nat
      BY Indexes, Places
    <3>2. Dir(n.mem, Hi(page)).frame = Dir(m, Hi(page)).frame
      BY <1>12, <3>1
    <3>3. Dir(m, Hi(page)).frame # t
      <4>1. CASE Hi(page) \in Upper
        <5>1. Dir(m, Hi(page)).frame \in k.used \cup {0}
          BY <2>1, <4>1 DEF KInv, TablesMade, Made, m
        <5>2. \A x \in k.used : x \in Nat /\ x >= FIRST_FREE
          BY <1>1, FramesFit
        <5>3. t < FIRST_FREE /\ t # 0 /\ t \in Nat /\ FIRST_FREE \in Nat
          BY <1>2, TablePlaces, Places
        <5>4. t \notin k.used
          BY <5>2, <5>3
        <5>5. QED
          BY <5>1, <5>3, <5>4
      <4>2. CASE Hi(page) \notin Upper
        <5>1. Hi(page) \in 0..(BOOT_L1 - 1)
          BY <3>1, <4>2, FanoutIs DEF Upper, Index
        <5>2. QED
          BY <1>1, <1>13, <5>1, TablePlaces DEF Shape
      <4>3. QED
        BY <4>1, <4>2
    <3>4. QED
      BY <1>9, <3>2, <3>3 DEF Low, Cell
  <2>2. ASSUME NEW page \in Reach, Opened(m, page)
        PROVE  Opened(n.mem, page)
    <3>1. Hi(page) \in Index
      BY Indexes, Places
    <3>2. QED
      BY <1>10, <1>11, <1>12, <2>2, <3>1 DEF Opened
  <2>3. QED
    BY <1>12, <2>1, <2>2 DEF Like
<1>17. Made(n.mem) = Made(m)
  BY <1>1, <1>15, <1>16, LikeViews
<1>18. Sizes(n)
  BY <1>1, <1>9, <1>17 DEF Sizes, Free, Others, m
<1>19. k.used \subseteq n.used /\ n.tlb = k.tlb
  BY <1>9 DEF Others
<1>20. n.status = "up"
  BY <1>9
<1>21. KInv(n, D)
  BY <1>9, <1>15, <1>16, <1>18, <1>19, <1>20, KInvLike DEF m
<1>22. n.mem[t][i].user /\ DOMAIN n.mem = DOMAIN m
  BY <1>7, <1>8, <1>9
<1>23. \A x \in {L4, L3, L2} : \A j \in Index :
         /\ n.mem[x][j].present = m[x][j].present /\ n.mem[x][j].frame = m[x][j].frame
         /\ m[x][j].user => n.mem[x][j].user
  BY <1>10, <1>11
<1>24. QED
  BY <1>9, <1>16, <1>20, <1>21, <1>22, <1>23 DEF OpenDone, n, t, m
-----------------------------------------------------------------------------
(* Steps that edit the tables.                                             *)

(* A table's frame f in entry i of the table of level 2.                   *)
Linked(m, n, i, f) == Patched(m, n, L2, [m[L2] EXCEPT ![i] = Entry(f, FALSE)])

(* What the processor sees of that.                                        *)
LinkSeen(o, m, i, f) ==
  /\ Shape(m) /\ DOMAIN m = DOMAIN o
  /\ Dir(m, i) = Entry(f, FALSE) /\ \A j \in Index \ {i} : Dir(m, j) = Dir(o, j)
  /\ m[L4] = o[L4] /\ m[L3] = o[L3]
  /\ Made(m) = Made(o) \cup {f}
  /\ \A page \in Reach : Hi(page) # i /\ Dir(o, Hi(page)).present => Low(m, page) = Low(o, page)
  /\ \A page \in Reach : Hi(page) = i =>
       Low(m, page) = IF Reached(o, f) THEN Zero ELSE Junk
  /\ \A page \in Reach : Serves(m, page) = Serves(o, page)
  /\ \A page \in Reach : Serves(m, page) => Hi(page) # i
  /\ \A page \in Nat : page < FANOUT * FANOUT * FANOUT * FANOUT =>
       /\ Leads(Walk(m, page)) = Leads(Walk(o, page))
       /\ Leads(Walk(o, page)) => Walk(m, page) = Walk(o, page)
       /\ Reached(m, page) = Reached(o, page)

(* A new table takes its place: the pages below it are as unmapped as they *)
(* were.                                                                   *)
LEMMA LinkViews ==
  ASSUME NEW k, NEW D, KInv(k, D), NEW i \in Upper, ~Dir(k.mem, i).present,
         NEW f \in k.used \cup {0}, f \notin Made(k.mem),
         Reached(k.mem, f) => f \in DOMAIN k.mem /\ k.mem[f] = [j \in Index |-> Zero],
         ~Reached(k.mem, f) => f \notin DOMAIN k.mem,
         NEW m, Linked(k.mem, m, i, f)
  PROVE  LinkSeen(k.mem, m, i, f)
<1> DEFINE o == k.mem
           row == [o[L2] EXCEPT ![i] = Entry(f, FALSE)]
<1>1. Shape(o) /\ Sizes(k) /\ TablesMade(o, k.used)
  BY DEF KInv
<1>2. i \in Index /\ i \notin 0..(BOOT_L1 - 1) /\ Upper \subseteq Index /\ 0..(BOOT_L1 - 1) \subseteq Index /\ 0 \in Index
  BY FanoutIs DEF Upper, Index
<1>3. f \in Nat /\ f \notin BootTables
  <2>1. f \in Nat
    BY <1>1, FramesFit
  <2>2. f = 0 \/ f >= FIRST_FREE
    BY <1>1, FramesFit
  <2>3. FIRST_FREE \in Nat /\ 0 \notin BootTables /\ \A t \in BootTables : t < FIRST_FREE
    BY TablePlaces, Places
  <2>4. f < FIRST_FREE => ~(f >= FIRST_FREE)
    BY <2>1, <2>3
  <2>5. QED
    BY <2>1, <2>2, <2>3, <2>4
<1>4. L4 \in DOMAIN o /\ L3 \in DOMAIN o /\ L2 \in DOMAIN o /\ L4 # L3 /\ L4 # L2 /\ L3 # L2
  BY <1>1, TablePlaces DEF Shape, BootTables
<1>5. o[L2] \in [Index -> Cells] /\ Entry(f, FALSE) \in Cells /\ Entry(f, FALSE).present /\ Entry(f, FALSE).frame = f
  <2>1. o[L2] \in [Index -> Cells]
    BY <1>1, <1>4 DEF Shape, Typed
  <2>2. f \in Int /\ FALSE \in BOOLEAN
    BY <1>3
  <2>3. QED
    BY <2>1, <2>2, CellKinds
<1>6. row \in [Index -> Cells] /\ row[i] = Entry(f, FALSE) /\ \A j \in Index \ {i} : row[j] = o[L2][j]
  BY <1>2, <1>5
<1> HIDE DEF o, row
<1>7. DOMAIN m = DOMAIN o /\ m[L2] = row /\ \A t \in DOMAIN o \ {L2} : m[t] = o[t]
  BY <1>4 DEF Linked, Patched, o, row
<1>8. Dir(m, i) = Entry(f, FALSE) /\ \A j \in Index \ {i} : Dir(m, j) = Dir(o, j)
  BY <1>6, <1>7 DEF Dir
<1>9. m[L4] = o[L4] /\ m[L3] = o[L3]
  BY <1>4, <1>7
<1>10. Shape(m)
  <2>1. Typed(m) /\ BootTables \subseteq DOMAIN m
    BY <1>1, <1>6, <1>7 DEF Shape, Typed
  <2>2. \A j \in 0..(BOOT_L1 - 1) : Dir(m, j).present /\ Dir(m, j).frame = L1(j)
    BY <1>1, <1>2, <1>8 DEF Shape
  <2>3. \A page \in Identity \ Taken : m[L1(Hi(page))][Lo(page)] = Entry(page, FALSE)
    <3> TAKE page \in Identity \ Taken
    <3>1. Hi(page) \in 0..(BOOT_L1 - 1)
      BY <1>1, WalkIdentity
    <3>2. L1(Hi(page)) \in DOMAIN o /\ L1(Hi(page)) # L2
      BY <1>1, <3>1, TablePlaces DEF Shape
    <3>3. m[L1(Hi(page))] = o[L1(Hi(page))]
      BY <1>7, <3>2
    <3>4. o[L1(Hi(page))][Lo(page)] = Entry(page, FALSE)
      BY <1>1, Zenon DEF Shape
    <3>5. QED
      BY <3>3, <3>4, Zenon
  <2>4. QED
    BY <1>1, <1>9, <2>1, <2>2, <2>3 DEF Shape
<1>11. Made(m) = Made(o) \cup {f}
  <2>1. \A j \in Upper : j # i => Dir(m, j) = Dir(o, j)
    BY <1>2, <1>8
  <2>2. ~Dir(o, i).present
    BY DEF o
  <2>3. {j \in Upper : Dir(m, j).present} = {j \in Upper : Dir(o, j).present} \cup {i}
    BY <1>5, <1>8, <2>1
  <2>4. \A j \in {h \in Upper : Dir(o, h).present} : Dir(m, j).frame = Dir(o, j).frame
    BY <2>1, <2>2
  <2>5. Dir(m, i).frame = f
    BY <1>5, <1>8
  <2>6. QED
    BY <2>3, <2>4, <2>5 DEF Made
<1>12. \A page \in Reach : page \in Nat /\ Hi(page) \in Index /\ Lo(page) \in Index
  BY Indexes, Places, HiLo
<1>13. \A j \in Index : Dir(o, j).present => Dir(o, j).frame # L2
  <2> TAKE j \in Index
  <2> HAVE Dir(o, j).present
  <2>1. CASE j \in Upper
    <3>1. Dir(o, j).frame \in k.used \cup {0}
      BY <1>1, <2>1 DEF TablesMade, Made
    <3>2. \A x \in k.used : x \in Nat /\ x >= FIRST_FREE
      BY <1>1, FramesFit
    <3>3. L2 < FIRST_FREE /\ L2 # 0 /\ L2 \in Nat /\ FIRST_FREE \in Nat
      BY TablePlaces, Places DEF BootTables, L2
    <3>4. L2 \notin k.used
      BY <3>2, <3>3
    <3>5. QED
      BY <3>1, <3>3, <3>4
  <2>2. CASE j \notin Upper
    <3>1. j \in 0..(BOOT_L1 - 1)
      BY <2>2, FanoutIs DEF Upper, Index
    <3>2. QED
      BY <1>1, <3>1, TablePlaces DEF Shape
  <2>3. QED
    BY <2>1, <2>2
<1>14. \A page \in Reach : Hi(page) # i /\ Dir(o, Hi(page)).present => Low(m, page) = Low(o, page)
  <2> TAKE page \in Reach
  <2> HAVE Hi(page) # i /\ Dir(o, Hi(page)).present
  <2>1. Dir(m, Hi(page)) = Dir(o, Hi(page)) /\ Dir(o, Hi(page)).frame # L2
    BY <1>8, <1>12, <1>13
  <2>2. QED
    BY <1>7, <2>1 DEF Low, Cell
<1>15. \A page \in Reach : Hi(page) = i =>
         Low(m, page) = IF Reached(o, f) THEN Zero ELSE Junk
  <2> TAKE page \in Reach
  <2> HAVE Hi(page) = i
  <2>1. Low(m, page) = Cell(m, f, Lo(page)) /\ Lo(page) \in Index
    BY <1>5, <1>8, <1>12 DEF Low
  <2>2. f # L2
    BY <1>3 DEF BootTables
  <2>3. CASE Reached(o, f)
    <3>1. f \in DOMAIN o /\ o[f] = [j \in Index |-> Zero]
      BY <2>3 DEF o
    <3>2. QED
      BY <1>7, <2>1, <2>2, <2>3, <3>1 DEF Cell
  <2>4. CASE ~Reached(o, f)
    <3>1. f \notin DOMAIN m
      BY <1>7, <2>4 DEF o
    <3>2. QED
      BY <2>1, <2>4, <3>1 DEF Cell
  <2>5. QED
    BY <2>3, <2>4
<1>16. ~Zero.present /\ Junk.frame = -1
  BY CellKinds
<1>17. \A page \in Reach : Hi(page) = i => ~Serves(m, page) /\ ~Serves(o, page)
  BY <1>15, <1>16 DEF Serves, o
<1>18. \A page \in Reach : Serves(m, page) = Serves(o, page)
  <2> TAKE page \in Reach
  <2>1. CASE Hi(page) = i
    BY <1>17, <2>1 DEF Serves
  <2>2. CASE Hi(page) # i
    BY <1>8, <1>12, <1>14, <2>2 DEF Serves
  <2>3. QED
    BY <2>1, <2>2
<1>19. ASSUME NEW page \in Nat, page < FANOUT * FANOUT * FANOUT * FANOUT
       PROVE  /\ Leads(Walk(m, page)) = Leads(Walk(o, page))
              /\ Leads(Walk(o, page)) => Walk(m, page) = Walk(o, page)
              /\ Reached(m, page) = Reached(o, page)
  <2>1. CASE page \notin Reach
    <3>1. Walk(m, page) = Walk(o, page)
      BY <1>1, <1>10, <1>19, <2>1, WalkIs
    <3>2. QED
      BY <3>1 DEF Reached
  <2>2. CASE page \in Reach
    <3>1. (Leads(Walk(m, page)) <=> Serves(m, page)) /\ (Leads(Walk(o, page)) <=> Serves(o, page))
      BY <1>1, <1>10, <1>19, <2>2, WalkLeads
    <3>2. Serves(m, page) <=> Serves(o, page)
      BY <1>18, <2>2
    <3>3. Leads(Walk(m, page)) \in BOOLEAN /\ Leads(Walk(o, page)) \in BOOLEAN
      BY DEF Leads
    <3>4. ASSUME Leads(Walk(o, page))
          PROVE  Walk(m, page) = Walk(o, page)
      <4>1. Hi(page) # i /\ Serves(o, page)
        BY <1>17, <2>2, <3>1, <3>4
      <4>2. Dir(m, Hi(page)) = Dir(o, Hi(page)) /\ Low(m, page) = Low(o, page)
        BY <1>8, <1>12, <1>14, <2>2, <4>1 DEF Serves
      <4>3. Opened(m, page) = Opened(o, page)
        BY <1>9, <4>2 DEF Opened
      <4>4. QED
        BY <1>1, <1>10, <2>2, <4>2, <4>3, WalkIs
    <3>5. Reached(m, page) = Reached(o, page)
      <4>1. CASE Leads(Walk(o, page))
        BY <3>4, <4>1 DEF Reached
      <4>2. CASE ~Leads(Walk(o, page))
        <5>1. ~Leads(Walk(m, page))
          BY <3>1, <3>2, <4>2
        <5>2. Walk(m, page).frame # page /\ Walk(o, page).frame # page
          BY <4>2, <5>1 DEF Leads
        <5>3. QED
          BY <5>2 DEF Reached
      <4>3. QED
        BY <4>1, <4>2
    <3>6. QED
      BY <3>1, <3>2, <3>3, <3>4, <3>5
  <2>3. QED
    BY <2>1, <2>2
<1>20. QED
  BY <1>7, <1>8, <1>9, <1>10, <1>11, <1>14, <1>15, <1>17, <1>18, <1>19 DEF o, LinkSeen
(* The frame of a table hanging from level 2 lies where the tables lead.   *)
LEMMA DirFits ==
  ASSUME NEW k, NEW D, KInv(k, D), NEW i \in Index, Dir(k.mem, i).present
  PROVE  /\ Dir(k.mem, i).frame \in Nat /\ Dir(k.mem, i).frame < FANOUT * FANOUT * FANOUT * FANOUT
         /\ i \in Upper => Dir(k.mem, i).frame \in Made(k.mem)
         /\ i \notin Upper => /\ i \in 0..(BOOT_L1 - 1) /\ Dir(k.mem, i).frame = L1(i)
                              /\ Reached(k.mem, Dir(k.mem, i).frame)
<1>1. Shape(k.mem) /\ Sizes(k) /\ TablesMade(k.mem, k.used)
  BY DEF KInv
<1>2. CASE i \in Upper
  <2>1. Dir(k.mem, i).frame \in Made(k.mem)
    BY <1>2 DEF Made
  <2>2. Dir(k.mem, i).frame \in k.used \cup {0}
    BY <1>1, <2>1 DEF TablesMade
  <2>3. QED
    BY <1>1, <1>2, <2>1, <2>2, FramesFit
<1>3. CASE i \notin Upper
  <2>1. i \in 0..(BOOT_L1 - 1)
    BY <1>3, FanoutIs DEF Upper, Index
  <2>2. Dir(k.mem, i).frame = L1(i) /\ L1(i) \in BootTables
    BY <1>1, <2>1, TablePlaces DEF Shape
  <2>3. Reached(k.mem, L1(i))
    BY <1>1, <2>2, TablePlaces, BootReached
  <2>4. QED
    BY <1>1, <1>3, <2>1, <2>2, <2>3, FramesFit
<1>4. QED
  BY <1>2, <1>3

(* Linking a new table keeps the invariant.                                *)
LEMMA LinkKeeps ==
  ASSUME NEW k, NEW D, KInv(k, D), NEW i \in Upper, ~Dir(k.mem, i).present,
         NEW f \in (k.used \ Held(k.mem, D)) \cup {0}, f \notin Made(k.mem),
         f = 0 => Free(k) = {},
         Reached(k.mem, f) => f \in DOMAIN k.mem /\ k.mem[f] = [j \in Index |-> Zero],
         ~Reached(k.mem, f) => f \notin DOMAIN k.mem,
         NEW n, Fields(n), Others(k, n), n.status = k.status, Linked(k.mem, n.mem, i, f)
  PROVE  /\ KInv(n, D)
         /\ Loose(n, D) = Loose(k, D) \ {f}
         /\ InReach(n.mem) <=> InReach(k.mem) /\ Reached(k.mem, f)
<1> DEFINE E == FANOUT * FANOUT * FANOUT * FANOUT
           o == k.mem
           m == n.mem
<1>1. /\ Fields(n) /\ n.used = k.used /\ n.tlb = k.tlb /\ n.status = k.status
      /\ Linked(o, m, i, f)
  BY DEF Others
<1>2. f \in k.used \cup {0}
  OBVIOUS
<1>3. /\ Shape(m) /\ DOMAIN m = DOMAIN o
      /\ Dir(m, i) = Entry(f, FALSE) /\ \A j \in Index \ {i} : Dir(m, j) = Dir(o, j)
      /\ m[L4] = o[L4] /\ m[L3] = o[L3]
      /\ Made(m) = Made(o) \cup {f}
      /\ \A page \in Reach : Hi(page) # i /\ Dir(o, Hi(page)).present => Low(m, page) = Low(o, page)
      /\ \A page \in Reach : Hi(page) = i => Low(m, page) = IF Reached(o, f) THEN Zero ELSE Junk
      /\ \A page \in Reach : Serves(m, page) = Serves(o, page)
      /\ \A page \in Reach : Serves(m, page) => Hi(page) # i
      /\ \A page \in Nat : page < E =>
           /\ Leads(Walk(m, page)) = Leads(Walk(o, page))
           /\ Leads(Walk(o, page)) => Walk(m, page) = Walk(o, page)
           /\ Reached(m, page) = Reached(o, page)
  <2>1. LinkSeen(o, m, i, f)
    BY <1>1, <1>2, LinkViews, Zenon
  <2>2. QED
    BY <2>1 DEF LinkSeen
<1>4. /\ Shape(o) /\ Sizes(k) /\ UserOpen(o) /\ D \subseteq Movable /\ TablesMade(o, k.used)
      /\ Kinds(o, k.used, D) /\ HeldOnce(o, D) /\ Coherent(o, k.tlb)
  BY DEF KInv
<1>5. \A page \in Reach : page \in Nat /\ Hi(page) \in Index /\ page < E
  BY <1>4, Indexes, Places, FramesFit
<1>6. D \subseteq Reach /\ Movable \subseteq Reach /\ Upper \subseteq Index
  BY <1>4, FanoutIs DEF Movable, Upper, Index
<1>7. Entry(f, FALSE).present /\ Entry(f, FALSE).frame = f
  BY DEF Entry
<1>8. \A t \in k.used \cup {0} : t \in Nat /\ t < E
  BY <1>4, FramesFit
<1>9. \A t \in k.used : t # 0
  BY <1>4, FramesFit
<1>10. f \notin Held(o, D)
  BY <1>9, HeldUsed DEF o
<1>11. ~Dir(o, i).present /\ f \notin Made(o) /\ f \in k.used \cup {0} /\ i \in Index
  BY <1>6 DEF o
<1>12. KInv(k, D)
  OBVIOUS
<1> HIDE DEF E
<1>13. TablesMade(m, n.used)
  <2>1. Made(m) \subseteq n.used \cup {0}
    BY <1>1, <1>3, <1>4, <1>11 DEF TablesMade
  <2>2. ASSUME NEW a \in Upper, NEW b \in Upper, Dir(m, a).present, Dir(m, b).present,
               Dir(m, a).frame = Dir(m, b).frame
        PROVE  a = b
    <3>1. \A j \in Upper : j # i /\ Dir(m, j).present => Dir(m, j) = Dir(o, j) /\ Dir(m, j).frame \in Made(o)
      BY <1>3, <1>6 DEF Made
    <3>2. Dir(m, i).frame \notin Made(o)
      BY <1>3, <1>7, <1>11
    <3>3. CASE a # i /\ b # i
      <4>1. Dir(m, a) = Dir(o, a) /\ Dir(m, b) = Dir(o, b)
        BY <2>2, <3>1, <3>3
      <4>2. QED
        BY <1>4, <2>2, <4>1 DEF TablesMade
    <3>4. QED
      BY <2>2, <3>1, <3>2, <3>3
  <2>3. QED
    BY <2>1, <2>2 DEF TablesMade
<1>14. ASSUME NEW page \in Movable, Dir(m, Hi(page)).present
       PROVE  Kind(m, k.used, D, page)
  <2>1. page \in Reach /\ Hi(page) \in Index
    BY <1>5, <1>6
  <2>2. CASE Hi(page) = i
    <3>1. Dir(m, Hi(page)).frame = f
      BY <1>3, <1>7, <2>2
    <3>2. Reached(m, f) = Reached(o, f)
      BY <1>3, <1>8, <1>11
    <3>3. Low(m, page) = IF Reached(o, f) THEN Zero ELSE Junk
      BY <1>3, <2>1, <2>2
    <3>4. QED
      BY <3>1, <3>2, <3>3 DEF Kind
  <2>3. CASE Hi(page) # i
    <3>1. Dir(m, Hi(page)) = Dir(o, Hi(page))
      BY <1>3, <2>1, <2>3
    <3>2. Dir(o, Hi(page)).present /\ Low(m, page) = Low(o, page)
      BY <1>3, <1>14, <2>1, <2>3, <3>1
    <3>3. Kind(o, k.used, D, page)
      BY <1>4, <3>2 DEF Kinds
    <3>4. Reached(m, Dir(o, Hi(page)).frame) = Reached(o, Dir(o, Hi(page)).frame)
      BY <1>3, <1>12, <2>1, <3>2, DirFits DEF E
    <3>5. ASSUME page \in D, Low(o, page).present, Low(o, page).frame \in k.used \ Made(o)
          PROVE  Low(o, page).frame \notin Made(m)
      <4>1. Low(o, page).frame >= 0
        BY <1>8, <3>5
      <4>2. Serves(o, page)
        BY <3>2, <3>5, <4>1 DEF Serves
      <4>3. Low(o, page).frame \in Held(o, D)
        BY <3>5, <4>2 DEF Held
      <4>4. QED
        BY <1>3, <1>10, <3>5, <4>3
    <3>6. QED
      BY <3>1, <3>2, <3>3, <3>4, <3>5 DEF Kind
  <2>4. QED
    BY <2>2, <2>3
<1>15. \A page \in Reach : Serves(o, page) => /\ Low(m, page) = Low(o, page)
                                              /\ Dir(m, Hi(page)) = Dir(o, Hi(page))
  <2> TAKE page \in Reach
  <2> HAVE Serves(o, page)
  <2>1. Hi(page) # i /\ Dir(o, Hi(page)).present
    BY <1>3 DEF Serves
  <2>2. QED
    BY <1>3, <1>5, <2>1
<1>16. HeldOnce(m, D)
  BY <1>3, <1>4, <1>6, <1>15 DEF HeldOnce
<1>17. UserOpen(m)
  <2> SUFFICES ASSUME NEW page \in Reach, Serves(m, page), Low(m, page).user
               PROVE  Opened(m, page)
    BY DEF UserOpen
  <2>1. Serves(o, page) /\ Low(m, page) = Low(o, page) /\ Dir(m, Hi(page)) = Dir(o, Hi(page))
    BY <1>3, <1>15
  <2>2. Opened(o, page)
    BY <1>4, <2>1 DEF UserOpen
  <2>3. QED
    BY <1>3, <2>1, <2>2 DEF Opened
<1>18. Held(m, D) = Held(o, D)
  <2>1. {p \in D : Serves(m, p)} = {p \in D : Serves(o, p)}
    BY <1>3, <1>6
  <2>2. \A p \in {q \in D : Serves(o, q)} : Low(m, p).frame = Low(o, p).frame
    BY <1>6, <1>15
  <2>3. QED
    BY <2>1, <2>2 DEF Held
<1>19. Coherent(m, n.tlb)
  <2>1. \A page \in DOMAIN k.tlb : page \in Nat /\ page < E
    <3>1. Cached \subseteq Pages
      BY VmmAssumption, Zenon
    <3>2. QED
      BY <1>4, <1>5, <3>1, Places DEF Coherent
  <2>2. QED
    BY <1>1, <1>3, <1>4, <2>1 DEF Coherent
<1>20. Stopped(n, D)
  <2>1. \A t \in k.used : Reached(m, t) = Reached(o, t)
    BY <1>3, <1>8
  <2>2. Stopped(k, D)
    BY <1>12 DEF KInv
  <2>3. QED
    BY <1>1, <1>18, <2>1, <2>2 DEF Stopped
<1>21. Sizes(n)
  <2>1. 0 \in Made(m) => Free(k) = {}
    BY <1>3, <1>4 DEF Sizes
  <2>2. QED
    BY <1>1, <1>3, <1>4, <2>1 DEF Sizes, Free
<1>22. KInv(n, D)
  <2>1. Kinds(m, n.used, D)
    BY <1>1, <1>14 DEF Kinds
  <2>2. QED
    BY <1>1, <1>3, <1>4, <1>13, <1>16, <1>17, <1>19, <1>20, <1>21, <2>1 DEF KInv
<1>23. Loose(n, D) = Loose(k, D) \ {f}
  BY <1>1, <1>3, <1>18 DEF Loose
<1>24. InReach(m) <=> InReach(o) /\ Reached(o, f)
  <2>1. \A t \in Made(o) \cup {f} : Reached(m, t) <=> Reached(o, t)
    BY <1>3, <1>4, <1>8, <1>11 DEF TablesMade
  <2>2. QED
    BY <1>3, <2>1 DEF InReach
<1>25. QED
  BY <1>22, <1>23, <1>24
-----------------------------------------------------------------------------
(* The way down to the lowest table.                                       *)

(* The entries of the upper tables stay, and stay open.                    *)
Upward(m, n) ==
  \A t \in {L4, L3, L2} : \A j \in Index : m[t][j].present =>
    n[t][j].present /\ n[t][j].frame = m[t][j].frame /\ (m[t][j].user => n[t][j].user)

(* What no step on the way changes.                                        *)
Seen(m, n) ==
  /\ \A page \in Reach : Serves(n, page) = Serves(m, page)
  /\ \A page \in Nat : page < FANOUT * FANOUT * FANOUT * FANOUT =>
       /\ Leads(Walk(n, page)) = Leads(Walk(m, page))
       /\ Leads(Walk(m, page)) => Walk(n, page) = Walk(m, page)
       /\ Reached(n, page) = Reached(m, page)

Forth(k, n, D) ==
  /\ KInv(n, D) /\ n.heap_end = k.heap_end /\ n.tlb = k.tlb /\ k.used \subseteq n.used
  /\ n.status = "up" => k.status = "up"
  /\ Loose(k, D) \subseteq Loose(n, D)
  /\ n.status = "up" /\ InReach(n.mem) => InReach(k.mem) /\ Loose(n, D) = Loose(k, D)
  /\ Upward(k.mem, n.mem) /\ Seen(k.mem, n.mem)

(* Such steps one after the other are such a step.                         *)
LEMMA ForthThen ==
  ASSUME NEW k, NEW l, NEW n, NEW D, Forth(k, l, D), Forth(l, n, D)
  PROVE  Forth(k, n, D)
<1>1. Seen(k.mem, n.mem)
  <2>1. Seen(k.mem, l.mem) /\ Seen(l.mem, n.mem)
    BY DEF Forth
  <2>2. \A page \in Reach : Serves(n.mem, page) = Serves(k.mem, page)
    BY <2>1 DEF Seen
  <2> DEFINE E == FANOUT * FANOUT * FANOUT * FANOUT
  <2>3. ASSUME NEW page \in Nat, page < E
        PROVE  /\ Leads(Walk(n.mem, page)) = Leads(Walk(k.mem, page))
               /\ Leads(Walk(k.mem, page)) => Walk(n.mem, page) = Walk(k.mem, page)
               /\ Reached(n.mem, page) = Reached(k.mem, page)
    <3>1. /\ Leads(Walk(l.mem, page)) = Leads(Walk(k.mem, page))
          /\ Leads(Walk(k.mem, page)) => Walk(l.mem, page) = Walk(k.mem, page)
          /\ Reached(l.mem, page) = Reached(k.mem, page)
      BY <2>1, <2>3 DEF Seen
    <3>2. /\ Leads(Walk(n.mem, page)) = Leads(Walk(l.mem, page))
          /\ Leads(Walk(l.mem, page)) => Walk(n.mem, page) = Walk(l.mem, page)
          /\ Reached(n.mem, page) = Reached(l.mem, page)
      BY <2>1, <2>3 DEF Seen
    <3>3. QED
      BY <3>1, <3>2
  <2>4. QED
    BY <2>2, <2>3 DEF Seen
<1>2. Upward(k.mem, n.mem)
  <2>1. Upward(k.mem, l.mem) /\ Upward(l.mem, n.mem)
    BY DEF Forth
  <2>2. QED
    BY <2>1 DEF Upward
<1>3. QED
  BY <1>1, <1>2, Zenon DEF Forth

(* A step that leaves the tables alone is one.                             *)
LEMMA ForthSame ==
  ASSUME NEW k, NEW D, KInv(k, D), NEW n, Fields(n), n.mem = k.mem, n.used = k.used,
         n.tlb = k.tlb, n.heap_end = k.heap_end, n.status = k.status
  PROVE  Forth(k, n, D)
<1>1. Like(k.mem, n.mem)
  BY DEF Like
<1>2. Sizes(n) /\ Shape(n.mem)
  BY DEF KInv, Sizes, Free
<1>3. KInv(n, D)
  BY <1>1, <1>2, KInvLike DEF KInv, Stopped
<1>4. Loose(n, D) = Loose(k, D)
  BY DEF Loose
<1>5. Upward(k.mem, n.mem) /\ Seen(k.mem, n.mem)
  BY DEF Upward, Seen
<1>6. QED
  BY <1>3, <1>4, <1>5 DEF Forth

(* So is one that changes no more than who may use the tables.             *)
LEMMA ForthLike ==
  ASSUME NEW k, NEW D, KInv(k, D), NEW n, KInv(n, D), Like(k.mem, n.mem), Upward(k.mem, n.mem),
         n.used = k.used, n.tlb = k.tlb, n.heap_end = k.heap_end, n.status = "up" => k.status = "up"
  PROVE  Forth(k, n, D)
<1>1. Shape(k.mem) /\ Shape(n.mem) /\ UserOpen(k.mem) /\ Sizes(n)
  BY DEF KInv
<1>2. Loose(n, D) = Loose(k, D) /\ InReach(n.mem) = InReach(k.mem)
  <2>1. Loose(n, D) = Loose(k, D) \cup (n.used \ k.used) /\ InReach(n.mem) = InReach(k.mem)
    BY <1>1, AccountsLike
  <2>2. QED
    BY <2>1
<1>3. Seen(k.mem, n.mem)
  <2> DEFINE E == FANOUT * FANOUT * FANOUT * FANOUT
  <2>1. /\ \A page \in Reach : Serves(n.mem, page) = Serves(k.mem, page)
        /\ \A page \in Nat : page < E =>
             /\ Walk(n.mem, page).frame = Walk(k.mem, page).frame
             /\ Reached(n.mem, page) = Reached(k.mem, page)
             /\ Leads(Walk(k.mem, page)) => Walk(n.mem, page) = Walk(k.mem, page)
    BY <1>1, LikeViews
  <2>2. QED
    BY <2>1 DEF Seen, Leads
<1>4. QED
  BY <1>2, <1>3 DEF Forth

(* Making a table where there is none.                                     *)
LEMMA TableForth ==
  ASSUME NEW k, NEW D, KInv(k, D), k.status = "up", NEW i \in Index, 0 \notin Made(k.mem),
         k.ptr \in {L4, L3, L2}, k.mem[k.ptr][i].present \/ k.ptr = L2
  PROVE  LET n == Table(k, i)
         IN /\ Forth(k, n, D) /\ Fields(n) /\ n.ptr = k.ptr
            /\ n.status = "up" => n.mem[k.ptr][i].present
            /\ k.mem[k.ptr][i].present => n = k
<1> DEFINE n == Table(k, i)
           t == k.ptr
           m == k.mem
<1>1. Fields(k) /\ Coherent(m, k.tlb) /\ Shape(m) /\ Sizes(k) /\ UserOpen(m) /\ TablesMade(m, k.used)
  BY DEF KInv
<1>2. t \in BootTables /\ t \in Identity \ Taken /\ t \in Nat /\ t \in DOMAIN m
  BY <1>1, TablePlaces, Places DEF BootTables, Shape
<1>3. Reached(m, t)
  BY <1>1, <1>2, BootReached DEF Reached
<1>4. Load(k, t, i) = m[t][i]
  BY <1>1, <1>2, <1>3, LoadIs DEF Cell
<1>5. CASE m[t][i].present
  <2>1. n = k
    BY <1>4, <1>5 DEF Table
  <2>2. Forth(k, k, D)
    BY <1>1, ForthSame
  <2> HIDE DEF n
  <2>3. Forth(k, n, D) /\ Fields(n) /\ n.ptr = k.ptr /\ n.mem[k.ptr][i].present /\ n = k
    BY <1>1, <1>5, <2>1, <2>2
  <2>4. QED
    BY <2>3 DEF n
<1>6. CASE ~m[t][i].present
  <2> DEFINE f == Fresh(k)
             a == MakeTable(k)
             c == Entry(f, FALSE)
  <2>1. t = L2 /\ i \in Upper /\ ~Dir(m, i).present
    <3>1. t = L2
      BY <1>6
    <3>2. i \notin 0..(BOOT_L1 - 1)
      BY <1>1, <1>6, <3>1 DEF Shape, Dir
    <3>3. QED
      BY <1>6, <3>1, <3>2, FanoutIs DEF Upper, Index, Dir
  <2>2. f \in Nat /\ f \notin k.used /\ f < FANOUT * FANOUT * FANOUT * FANOUT
        /\ (Free(k) # {} => f \in Free(k)) /\ (Free(k) = {} => f = 0)
    BY <1>1, FreshIs
  <2>3. f \notin Made(m)
    BY <1>1, <2>2 DEF TablesMade
  <2>4. /\ KInv(a, D) /\ Like(m, a.mem) /\ a.ptr = k.ptr /\ a.heap_end = k.heap_end
        /\ a.tlb = k.tlb /\ a.used = k.used \cup ({f} \ {0})
        /\ Reached(m, f) => a.status = "up" /\ f \in DOMAIN a.mem /\ a.mem[f] = [j \in Index |-> Zero]
        /\ ~Reached(m, f) /\ a.status = "up" => f \notin DOMAIN a.mem
    BY <2>3, MakeTableKeeps
  <2>5. n = Store(a, t, i, c)
    BY <1>4, <1>6, <2>4 DEF Table
  <2> HIDE DEF f, a, c, n
  <2>6. Shape(a.mem) /\ Fields(a) /\ Coherent(a.mem, a.tlb) /\ Sizes(a)
    BY <2>4 DEF KInv
  <2>7. /\ Loose(a, D) = Loose(k, D) \cup ({f} \ {0}) /\ InReach(a.mem) = InReach(m)
    <3>1. Loose(a, D) = Loose(k, D) \cup (a.used \ k.used) /\ InReach(a.mem) = InReach(m)
      <4>1. k.used \subseteq a.used /\ (a.status = "up" => k.status = "up")
        BY <2>4
      <4>2. QED
        BY <2>4, <2>6, <4>1, AccountsLike
    <3>2. QED
      BY <2>2, <2>4, <3>1
  <2>8. /\ Made(a.mem) = Made(m) /\ Held(a.mem, D) = Held(m, D)
        /\ \A page \in Reach : Serves(a.mem, page) = Serves(m, page)
        /\ \A page \in Nat : page < FANOUT * FANOUT * FANOUT * FANOUT =>
              /\ Walk(a.mem, page).frame = Walk(m, page).frame
              /\ Reached(a.mem, page) = Reached(m, page)
              /\ Leads(Walk(m, page)) => Walk(a.mem, page) = Walk(m, page)
    <3>1. D \in SUBSET Reach
      BY DEF KInv, Movable
    <3>2. QED
      BY <1>1, <2>4, <2>6, <3>1, LikeViews
  <2>9. Seen(m, a.mem)
    BY <2>8 DEF Seen, Leads
  <2>10. Loose(k, D) \subseteq k.used
    BY DEF Loose
  <2>11. Upward(m, a.mem)
    <3>1. \A x \in BootTables : a.mem[x] = m[x]
      BY <2>3, MakeTableKeeps DEF f, a
    <3>2. \A x \in {L4, L3, L2} : a.mem[x] = m[x]
      BY <3>1 DEF BootTables
    <3>3. QED
      BY <3>2 DEF Upward
  <2>12. CASE a.status # "up"
    <3>1. n = a
      BY <2>5, <2>12, DownIs
    <3>2. Forth(k, n, D)
      BY <2>4, <2>7, <2>9, <2>11, <2>12, <3>1 DEF Forth
    <3>3. Fields(n) /\ n.ptr = k.ptr /\ n.status # "up"
      BY <2>4, <2>6, <2>12, <3>1
    <3>4. QED
      BY <1>6, <3>2, <3>3 DEF n
  <2>13. CASE a.status = "up"
    <3> DEFINE row == [a.mem[L2] EXCEPT ![i] = Entry(f, FALSE)]
    <3>1. L2 \in BootTables /\ L2 \in Nat /\ L2 \in Identity \ Taken
      BY <1>2, <2>1
    <3>2. Reached(a.mem, L2) /\ L2 \in DOMAIN a.mem
      BY <2>6, <3>1, BootReached DEF Shape
    <3>3. Walk(a.mem, L2).frame = L2 /\ Leads(Walk(a.mem, L2))
      BY <3>1, <3>2 DEF Reached, Leads
    <3>4. Puts(a, n, L2, row)
      BY <2>1, <2>5, <2>6, <2>13, <3>1, <3>2, <3>3, StoreIs DEF c
    <3>5. Fields(n) /\ Others(a, n) /\ n.status = a.status /\ Linked(a.mem, n.mem, i, f)
      BY <3>4 DEF Puts, Linked
    <3>6. ~Dir(a.mem, i).present
      <4>1. a.mem[L2] = m[L2]
        BY <2>3, <3>1, MakeTableKeeps DEF f, a
      <4>2. QED
        BY <2>1, <4>1 DEF Dir
    <3>7. f \notin Held(a.mem, D) /\ f \notin Made(a.mem)
      BY <2>2, <2>3, <2>8, HeldUsed
    <3>8. f \in a.used \cup {0}
      BY <2>4
    <3>9. f = 0 => Free(a) = {}
      <4>1. f = 0 => Free(k) = {}
        <5>1. 0 \notin Free(k)
          BY Places, FanoutIs DEF Free
        <5>2. QED
          BY <2>2, <5>1
      <4>2. k.used \subseteq a.used
        BY <2>4
      <4>3. QED
        BY <4>1, <4>2 DEF Free
    <3>10. /\ Reached(a.mem, f) => f \in DOMAIN a.mem /\ a.mem[f] = [j \in Index |-> Zero]
           /\ ~Reached(a.mem, f) => f \notin DOMAIN a.mem
      BY <2>2, <2>4, <2>8, <2>13
    <3> HIDE DEF row
    <3>11. LinkSeen(a.mem, n.mem, i, f)
      BY <2>1, <2>4, <3>5, <3>6, <3>7, <3>8, <3>10, LinkViews, Zenon
    <3>12. /\ KInv(n, D) /\ Loose(n, D) = Loose(a, D) \ {f}
           /\ InReach(n.mem) <=> InReach(a.mem) /\ Reached(a.mem, f)
      <4>1. f \in (a.used \ Held(a.mem, D)) \cup {0}
        BY <3>7, <3>8
      <4>2. QED
        BY <2>1, <2>4, <3>5, <3>6, <3>7, <3>9, <3>10, <4>1, LinkKeeps
    <3>13. Seen(a.mem, n.mem)
      BY <3>11, Zenon DEF LinkSeen, Seen
    <3>14. Seen(m, n.mem)
      BY <2>9, <3>13 DEF Seen
    <3>15. Upward(m, n.mem)
      <4>1. /\ Dir(n.mem, i) = c /\ \A j \in Index \ {i} : Dir(n.mem, j) = Dir(a.mem, j)
            /\ n.mem[L4] = a.mem[L4] /\ n.mem[L3] = a.mem[L3]
        BY <3>11 DEF LinkSeen, c
      <4>2. QED
        BY <2>11, <3>6, <4>1 DEF Upward, Dir
    <3>16. n.heap_end = k.heap_end /\ n.tlb = k.tlb /\ n.used = a.used /\ n.ptr = k.ptr
      BY <2>4, <3>5 DEF Others
    <3>17. Loose(n, D) = Loose(k, D)
      BY <2>2, <2>7, <2>10, <3>12, FramesFit
    <3>18. Forth(k, n, D)
      BY <2>4, <2>7, <2>13, <3>12, <3>14, <3>15, <3>16, <3>17 DEF Forth
    <3>19. n.mem[t][i].present
      <4>1. n.mem[L2][i] = c
        BY <3>11 DEF LinkSeen, Dir, c
      <4>2. QED
        BY <2>1, <4>1 DEF c, Entry
    <3>20. QED
      BY <1>6, <3>5, <3>16, <3>18, <3>19 DEF n
  <2>14. QED
    BY <2>12, <2>13
<1>7. QED
  BY <1>5, <1>6
(* Nothing taken, and no table made.                                       *)
Calm(k, n) ==
  /\ n.status = k.status /\ n.used = k.used
  /\ Made(n.mem) = Made(k.mem) /\ DOMAIN n.mem = DOMAIN k.mem

(* One level down.                                                         *)
Under(k, n, page, user) ==
  LET i == At(n, page)
      a == Table(k, i)
  IN Go(IF user THEN Open(a, i) ELSE a, i)

(* The mapper goes down from one state to one state.                       *)
LEMMA DescendIs ==
  ASSUME NEW k, NEW n, NEW page, NEW user \in BOOLEAN
  PROVE  Descend({k}, n, page, user) = {Under(k, n, page, user)}
BY DEF Descend, Then, Under

(* A level down, once the machine has stopped.                             *)
LEMMA BelowDown ==
  ASSUME NEW k, NEW D, KInv(k, D), k.status # "up", NEW n, NEW page, NEW user \in BOOLEAN
  PROVE  Forth(k, Under(k, n, page, user), D)
<1> DEFINE i == At(n, page)
           b == Under(k, n, page, user)
<1>1. Table(k, i) = k /\ Open(k, i) = k /\ Load(k, k.ptr, i) = Junk
  BY DownIs
<1>2. b = [k EXCEPT !.ptr = Junk.frame]
  BY <1>1 DEF Under, Go
<1> HIDE DEF b
<1>3. /\ Fields(b) /\ b.mem = k.mem /\ b.used = k.used /\ b.tlb = k.tlb
      /\ b.heap_end = k.heap_end /\ b.status = k.status
  BY <1>2, Excepts DEF KInv
<1>4. QED
  BY <1>3, ForthSame DEF b

(* A level down: there is a table then, open to ring 3 if asked.           *)
LEMMA BelowForth ==
  ASSUME NEW k, NEW D, KInv(k, D), k.status = "up", 0 \notin Made(k.mem), k.ptr \in {L4, L3, L2},
         NEW n, NEW page, NEW user \in BOOLEAN, At(n, page) \in Index,
         k.mem[k.ptr][At(n, page)].present \/ k.ptr = L2
  PROVE  LET b == Under(k, n, page, user)
             i == At(n, page)
         IN /\ Forth(k, b, D)
            /\ b.status = "up" =>
                 /\ b.mem[k.ptr][i].present /\ b.ptr = b.mem[k.ptr][i].frame
                 /\ user => b.mem[k.ptr][i].user
            /\ k.mem[k.ptr][i].present => Calm(k, b)
<1> DEFINE i == At(n, page)
           t == k.ptr
           a == Table(k, i)
           o == IF user THEN Open(a, i) ELSE a
           b == Under(k, n, page, user)
<1>1. /\ Forth(k, a, D) /\ Fields(a) /\ a.ptr = t
      /\ a.status = "up" => a.mem[t][i].present
      /\ k.mem[t][i].present => a = k
  BY TableForth
<1>2. KInv(a, D)
  BY <1>1 DEF Forth
<1>3. b = [o EXCEPT !.ptr = Load(o, o.ptr, i).frame]
  BY DEF Under, Go
<1>4. t \in {L4, L3, L2} /\ i \in Index
  OBVIOUS
<1>5. a.status = "up" =>
        /\ KInv(Open(a, i), D) /\ Like(a.mem, Open(a, i).mem) /\ Others(a, Open(a, i)) /\ Open(a, i).status = "up"
        /\ Open(a, i).mem[t][i].user /\ DOMAIN Open(a, i).mem = DOMAIN a.mem
        /\ \A x \in {L4, L3, L2} : \A j \in Index :
             /\ Open(a, i).mem[x][j].present = a.mem[x][j].present /\ Open(a, i).mem[x][j].frame = a.mem[x][j].frame
             /\ a.mem[x][j].user => Open(a, i).mem[x][j].user
  <2> SUFFICES ASSUME a.status = "up"
               PROVE  OpenDone(a, Open(a, i), D, i) /\ a.ptr = t
    BY Zenon DEF OpenDone
  <2>1. a.ptr = t /\ a.mem[t][i].present
    BY <1>1
  <2> HIDE DEF i, t, a
  <2>2. a.ptr \in {L4, L3, L2} /\ a.mem[a.ptr][i].present
    BY <1>4, <2>1, Zenon
  <2>3. QED
    BY <1>2, <1>4, <2>1, <2>2, OpenKeeps, Zenon
<1> HIDE DEF i, t, a
<1>6. a.status = "up" /\ user =>
        /\ KInv(o, D) /\ Like(a.mem, o.mem) /\ Others(a, o) /\ o.status = "up" /\ o.mem[t][i].user
        /\ DOMAIN o.mem = DOMAIN a.mem
        /\ \A x \in {L4, L3, L2} : \A j \in Index :
             /\ o.mem[x][j].present = a.mem[x][j].present /\ o.mem[x][j].frame = a.mem[x][j].frame
             /\ a.mem[x][j].user => o.mem[x][j].user
  BY <1>5
<1>7. ~user => o = a
  OBVIOUS
<1>8. a.status # "up" => o = a
  BY DownIs DEF i
<1> HIDE DEF o
<1>9. Forth(a, o, D) /\ o.ptr = t
  <2>1. CASE o = a
    <3>1. Forth(a, a, D)
      BY <1>1, <1>2, ForthSame
    <3>2. QED
      BY <1>1, <2>1, <3>1
  <2>2. CASE a.status = "up" /\ user
    <3>1. Upward(a.mem, o.mem)
      BY <1>6, <2>2 DEF Upward
    <3>2. o.used = a.used /\ o.tlb = a.tlb /\ o.heap_end = a.heap_end /\ o.ptr = a.ptr
      BY <1>6, <2>2 DEF Others
    <3>3. QED
      BY <1>1, <1>2, <1>6, <2>2, <3>1, <3>2, ForthLike
  <2>3. QED
    BY <1>7, <1>8, <2>1, <2>2
<1>10. KInv(o, D) /\ Fields(o)
  BY <1>9 DEF Forth, KInv
<1>11. /\ Fields(b) /\ b.mem = o.mem /\ b.used = o.used /\ b.tlb = o.tlb
       /\ b.heap_end = o.heap_end /\ b.status = o.status /\ b.ptr = Load(o, o.ptr, i).frame
  BY <1>3, <1>10, Excepts
<1> HIDE DEF b
<1>12. Forth(o, b, D)
  BY <1>10, <1>11, ForthSame
<1>13. Forth(k, b, D)
  BY <1>1, <1>9, <1>12, ForthThen
<1>14. ASSUME b.status = "up"
       PROVE  /\ b.mem[t][i].present /\ b.ptr = b.mem[t][i].frame
              /\ user => b.mem[t][i].user
  <2>1. o.status = "up" /\ a.status = "up"
    BY <1>9, <1>11, <1>14 DEF Forth
  <2>2. o.mem[t][i].present
    BY <1>1, <1>4, <1>6, <1>7, <2>1
  <2>3. t \in BootTables /\ t \in Identity \ Taken /\ t \in Nat
    BY <1>4, TablePlaces, Places DEF BootTables, i, t
  <2>4. Shape(o.mem) /\ Coherent(o.mem, o.tlb) /\ t \in DOMAIN o.mem
    BY <1>10, <2>3 DEF KInv, Shape
  <2>5. Reached(o.mem, t)
    BY <2>3, <2>4, BootReached
  <2>6. Load(o, o.ptr, i) = o.mem[t][i]
    BY <1>9, <2>1, <2>3, <2>4, <2>5, LoadIs DEF Cell
  <2>7. user => b.mem[t][i].user
    BY <1>6, <1>11, <2>1
  <2>8. QED
    BY <1>11, <2>2, <2>6, <2>7
<1>15. ASSUME k.mem[t][i].present
       PROVE  Calm(k, b)
  <2>1. a = k /\ a.status = "up"
    BY <1>1, <1>15
  <2>2. Calm(a, o)
    <3>1. CASE o = a
      BY <3>1 DEF Calm
    <3>2. CASE user
      <4>1. Shape(a.mem) /\ Shape(o.mem) /\ UserOpen(a.mem) /\ Like(a.mem, o.mem)
        BY <1>2, <1>6, <1>10, <2>1, <3>2 DEF KInv
      <4>2. Made(o.mem) = Made(a.mem)
        BY <4>1, LikeViews
      <4>3. QED
        BY <1>6, <2>1, <3>2, <4>2 DEF Calm, Others
    <3>3. QED
      BY <1>7, <3>1, <3>2
  <2>3. QED
    BY <1>11, <2>1, <2>2 DEF Calm
<1>16. QED
  BY <1>13, <1>14, <1>15 DEF b, t, i

(* All the way down from the root.                                         *)
Lowest(k, page, user) ==
  Under(Under(Under([k EXCEPT !.ptr = L4], 4, page, user), 3, page, user), 2, page, user)

(* Down to the lowest table of a page, which is there then.                *)
LEMMA LowestForth ==
  ASSUME NEW k, NEW D, KInv(k, D), k.status = "up", 0 \notin Made(k.mem),
         NEW page \in Reach, NEW user \in BOOLEAN
  PROVE  LET b == Lowest(k, page, user)
         IN /\ Forth(k, b, D)
            /\ b.status = "up" =>
                 /\ Dir(b.mem, Hi(page)).present /\ b.ptr = Dir(b.mem, Hi(page)).frame
                 /\ user => Opened(b.mem, page)
            /\ Dir(k.mem, Hi(page)).present => Calm(k, b)
<1> DEFINE r == [k EXCEPT !.ptr = L4]
           b4 == Under(r, 4, page, user)
           b3 == Under(b4, 3, page, user)
           b2 == Under(b3, 2, page, user)
<1>1. page \in Nat /\ At(4, page) = 0 /\ At(3, page) = 0 /\ At(2, page) = Hi(page)
      /\ 0 \in Index /\ Hi(page) \in Index
  BY Places, Indexes, FanoutIs DEF Index
<1>2. /\ Fields(r) /\ r.mem = k.mem /\ r.used = k.used /\ r.tlb = k.tlb
      /\ r.heap_end = k.heap_end /\ r.status = k.status /\ r.ptr = L4
  BY Excepts DEF KInv
<1> HIDE DEF r
<1>3. Forth(k, r, D) /\ KInv(r, D)
  <2>1. Forth(k, r, D)
    BY <1>2, ForthSame
  <2>2. QED
    BY <2>1 DEF Forth
<1>4. /\ Forth(r, b4, D)
      /\ b4.status = "up" =>
           /\ b4.mem[L4][0].present /\ b4.ptr = b4.mem[L4][0].frame
           /\ user => b4.mem[L4][0].user
      /\ Calm(r, b4)
  <2>1. r.mem[L4][0].present
    BY <1>2 DEF KInv, Shape
  <2>2. QED
    BY <1>1, <1>2, <1>3, <2>1, BelowForth
<1> HIDE DEF b4
<1>5. KInv(b4, D)
  BY <1>4 DEF Forth
<1>6. /\ Forth(b4, b3, D)
      /\ b3.status = "up" =>
           /\ b3.mem[L3][0].present /\ b3.ptr = b3.mem[L3][0].frame
           /\ user => b3.mem[L3][0].user
           /\ user => b3.mem[L4][0].user
      /\ Calm(b4, b3)
  <2>1. 0 \notin Made(b4.mem)
    BY <1>2, <1>4 DEF Calm
  <2>2. CASE b4.status = "up"
    <3>1. b4.mem[L3][0].present /\ b4.ptr = L3
      BY <1>4, <1>5, <2>2 DEF KInv, Shape
    <3>2. /\ Forth(b4, b3, D)
          /\ b3.status = "up" =>
               /\ b3.mem[L3][0].present /\ b3.ptr = b3.mem[L3][0].frame
               /\ user => b3.mem[L3][0].user
          /\ Calm(b4, b3)
      BY <1>1, <1>4, <1>5, <2>2, <2>1, <3>1, BelowForth
    <3>3. Upward(b4.mem, b3.mem)
      BY <3>2 DEF Forth
    <3>4. user => b3.mem[L4][0].user
      BY <1>1, <1>4, <2>2, <3>3 DEF Upward
    <3>5. QED
      BY <3>2, <3>4
  <2>3. QED
    BY <1>2, <1>4, <2>2 DEF Calm
<1> HIDE DEF b3
<1>7. KInv(b3, D)
  BY <1>6 DEF Forth
<1>8. /\ Forth(b3, b2, D)
      /\ b2.status = "up" =>
           /\ b2.mem[L2][Hi(page)].present /\ b2.ptr = b2.mem[L2][Hi(page)].frame
           /\ user => b2.mem[L2][Hi(page)].user
           /\ user => b2.mem[L4][0].user /\ b2.mem[L3][0].user
      /\ Dir(b3.mem, Hi(page)).present => Calm(b3, b2)
  <2>1. 0 \notin Made(b3.mem) /\ b3.status = "up"
    BY <1>2, <1>4, <1>6 DEF Calm
  <2>2. CASE b3.status = "up"
    <3>1. b3.ptr = L2
      BY <1>6, <1>7, <2>2 DEF KInv, Shape
    <3>2. /\ Forth(b3, b2, D)
          /\ b2.status = "up" =>
               /\ b2.mem[L2][Hi(page)].present /\ b2.ptr = b2.mem[L2][Hi(page)].frame
               /\ user => b2.mem[L2][Hi(page)].user
          /\ b3.mem[L2][Hi(page)].present => Calm(b3, b2)
      BY <1>1, <1>6, <1>7, <2>2, <2>1, <3>1, BelowForth
    <3>3. Upward(b3.mem, b2.mem)
      BY <3>2 DEF Forth
    <3>4. b3.mem[L4][0].present
      BY <1>7 DEF KInv, Shape
    <3>5. user => b2.mem[L4][0].user /\ b2.mem[L3][0].user
      BY <1>1, <1>6, <2>2, <3>3, <3>4 DEF Upward
    <3>6. QED
      BY <3>2, <3>5 DEF Dir
  <2>3. QED
    BY <2>2, <2>1
<1>9. Forth(k, b2, D)
  <2>1. Forth(r, b3, D)
    BY <1>4, <1>6, ForthThen
  <2>2. Forth(r, b2, D)
    BY <1>8, <2>1, ForthThen
  <2>3. QED
    BY <1>3, <2>2, ForthThen
<1>10. ASSUME Dir(k.mem, Hi(page)).present
       PROVE  Calm(k, b2)
  <2>1. Calm(k, b3)
    BY <1>2, <1>4, <1>6 DEF Calm
  <2>2. Upward(k.mem, b3.mem)
    <3>1. Forth(k, b3, D)
      BY <1>3, <1>4, <1>6, ForthThen
    <3>2. QED
      BY <3>1 DEF Forth
  <2>3. Dir(b3.mem, Hi(page)).present
    BY <1>1, <1>10, <2>2 DEF Upward, Dir
  <2>4. QED
    BY <1>8, <2>1, <2>3 DEF Calm
<1>11. Lowest(k, page, user) = b2
  BY DEF Lowest, b4, b3, r
<1> HIDE DEF b2
<1>12. QED
  BY <1>8, <1>9, <1>11, <1>10 DEF Dir, Opened
-----------------------------------------------------------------------------
(* Setting an entry of the lowest table.                                   *)

(* Each table hangs from one entry of the table of level 2.                *)
LEMMA DirOnce ==
  ASSUME NEW k, NEW D, KInv(k, D), NEW i \in Index, NEW j \in Index,
         Dir(k.mem, i).present, Dir(k.mem, j).present, Dir(k.mem, i).frame = Dir(k.mem, j).frame
  PROVE  i = j
<1>1. Shape(k.mem) /\ Sizes(k) /\ TablesMade(k.mem, k.used)
  BY DEF KInv
<1>2. \A x \in Made(k.mem) : x \notin {L1(h) : h \in 0..(BOOT_L1 - 1)}
  <2>1. \A x \in Made(k.mem) : x = 0 \/ (x \in Nat /\ x >= FIRST_FREE)
    BY <1>1, FramesFit DEF TablesMade
  <2>2. FIRST_FREE \in Nat /\ 0 \notin BootTables /\ \A x \in BootTables : x < FIRST_FREE
    BY TablePlaces, Places
  <2>3. \A x \in Nat : x < FIRST_FREE => ~(x >= FIRST_FREE)
    BY <2>2
  <2>4. QED
    BY <2>1, <2>2, <2>3, TablePlaces
<1>3. CASE i \in Upper /\ j \in Upper
  BY <1>1, <1>3 DEF TablesMade
<1>4. CASE i \notin Upper /\ j \notin Upper
  BY <1>4, DirFits, TablePlaces
<1>5. CASE (i \in Upper) # (j \in Upper)
  BY <1>2, <1>5, DirFits
<1>6. QED
  BY <1>3, <1>4, <1>5

(* The entry of a page in its table.                                       *)
Entered(o, m, page, cell) ==
  LET t == Dir(o, Hi(page)).frame
  IN Patched(o, m, t, [o[t] EXCEPT ![Lo(page)] = cell])

SetSeen(o, m, page, cell) ==
  /\ Shape(m) /\ DOMAIN m = DOMAIN o
  /\ \A i \in Index : Dir(m, i) = Dir(o, i)
  /\ Made(m) = Made(o)
  /\ Low(m, page) = cell
  /\ \A q \in Reach : q # page /\ Dir(o, Hi(q)).present => Low(m, q) = Low(o, q)
  /\ \A q \in Reach : Opened(m, q) = Opened(o, q)
  /\ \A q \in Nat : q # page /\ q < FANOUT * FANOUT * FANOUT * FANOUT => Walk(m, q) = Walk(o, q)

(* It changes the translation of this page alone.                          *)
LEMMA SetViews ==
  ASSUME NEW k, NEW D, KInv(k, D), NEW page \in Movable, Dir(k.mem, Hi(page)).present,
         Dir(k.mem, Hi(page)).frame \in DOMAIN k.mem, NEW cell \in Cells,
         NEW m, Entered(k.mem, m, page, cell)
  PROVE  SetSeen(k.mem, m, page, cell)
<1> DEFINE o == k.mem
           t == Dir(o, Hi(page)).frame
           row == [o[t] EXCEPT ![Lo(page)] = cell]
<1>1. Shape(o) /\ Sizes(k) /\ TablesMade(o, k.used) /\ KInv(k, D)
  BY DEF KInv
<1>2. \A q \in Reach : q \in Nat /\ Hi(q) \in Index /\ Lo(q) \in Index /\ q = FANOUT * Hi(q) + Lo(q)
  BY Indexes, Places, HiLo
<1>3. page \in Reach /\ page \notin Identity \ Taken
  BY DEF Movable
<1>4. t \in DOMAIN o /\ Dir(o, Hi(page)).present
  OBVIOUS
<1>5. o[t] \in [Index -> Cells]
  BY <1>1, <1>4 DEF Shape, Typed
<1>6. row \in [Index -> Cells] /\ row[Lo(page)] = cell /\ \A j \in Index \ {Lo(page)} : row[j] = o[t][j]
  BY <1>2, <1>3, <1>5
<1>7. t \notin {L4, L3, L2}
  <2>1. Hi(page) \in Index
    BY <1>2, <1>3
  <2>2. CASE Hi(page) \in Upper
    <3>1. t \in k.used \cup {0}
      BY <1>1, <2>1, <2>2, DirFits DEF TablesMade
    <3>2. \A x \in k.used : x \in Nat /\ x >= FIRST_FREE
      BY <1>1, FramesFit
    <3>3. FIRST_FREE \in Nat /\ 0 \notin BootTables /\ \A x \in BootTables : x < FIRST_FREE
      BY TablePlaces, Places
    <3>4. \A x \in Nat : x < FIRST_FREE => ~(x >= FIRST_FREE)
      BY <3>3
    <3>5. QED
      BY <3>1, <3>2, <3>3, <3>4 DEF BootTables
  <2>3. CASE Hi(page) \notin Upper
    BY <1>1, <2>1, <2>3, DirFits, TablePlaces
  <2>4. QED
    BY <2>2, <2>3
<1>8. Patched(o, m, t, row)
  BY DEF Entered
<1> HIDE DEF o, t, row
<1>9. DOMAIN m = DOMAIN o /\ m[t] = row /\ \A x \in DOMAIN o \ {t} : m[x] = o[x]
  BY <1>4, <1>8 DEF Patched
<1>10. L4 \in DOMAIN o /\ L3 \in DOMAIN o /\ L2 \in DOMAIN o
  BY <1>1 DEF Shape, BootTables
<1>11. m[L4] = o[L4] /\ m[L3] = o[L3] /\ m[L2] = o[L2]
  BY <1>7, <1>9, <1>10
<1>12. \A i : Dir(m, i) = Dir(o, i)
  BY <1>11 DEF Dir
<1>13. Made(m) = Made(o)
  BY <1>12 DEF Made
<1>14. \A i \in Index : Dir(o, i).present /\ Dir(o, i).frame = t => i = Hi(page)
  BY <1>1, <1>2, <1>3, <1>4, DirOnce DEF o, t
<1>15. ASSUME NEW q \in Reach, q # page, Dir(o, Hi(q)).present
       PROVE  Low(m, q) = Low(o, q)
  <2>1. CASE Dir(o, Hi(q)).frame # t
    BY <1>9, <1>12, <2>1 DEF Low, Cell
  <2>2. CASE Dir(o, Hi(q)).frame = t
    <3>1. Hi(q) = Hi(page)
      BY <1>2, <1>14, <1>15, <2>2
    <3>2. Lo(q) # Lo(page)
      BY <1>2, <1>3, <1>15, <3>1
    <3>3. QED
      BY <1>2, <1>4, <1>6, <1>9, <1>12, <2>2, <3>2 DEF Low, Cell
  <2>3. QED
    BY <2>1, <2>2
<1>16. Low(m, page) = cell
  <2>1. Dir(m, Hi(page)).frame = t
    BY <1>12 DEF t
  <2>2. QED
    BY <1>4, <1>6, <1>9, <2>1 DEF Low, Cell
<1>17. Shape(m)
  <2>1. Typed(m) /\ BootTables \subseteq DOMAIN m
    BY <1>1, <1>6, <1>9 DEF Shape, Typed
  <2>2. \A q \in Identity \ Taken : m[L1(Hi(q))][Lo(q)] = Entry(q, FALSE)
    <3> TAKE q \in Identity \ Taken
    <3>1. q \in Reach /\ Hi(q) \in 0..(BOOT_L1 - 1) /\ Dir(o, Hi(q)).present /\ Low(o, q) = Entry(q, FALSE)
      BY <1>1, WalkIdentity
    <3>2. Low(m, q) = Entry(q, FALSE)
      BY <1>3, <1>15, <3>1
    <3>3. Dir(m, Hi(q)).frame = L1(Hi(q)) /\ L1(Hi(q)) \in DOMAIN m
      BY <1>1, <1>9, <1>12, <3>1, TablePlaces DEF Shape
    <3>4. QED
      BY <3>2, <3>3 DEF Low, Cell
  <2>3. QED
    BY <1>1, <1>11, <1>12, <2>1, <2>2 DEF Shape
<1>18. \A q \in Reach : Opened(m, q) = Opened(o, q)
  BY <1>11, <1>12 DEF Opened
<1>19. ASSUME NEW q \in Nat, q # page, q < FANOUT * FANOUT * FANOUT * FANOUT
       PROVE  Walk(m, q) = Walk(o, q)
  <2>1. CASE q \notin Reach
    BY <1>1, <1>17, <1>19, <2>1, WalkIs
  <2>2. CASE q \in Reach
    <3>1. Dir(m, Hi(q)) = Dir(o, Hi(q)) /\ Opened(m, q) = Opened(o, q)
      BY <1>12, <1>18, <2>2
    <3>2. Dir(o, Hi(q)).present => Low(m, q) = Low(o, q)
      BY <1>15, <1>19, <2>2
    <3>3. QED
      BY <1>1, <1>17, <2>2, <3>1, <3>2, WalkIs
  <2>3. QED
    BY <2>1, <2>2
<1>20. SetSeen(o, m, page, cell)
  BY <1>9, <1>12, <1>13, <1>15, <1>16, <1>17, <1>18, <1>19 DEF SetSeen
<1>21. QED
  BY <1>20 DEF o
(* What the new entry must be.                                             *)
Fitting(k, m, page, cell, D, G) ==
  /\ Kind(m, k.used, G, page)
  /\ ~(page \in Made(k.mem) /\ Reached(m, page))
  /\ page \in G /\ Serves(m, page) => cell.frame \notin Held(k.mem, D \ {page})
  /\ Serves(m, page) /\ cell.user => Opened(k.mem, page)

(* The processor keeps all but what it had of this page.                   *)
Forgets(k, n, page) == n.tlb = [p \in DOMAIN k.tlb \ {page} |-> k.tlb[p]]

SetDone(k, n, page, D, G) ==
  /\ KInv(n, G)
  /\ InReach(n.mem) => InReach(k.mem)
  /\ \A q \in Reach : q # page => Serves(n.mem, q) = Serves(k.mem, q)
  /\ Held(n.mem, G \ {page}) = Held(k.mem, D \ {page})

(* Setting the entry of a page keeps the invariant, if the entry fits and  *)
(* the processor forgets the old one.                                      *)
LEMMA SetKeeps ==
  ASSUME NEW k, NEW D, KInv(k, D), k.status = "up", NEW page \in Movable, NEW cell, NEW n,
         SetSeen(k.mem, n.mem, page, cell),
         NEW G \in SUBSET Movable, G \ {page} = D \ {page}, Fitting(k, n.mem, page, cell, D, G),
         Fields(n), n.used = k.used, n.status = "up", Forgets(k, n, page)
  PROVE  SetDone(k, n, page, D, G)
<1> DEFINE E == FANOUT * FANOUT * FANOUT * FANOUT
           o == k.mem
           m == n.mem
<1>1. /\ Shape(m) /\ DOMAIN m = DOMAIN o
      /\ \A i \in Index : Dir(m, i) = Dir(o, i)
      /\ Made(m) = Made(o)
      /\ Low(m, page) = cell
      /\ \A q \in Reach : q # page /\ Dir(o, Hi(q)).present => Low(m, q) = Low(o, q)
      /\ \A q \in Reach : Opened(m, q) = Opened(o, q)
      /\ \A q \in Nat : q # page /\ q < E => Walk(m, q) = Walk(o, q)
  BY Zenon DEF SetSeen
<1>2. /\ Shape(o) /\ Sizes(k) /\ UserOpen(o) /\ D \subseteq Movable /\ TablesMade(o, k.used)
      /\ Kinds(o, k.used, D) /\ HeldOnce(o, D) /\ Coherent(o, k.tlb) /\ KInv(k, D)
  BY DEF KInv
<1>3. /\ Kind(m, k.used, G, page)
      /\ ~(page \in Made(o) /\ Reached(m, page))
      /\ page \in G /\ Serves(m, page) => cell.frame \notin Held(o, D \ {page})
      /\ Serves(m, page) /\ cell.user => Opened(o, page)
  BY DEF Fitting
<1>4. \A q \in Reach : q \in Nat /\ Hi(q) \in Index /\ q < E
  BY <1>2, Indexes, Places, FramesFit
<1>5. D \subseteq Reach /\ G \subseteq Reach /\ Movable \subseteq Reach /\ Upper \subseteq Index
  BY <1>2, FanoutIs DEF Movable, Upper, Index
<1>6. \A q \in G : q # page => q \in D
  OBVIOUS
<1>7. \A q \in D : q # page => q \in G
  OBVIOUS
<1> HIDE DEF E, o, m
<1>8. \A q \in Reach : q # page => Serves(m, q) = Serves(o, q)
  <2> TAKE q \in Reach
  <2> HAVE q # page
  <2>1. Dir(m, Hi(q)) = Dir(o, Hi(q))
    BY <1>1, <1>4
  <2>2. Dir(o, Hi(q)).present => Low(m, q) = Low(o, q)
    BY <1>1
  <2>3. QED
    BY <2>1, <2>2 DEF Serves
<1>9. \A q \in Reach : q # page /\ Serves(o, q) => Low(m, q) = Low(o, q)
  BY <1>1 DEF Serves
<1>10. TablesMade(m, n.used)
  BY <1>1, <1>2, <1>5 DEF TablesMade
<1>11. ASSUME NEW q \in Movable, q # page, Dir(m, Hi(q)).present
       PROVE  Kind(m, k.used, G, q)
  <2>1. q \in Reach /\ Hi(q) \in Index
    BY <1>4, <1>5
  <2>2. Dir(m, Hi(q)) = Dir(o, Hi(q)) /\ Dir(o, Hi(q)).present /\ Low(m, q) = Low(o, q)
    BY <1>1, <1>11, <2>1
  <2>3. Kind(o, k.used, D, q)
    BY <1>2, <1>11, <2>2 DEF Kinds
  <2>4. ASSUME ~Reached(o, Dir(o, Hi(q)).frame)
        PROVE  ~Reached(m, Dir(o, Hi(q)).frame)
    <3>1. Dir(o, Hi(q)).frame \in Nat /\ Dir(o, Hi(q)).frame < E /\ Dir(o, Hi(q)).frame \in Made(o)
      BY <1>2, <2>1, <2>2, <2>4, DirFits DEF E, o
    <3>2. CASE Dir(o, Hi(q)).frame # page
      BY <1>1, <2>4, <3>1, <3>2 DEF Reached
    <3>3. CASE Dir(o, Hi(q)).frame = page
      BY <1>3, <3>1, <3>3
    <3>4. QED
      BY <3>2, <3>3
  <2>5. QED
    BY <1>1, <1>6, <1>7, <1>11, <2>2, <2>3, <2>4 DEF Kind
<1>12. Kinds(m, n.used, G)
  BY <1>3, <1>11 DEF Kinds
<1>13. Held(m, G \ {page}) = Held(o, D \ {page})
  <2>1. {p \in G \ {page} : Serves(m, p)} = {p \in D \ {page} : Serves(o, p)}
    BY <1>5, <1>8
  <2>2. \A p \in {q \in D \ {page} : Serves(o, q)} : Low(m, p).frame = Low(o, p).frame
    BY <1>5, <1>9
  <2>3. QED
    BY <2>1, <2>2 DEF Held
<1>14. HeldOnce(m, G)
  <2> SUFFICES ASSUME NEW p \in G, NEW q \in G, Serves(m, p), Serves(m, q), Low(m, p).frame = Low(m, q).frame
               PROVE  p = q
    BY DEF HeldOnce
  <2>1. CASE p # page /\ q # page
    <3>1. p \in D /\ q \in D /\ Serves(o, p) /\ Serves(o, q) /\ Low(m, p) = Low(o, p) /\ Low(m, q) = Low(o, q)
      BY <1>5, <1>6, <1>8, <1>9, <2>1
    <3>2. QED
      BY <1>2, <3>1 DEF HeldOnce
  <2>2. \A r \in G : r # page /\ Serves(m, r) => Low(m, r).frame \in Held(o, D \ {page})
    BY <1>13 DEF Held
  <2>3. page \in G /\ Serves(m, page) => Low(m, page).frame \notin Held(o, D \ {page})
    BY <1>1, <1>3
  <2>4. QED
    BY <2>1, <2>2, <2>3
<1>15. UserOpen(m)
  <2> SUFFICES ASSUME NEW q \in Reach, Serves(m, q), Low(m, q).user
               PROVE  Opened(m, q)
    BY DEF UserOpen
  <2>1. CASE q = page
    BY <1>1, <1>3, <2>1
  <2>2. CASE q # page
    BY <1>1, <1>2, <1>8, <1>9, <2>2 DEF UserOpen
  <2>3. QED
    BY <2>1, <2>2
<1>16. Coherent(m, n.tlb)
  <2>1. \A q \in DOMAIN k.tlb : q \in Nat /\ q < E
    <3>1. Cached \subseteq Pages
      BY VmmAssumption, Zenon
    <3>2. QED
      BY <1>2, <1>4, <3>1, Places DEF Coherent
  <2>2. DOMAIN n.tlb = DOMAIN k.tlb \ {page} /\ \A q \in DOMAIN n.tlb : n.tlb[q] = k.tlb[q]
    BY DEF Forgets
  <2>3. QED
    BY <1>1, <1>2, <2>1, <2>2 DEF Coherent
<1>17. Sizes(n)
  BY <1>1, <1>2 DEF Sizes, Free, m, o
<1>18. InReach(m) => InReach(o)
  <2> SUFFICES ASSUME InReach(m), NEW t \in Made(o)
               PROVE  Reached(o, t)
    BY DEF InReach
  <2>1. Reached(m, t)
    BY <1>1 DEF InReach
  <2>2. t # page
    BY <1>3, <2>1
  <2>3. t \in Nat /\ t < E
    BY <1>2, FramesFit DEF TablesMade, E
  <2>4. QED
    BY <1>1, <2>1, <2>2, <2>3 DEF Reached
<1>19. KInv(n, G)
  BY <1>1, <1>10, <1>12, <1>14, <1>15, <1>16, <1>17 DEF KInv, Stopped, m
<1>20. QED
  BY <1>8, <1>13, <1>18, <1>19 DEF SetDone, m, o
(* The end of vmm_map and of vmm_unmap.                                    *)
Setting(k, page, cell) == Invlpg(Store(k, k.ptr, At(1, page), cell), page)

(* Both go from one state to one state.                                    *)
LEMMA SettingIs ==
  ASSUME NEW k, NEW page, NEW cell
  PROVE  SetEntry({k}, At(1, page), cell, page) = {Setting(k, page, cell)}
BY DEF SetEntry, Then, Setting

(* In a table it can reach the mapper sets the entry it means to.          *)
LEMMA SettingReached ==
  ASSUME NEW k, NEW D, KInv(k, D), k.status = "up", NEW page \in Movable,
         Dir(k.mem, Hi(page)).present, k.ptr = Dir(k.mem, Hi(page)).frame,
         Reached(k.mem, k.ptr), NEW cell \in Cells
  PROVE  LET n == Setting(k, page, cell)
         IN /\ SetSeen(k.mem, n.mem, page, cell)
            /\ Fields(n) /\ n.used = k.used /\ n.status = "up" /\ n.heap_end = k.heap_end
            /\ Forgets(k, n, page)
<1> DEFINE t == k.ptr
           i == At(1, page)
           s == Store(k, t, i, cell)
           n == Setting(k, page, cell)
           row == [k.mem[t] EXCEPT ![i] = cell]
           T == [p \in DOMAIN k.tlb \ {page} |-> k.tlb[p]]
<1>1. Shape(k.mem) /\ Coherent(k.mem, k.tlb) /\ Fields(k) /\ Sizes(k) /\ Kinds(k.mem, k.used, D)
  BY DEF KInv
<1>2. page \in Reach /\ page \in Nat /\ Hi(page) \in Index /\ Lo(page) \in Index /\ i = Lo(page)
  BY Indexes, Places, HiLo DEF Movable
<1>3. t \in Nat /\ t < FANOUT * FANOUT * FANOUT * FANOUT
  BY <1>2, DirFits
<1>4. Walk(k.mem, t).frame = t /\ Leads(Walk(k.mem, t))
  BY <1>3 DEF Reached, Leads
<1>5. t \in DOMAIN k.mem
  <2>1. Kind(k.mem, k.used, D, page)
    BY <1>1 DEF Kinds
  <2>2. Low(k.mem, page) # Junk
    <3> SUFFICES ASSUME Low(k.mem, page) = Junk PROVE FALSE
      OBVIOUS
    <3>1. Junk # Zero /\ Junk # Entry(page, FALSE) /\ Junk.frame = -1
      <4>1. page \in Int /\ FALSE \in BOOLEAN /\ page # -1
        BY <1>2
      <4>2. QED
        BY <4>1, CellKinds
    <3>2. Junk.frame \notin k.used
      BY <1>1, <3>1, FramesFit
    <3>3. QED
      BY <2>1, <3>1, <3>2 DEF Kind
  <2>3. QED
    BY <2>2 DEF Low, Cell
<1>6. Puts(k, s, t, row)
  BY <1>1, <1>3, <1>4, <1>5, StoreIs
<1>7. Entered(k.mem, s.mem, page, cell)
  BY <1>2, <1>6 DEF Puts, Entered
<1> HIDE DEF row, s
<1>8. SetSeen(k.mem, s.mem, page, cell)
  BY <1>5, <1>7, SetViews
<1>9. Fields(s) /\ Others(k, s) /\ s.status = "up"
  BY <1>6 DEF Puts
<1>10. n = [s EXCEPT !.tlb = [p \in DOMAIN s.tlb \ {page} |-> s.tlb[p]]]
  BY <1>9 DEF Setting, Invlpg, s
<1>11. T = [p \in DOMAIN s.tlb \ {page} |-> s.tlb[p]]
  BY <1>9 DEF Others
<1> HIDE DEF n, T
<1>12. n = [s EXCEPT !.tlb = T]
  BY <1>10, <1>11
<1>13. Fields(n) /\ n.mem = s.mem /\ n.used = s.used /\ n.tlb = T /\ n.heap_end = s.heap_end /\ n.status = s.status
  BY <1>9, <1>12, Excepts
<1>14. SetSeen(k.mem, n.mem, page, cell) /\ Fields(n) /\ n.used = k.used /\ n.status = "up"
       /\ n.heap_end = k.heap_end /\ n.tlb = T
  BY <1>8, <1>9, <1>13 DEF Others
<1>15. QED
  BY <1>14 DEF n, T, Forgets

(* Where it cannot reach the table, it sets something that is no entry, or *)
(* the machine stops.                                                      *)
LEMMA SettingAway ==
  ASSUME NEW k, NEW D, KInv(k, D), NEW page \in Movable,
         k.status = "up" =>
           /\ Dir(k.mem, Hi(page)).present /\ k.ptr = Dir(k.mem, Hi(page)).frame
           /\ ~Reached(k.mem, k.ptr),
         NEW cell \in Cells
  PROVE  LET n == Setting(k, page, cell)
         IN /\ KInv(n, D) /\ n.used = k.used /\ n.heap_end = k.heap_end
            /\ Like(k.mem, n.mem)
            /\ n.status = "up" => k.status = "up" /\ ~InReach(n.mem)
<1> DEFINE t == k.ptr
           i == At(1, page)
           s == Store(k, t, i, cell)
           n == Setting(k, page, cell)
<1>1. Shape(k.mem) /\ Coherent(k.mem, k.tlb) /\ Fields(k) /\ Sizes(k) /\ UserOpen(k.mem)
  BY DEF KInv
<1>2. page \in Nat /\ Hi(page) \in Index /\ i \in Index
  BY Indexes, Places, HiLo DEF Movable
<1>3. CASE k.status # "up"
  <2>1. s = k
    BY <1>3, DownIs
  <2>2. n = k
    BY <1>3, <2>1 DEF Setting, Invlpg
  <2>3. Like(k.mem, k.mem)
    BY DEF Like
  <2> HIDE DEF n
  <2>4. KInv(n, D) /\ n.used = k.used /\ n.heap_end = k.heap_end /\ Like(k.mem, n.mem) /\ n.status # "up"
    BY <1>3, <2>2, <2>3
  <2>5. QED
    BY <2>4 DEF n
<1>4. CASE k.status = "up"
  <2>1. Dir(k.mem, Hi(page)).present /\ t = Dir(k.mem, Hi(page)).frame /\ ~Reached(k.mem, t)
    BY <1>4
  <2>2. t \in Nat /\ t < FANOUT * FANOUT * FANOUT * FANOUT /\ t \in Made(k.mem)
    BY <1>2, <2>1, DirFits
  <2>3. t \in k.used \ Held(k.mem, D)
    BY <2>1, <2>2, OutOfReach
  <2>4. Leads(Walk(k.mem, t)) => Walk(k.mem, t).frame \in k.used \ Made(k.mem)
    BY <2>1, <2>2, WhereTo DEF Reached
  <2>5. KInv(s, D) /\ Like(k.mem, s.mem) /\ Others(k, s) /\ (s.status = "up" => k.status = "up")
    BY <1>2, <1>4, <2>1, <2>2, <2>3, <2>4, StoreAway
  <2> HIDE DEF s
  <2> DEFINE T == IF s.status = "up" THEN [p \in DOMAIN s.tlb \ {page} |-> s.tlb[p]] ELSE s.tlb
  <2>6. Fields(s)
    BY <2>5 DEF KInv
  <2>7. /\ Fields(n) /\ n.mem = s.mem /\ n.used = s.used /\ n.tlb = T
        /\ n.heap_end = s.heap_end /\ n.status = s.status
    <3>1. CASE s.status = "up"
      <4>1. n = [s EXCEPT !.tlb = T]
        BY <3>1 DEF Setting, Invlpg, s
      <4> HIDE DEF n, T
      <4>2. QED
        BY <2>6, <4>1, Excepts
    <3>2. CASE s.status # "up"
      <4>1. n = s
        BY <3>2 DEF Setting, Invlpg, s
      <4> HIDE DEF n
      <4>2. QED
        BY <2>6, <3>2, <4>1
    <3>3. QED
      BY <3>1, <3>2
  <2> HIDE DEF n
  <2>8. Coherent(n.mem, n.tlb)
    <3>1. Coherent(s.mem, s.tlb)
      BY <2>5 DEF KInv
    <3>2. DOMAIN T \subseteq DOMAIN s.tlb /\ \A p \in DOMAIN T : T[p] = s.tlb[p]
      OBVIOUS
    <3> HIDE DEF T
    <3>3. QED
      BY <2>7, <3>1, <3>2 DEF Coherent
  <2>9. KInv(n, D)
    BY <2>5, <2>7, <2>8 DEF KInv, Sizes, Free, Stopped
  <2>10. ~InReach(n.mem)
    <3>1. Made(s.mem) = Made(k.mem) /\ Reached(s.mem, t) = Reached(k.mem, t)
      BY <1>1, <2>2, <2>5, LikeViews DEF KInv
    <3>2. QED
      BY <2>1, <2>2, <2>7, <3>1 DEF InReach
  <2>11. n.used = k.used /\ n.heap_end = k.heap_end /\ Like(k.mem, n.mem) /\ (n.status = "up" => k.status = "up")
    BY <2>5, <2>7 DEF Others
  <2>12. QED
    BY <2>9, <2>10, <2>11 DEF n
<1>5. QED
  BY <1>3, <1>4
(* A page that memory is not mapped to itself at may be asked for and yet  *)
(* not be mapped.                                                          *)
LEMMA AskedFor ==
  ASSUME NEW k, NEW D, KInv(k, D), NEW page \in Movable \ Taken
  PROVE  KInv(k, D \cup {page})
<1> DEFINE G == D \cup {page}
<1>1. Shape(k.mem) /\ D \subseteq Movable /\ Kinds(k.mem, k.used, D) /\ HeldOnce(k.mem, D) /\ Stopped(k, D)
  BY DEF KInv
<1>2. page \in D \/ ~Serves(k.mem, page)
  <2> SUFFICES ASSUME Serves(k.mem, page) PROVE page \in D
    OBVIOUS
  <2>1. Kind(k.mem, k.used, D, page)
    BY <1>1 DEF Kinds, Serves
  <2>2. Low(k.mem, page) # Zero /\ Low(k.mem, page) # Junk
    BY CellKinds DEF Serves
  <2>3. QED
    BY <2>1, <2>2 DEF Kind
<1>3. Kinds(k.mem, k.used, G)
  <2> SUFFICES ASSUME NEW q \in Movable, Dir(k.mem, Hi(q)).present
               PROVE  Kind(k.mem, k.used, G, q)
    BY Zenon DEF Kinds
  <2>1. Kind(k.mem, k.used, D, q)
    BY <1>1 DEF Kinds
  <2>2. QED
    BY <2>1 DEF Kind
<1>4. HeldOnce(k.mem, G)
  BY <1>1, <1>2 DEF HeldOnce
<1>5. Held(k.mem, G) = Held(k.mem, D)
  BY <1>2 DEF Held
<1>6. Stopped(k, G)
  BY <1>1, <1>5 DEF Stopped
<1>7. G \subseteq Movable
  BY <1>1
<1>8. QED
  BY <1>3, <1>4, <1>6, <1>7 DEF KInv

(* vmm_map of a frame that was just taken.                                 *)
Mapping(k, page, user) ==
  Setting(Lowest(Take(k), page, user), page, Entry(Fresh(k), user))

(* It goes from one state to one state.                                    *)
LEMMA MapNewIs ==
  ASSUME NEW k, NEW page, NEW user \in BOOLEAN
  PROVE  MapNew(k, page, user) = {Mapping(k, page, user)}
<1> DEFINE r == [Take(k) EXCEPT !.ptr = L4]
           b4 == Under(r, 4, page, user)
           b3 == Under(b4, 3, page, user)
           b2 == Under(b3, 2, page, user)
<1>1. FromRoot({Take(k)}) = {r}
  BY DEF FromRoot, Then
<1>2. b2 = Lowest(Take(k), page, user)
  BY DEF Lowest
<1> HIDE DEF r
<1>3. Descend({r}, 4, page, user) = {b4}
  BY DescendIs
<1> HIDE DEF b4
<1>4. Descend({b4}, 3, page, user) = {b3}
  BY DescendIs
<1> HIDE DEF b3
<1>5. Descend({b3}, 2, page, user) = {b2}
  BY DescendIs
<1> HIDE DEF b2
<1>6. MapNew(k, page, user) = SetEntry({b2}, At(1, page), Entry(Fresh(k), user), page)
  BY <1>1, <1>3, <1>4, <1>5 DEF MapNew, VmmMap
<1>7. MapNew(k, page, user) = {Setting(b2, page, Entry(Fresh(k), user))}
  BY <1>6, SettingIs
<1>8. QED
  BY <1>2, <1>7 DEF Mapping

(* What the mapping of page does, if all tables can be reached then.       *)
Was(k, D, page) ==
  IF page \in D /\ Serves(k.mem, page) THEN {Walk(k.mem, page).frame} ELSE {}

MapSeen(k, n, D, page, user) ==
  /\ InReach(k.mem)
  /\ Serves(n.mem, page) /\ Walk(n.mem, page) = [frame |-> Fresh(k), user |-> user]
  /\ \A q \in Reach : q # page => Serves(n.mem, q) = Serves(k.mem, q)
  /\ \A q \in Nat : q # page /\ q < FANOUT * FANOUT * FANOUT * FANOUT =>
       /\ Leads(Walk(n.mem, q)) = Leads(Walk(k.mem, q))
       /\ Leads(Walk(k.mem, q)) => Walk(n.mem, q) = Walk(k.mem, q)
  /\ Loose(n, D \cup {page}) = Loose(k, D) \cup Was(k, D, page)

(* Mapping a new page keeps the invariant, maps this page alone and leaves *)
(* nothing without a use but what the page had before.                     *)
LEMMA MapKeeps ==
  ASSUME NEW k, NEW D, KInv(k, D), k.status = "up", Free(k) # {},
         NEW page \in Movable, NEW user \in BOOLEAN
  PROVE  LET n == Mapping(k, page, user)
         IN /\ KInv(n, D \cup {page}) /\ n.heap_end = k.heap_end
            /\ n.status = "up" /\ InReach(n.mem) => MapSeen(k, n, D, page, user)
            /\ page \in Taken =>
                 /\ n.status = "up" /\ n.used = k.used \cup {Fresh(k)}
                 /\ Made(n.mem) = Made(k.mem) /\ DOMAIN n.mem = DOMAIN k.mem
                 /\ Low(n.mem, page) = Entry(Fresh(k), user)
<1> DEFINE F == Fresh(k)
           c == Take(k)
           b == Lowest(c, page, user)
           e == Entry(F, user)
           n == Mapping(k, page, user)
           G == D \cup {page}
<1>1. Sizes(k) /\ Shape(k.mem) /\ TablesMade(k.mem, k.used) /\ UserOpen(k.mem) /\ KInv(k, D)
  BY DEF KInv
<1>2. F \in Free(k) /\ F \in Nat /\ F \notin k.used /\ F \in FIRST_FREE..(frames - 1) /\ F # 0
  <2>1. F \in Free(k) /\ F \in Nat
    BY <1>1, FreshIs
  <2>2. 0 \notin Free(k)
    BY Places, FanoutIs DEF Free
  <2>3. QED
    BY <2>1, <2>2 DEF Free
<1>3. /\ KInv(c, D) /\ c.mem = k.mem /\ c.status = "up" /\ c.heap_end = k.heap_end
      /\ c.used = k.used \cup {F}
  <2>1. /\ KInv(c, D) /\ c.mem = k.mem /\ c.status = k.status /\ c.heap_end = k.heap_end
        /\ c.used = k.used \cup ({F} \ {0})
    BY TakeKeeps
  <2>2. {F} \ {0} = {F}
    BY <1>2
  <2>3. QED
    BY <2>1, <2>2
<1>4. 0 \notin Made(k.mem)
  BY <1>1 DEF Sizes
<1>5. page \in Reach /\ page \in Nat /\ Hi(page) \in Index /\ page < FANOUT * FANOUT * FANOUT * FANOUT
  BY <1>1, Places, Indexes, FramesFit DEF Movable
<1>6. F \notin Made(k.mem) /\ F \notin Held(k.mem, D) /\ F \notin Loose(k, D)
  BY <1>1, <1>2, HeldUsed DEF TablesMade, Loose
<1>7. Loose(c, D) = Loose(k, D) \cup {F}
  BY <1>3, <1>6 DEF Loose
<1> HIDE DEF F, c
<1>8. /\ Forth(c, b, D)
      /\ b.status = "up" =>
           /\ Dir(b.mem, Hi(page)).present /\ b.ptr = Dir(b.mem, Hi(page)).frame
           /\ user => Opened(b.mem, page)
      /\ Dir(c.mem, Hi(page)).present => Calm(c, b)
  BY <1>3, <1>4, <1>5, LowestForth
<1>9. n = Setting(b, page, e)
  BY DEF Mapping, F, c
<1> HIDE DEF b, n, e
<1>10. e \in Cells /\ e.present /\ e.frame = F /\ e.user = user
  BY <1>2, CellKinds DEF e
<1>11. /\ KInv(b, D) /\ b.heap_end = k.heap_end /\ c.used \subseteq b.used
       /\ F \in Loose(b, D)
       /\ b.status = "up" /\ InReach(b.mem) => InReach(k.mem) /\ Loose(b, D) = Loose(k, D) \cup {F}
       /\ Seen(k.mem, b.mem)
  BY <1>3, <1>7, <1>8 DEF Forth
<1>12. Shape(b.mem) /\ D \subseteq Movable /\ HeldOnce(b.mem, D) /\ Fields(b)
  BY <1>11 DEF KInv
<1>13. page \in Taken => b.status = "up" /\ Reached(b.mem, b.ptr)
  <2> SUFFICES ASSUME page \in Taken
               PROVE  b.status = "up" /\ Reached(b.mem, b.ptr)
    OBVIOUS
  <2>1. page \in Identity
    BY Places DEF Taken
  <2>2. Hi(page) \in 0..(BOOT_L1 - 1)
    BY <1>5, <2>1, Places, FanoutIs, HiLo
  <2>3. Dir(c.mem, Hi(page)).present
    BY <1>1, <1>3, <2>2 DEF Shape
  <2>4. b.status = "up"
    BY <1>3, <1>8, <2>3 DEF Calm
  <2>5. Hi(page) \notin Upper
    BY <2>2, FanoutIs DEF Upper
  <2>6. QED
    BY <1>5, <1>8, <1>11, <2>4, <2>5, DirFits
<1>14. CASE b.status = "up" /\ Reached(b.mem, b.ptr)
  <2>1. /\ SetSeen(b.mem, n.mem, page, e)
        /\ Fields(n) /\ n.used = b.used /\ n.status = "up" /\ n.heap_end = b.heap_end
        /\ Forgets(b, n, page)
    BY <1>8, <1>9, <1>10, <1>11, <1>14, SettingReached
  <2>2. /\ Shape(n.mem) /\ DOMAIN n.mem = DOMAIN b.mem /\ Made(n.mem) = Made(b.mem) /\ Low(n.mem, page) = e
        /\ \A i \in Index : Dir(n.mem, i) = Dir(b.mem, i)
        /\ \A q \in Reach : Opened(n.mem, q) = Opened(b.mem, q)
        /\ \A q \in Nat : q # page /\ q < FANOUT * FANOUT * FANOUT * FANOUT => Walk(n.mem, q) = Walk(b.mem, q)
    BY <2>1, Zenon DEF SetSeen
  <2>3. Serves(n.mem, page)
    BY <1>2, <1>5, <1>8, <1>10, <1>14, <2>2 DEF Serves
  <2>4. Walk(n.mem, page) = [frame |-> F, user |-> user]
    <3>1. Opened(n.mem, page) \in BOOLEAN /\ (user => Opened(n.mem, page))
      BY <1>5, <1>8, <1>14, <2>2 DEF Opened
    <3>2. Walk(n.mem, page) = [frame |-> F, user |-> Opened(n.mem, page) /\ user]
      BY <1>5, <1>10, <2>2, <2>3, WalkIs DEF Serves
    <3>3. (Opened(n.mem, page) /\ user) = user
      BY <3>1
    <3>4. QED
      BY <3>2, <3>3
  <2>5. F \in b.used /\ F \notin Made(b.mem) /\ F \notin Held(b.mem, D)
    BY <1>11 DEF Loose
  <2>6. Fitting(b, n.mem, page, e, D, G)
    <3>1. Kind(n.mem, b.used, G, page)
      BY <1>10, <2>2, <2>5 DEF Kind
    <3>2. ~(page \in Made(b.mem) /\ Reached(n.mem, page))
      BY <2>4, <2>5 DEF Reached
    <3>3. F \notin Held(b.mem, D \ {page})
      BY <2>5 DEF Held
    <3>4. user => Opened(b.mem, page)
      BY <1>8, <1>14
    <3>5. QED
      BY <1>10, <3>1, <3>2, <3>3, <3>4 DEF Fitting
  <2>7. /\ KInv(n, G)
        /\ InReach(n.mem) => InReach(b.mem)
        /\ \A q \in Reach : q # page => Serves(n.mem, q) = Serves(b.mem, q)
        /\ Held(n.mem, G \ {page}) = Held(b.mem, D \ {page})
    <3>1. G \in SUBSET Movable /\ G \ {page} = D \ {page}
      BY <1>12
    <3> HIDE DEF G
    <3>2. SetDone(b, n, page, D, G)
      BY <1>11, <1>14, <2>1, <2>6, <3>1, SetKeeps, Zenon
    <3>3. QED
      BY <3>2, Zenon DEF SetDone
  <2>8. ASSUME InReach(n.mem)
        PROVE  MapSeen(k, n, D, page, user)
    <3>1. InReach(k.mem) /\ Loose(b, D) = Loose(k, D) \cup {F}
      BY <1>11, <1>14, <2>7, <2>8
    <3>2. \A q \in Reach : q # page => Serves(n.mem, q) = Serves(k.mem, q)
      BY <1>11, <2>7 DEF Seen
    <3>3. \A q \in Nat : q # page /\ q < FANOUT * FANOUT * FANOUT * FANOUT =>
            /\ Leads(Walk(n.mem, q)) = Leads(Walk(k.mem, q))
            /\ Leads(Walk(k.mem, q)) => Walk(n.mem, q) = Walk(k.mem, q)
      BY <1>11, <2>2 DEF Seen
    <3>4. Loose(n, G) = Loose(k, D) \cup Was(k, D, page)
      <4>1. Held(n.mem, G) = Held(b.mem, D \ {page}) \cup {F}
        <5>1. Held(n.mem, G) = Held(n.mem, G \ {page}) \cup {Low(n.mem, page).frame}
          BY <2>3 DEF Held
        <5>2. QED
          BY <1>10, <2>2, <2>7, <5>1
      <4>2. Serves(b.mem, page) = Serves(k.mem, page)
        BY <1>5, <1>11 DEF Seen
      <4>3. Held(b.mem, D) = Held(b.mem, D \ {page}) \cup Was(k, D, page)
        <5>1. CASE page \in D /\ Serves(b.mem, page)
          <6>1. Held(b.mem, D) = Held(b.mem, D \ {page}) \cup {Low(b.mem, page).frame}
            BY <5>1 DEF Held
          <6>2. Leads(Walk(b.mem, page)) /\ Walk(b.mem, page).frame = Low(b.mem, page).frame
            BY <1>5, <1>12, <5>1, WalkLeads
          <6>3. Walk(b.mem, page) = Walk(k.mem, page)
            BY <1>5, <1>11, <6>2 DEF Seen
          <6>4. QED
            BY <4>2, <5>1, <6>1, <6>2, <6>3 DEF Was
        <5>2. CASE ~(page \in D /\ Serves(b.mem, page))
          <6>1. Held(b.mem, D) = Held(b.mem, D \ {page})
            BY <5>2 DEF Held
          <6>2. QED
            BY <4>2, <5>2, <6>1 DEF Was
        <5>3. QED
          BY <5>1, <5>2
      <4>4. Was(k, D, page) \cap Held(b.mem, D \ {page}) = {}
        <5>1. SUFFICES ASSUME page \in D, Serves(k.mem, page), NEW q \in D \ {page}, Serves(b.mem, q),
                              Low(b.mem, q).frame = Walk(k.mem, page).frame
                       PROVE  FALSE
          BY DEF Was, Held
        <5>2. Leads(Walk(b.mem, page)) /\ Walk(b.mem, page).frame = Low(b.mem, page).frame
          BY <1>5, <1>12, <4>2, <5>1, WalkLeads
        <5>3. Walk(b.mem, page) = Walk(k.mem, page)
          BY <1>5, <1>11, <5>2 DEF Seen
        <5>4. QED
          BY <1>12, <4>2, <5>1, <5>2, <5>3 DEF HeldOnce
      <4>5. Held(b.mem, D) \subseteq b.used \ Made(b.mem)
        BY <1>11, HeldUsed
      <4>6. Loose(n, G) = b.used \ (Made(b.mem) \cup Held(b.mem, D \ {page}) \cup {F})
        BY <2>1, <2>2, <4>1 DEF Loose
      <4>7. Loose(b, D) = b.used \ (Made(b.mem) \cup Held(b.mem, D \ {page}) \cup Was(k, D, page))
        BY <4>3 DEF Loose
      <4>8. F \notin Was(k, D, page) /\ Was(k, D, page) \subseteq b.used \ Made(b.mem)
        BY <2>5, <4>3, <4>5
      <4>9. QED
        BY <1>6, <3>1, <4>4, <4>6, <4>7, <4>8
    <3>5. QED
      BY <2>3, <2>4, <3>1, <3>2, <3>3, <3>4 DEF MapSeen, F
  <2>9. ASSUME page \in Taken
        PROVE  /\ n.used = k.used \cup {F} /\ Made(n.mem) = Made(k.mem) /\ DOMAIN n.mem = DOMAIN k.mem
               /\ Low(n.mem, page) = Entry(F, user)
    <3>1. Hi(page) \in 0..(BOOT_L1 - 1)
      BY <1>5, <2>9, Places, FanoutIs, HiLo DEF Taken
    <3>2. Dir(c.mem, Hi(page)).present
      BY <1>1, <1>3, <3>1 DEF Shape
    <3>3. Calm(c, b)
      BY <1>8, <3>2
    <3>4. QED
      BY <1>3, <2>1, <2>2, <3>3 DEF Calm, e
  <2>10. QED
    BY <1>11, <2>1, <2>7, <2>8, <2>9 DEF n, F
<1>15. CASE ~(b.status = "up" /\ Reached(b.mem, b.ptr))
  <2>1. page \notin Taken
    BY <1>13, <1>15
  <2>2. /\ KInv(n, D) /\ n.heap_end = b.heap_end
        /\ n.status = "up" => ~InReach(n.mem)
    BY <1>8, <1>9, <1>10, <1>11, <1>15, SettingAway
  <2>3. KInv(n, G)
    BY <2>1, <2>2, AskedFor
  <2>4. QED
    BY <1>11, <2>1, <2>2, <2>3 DEF n
<1>16. QED
  BY <1>14, <1>15

-----------------------------------------------------------------------------
(* How many frames a call takes.                                           *)
Adds(k, n, c) == Cardinality(n.used) <= Cardinality(k.used) + c

(* The frames handed out can be counted.                                   *)
LEMMA UsedFinite ==
  ASSUME NEW k, Sizes(k)
  PROVE  IsFiniteSet(k.used) /\ Cardinality(k.used) \in Nat
<1>1. IsFiniteSet(FIRST_FREE..(frames - 1))
  BY FramesFit, Places, FS_Interval
<1>2. IsFiniteSet(k.used)
  BY <1>1, FS_Subset DEF Sizes
<1>3. QED
  BY <1>2, FS_CardinalityType

(* Two more frames at most.                                                *)
LEMMA AddsTwo ==
  ASSUME NEW k, NEW n, Sizes(k), Sizes(n), NEW x, NEW y, n.used \subseteq k.used \cup {x, y}
  PROVE  Adds(k, n, 2)
<1>1. IsFiniteSet(k.used) /\ Cardinality(k.used) \in Nat /\ Cardinality(n.used) \in Nat
  BY UsedFinite
<1> DEFINE A == k.used \cup {x}
           B == A \cup {y}
<1>2. \A S, z : IsFiniteSet(S) =>
        /\ IsFiniteSet(S \cup {z}) /\ Cardinality(S \cup {z}) \in Nat
        /\ Cardinality(S \cup {z}) <= Cardinality(S) + 1
  <2> SUFFICES ASSUME NEW S, NEW z, IsFiniteSet(S)
               PROVE  /\ IsFiniteSet(S \cup {z}) /\ Cardinality(S \cup {z}) \in Nat
                      /\ Cardinality(S \cup {z}) <= Cardinality(S) + 1
    OBVIOUS
  <2> DEFINE T == S \cup {z}
  <2>1. IsFiniteSet(T) /\ (Cardinality(T) = Cardinality(S) \/ Cardinality(T) = Cardinality(S) + 1)
    BY FS_AddElement, Zenon
  <2> HIDE DEF T
  <2>2. Cardinality(T) \in Nat /\ Cardinality(S) \in Nat
    BY <2>1, FS_CardinalityType
  <2>3. IsFiniteSet(T) /\ Cardinality(T) \in Nat /\ Cardinality(T) <= Cardinality(S) + 1
    BY <2>1, <2>2
  <2>4. QED
    BY <2>3 DEF T
<1>3. IsFiniteSet(A) /\ Cardinality(A) <= Cardinality(k.used) + 1 /\ Cardinality(A) \in Nat
  BY <1>1, <1>2
<1> HIDE DEF A
<1>4. IsFiniteSet(B) /\ Cardinality(B) <= Cardinality(A) + 1 /\ Cardinality(B) \in Nat
  BY <1>3, <1>2
<1>5. n.used \subseteq B
  BY DEF A
<1> HIDE DEF B
<1>6. Cardinality(n.used) <= Cardinality(B)
  BY <1>4, <1>5, FS_Subset
<1>7. QED
  BY <1>1, <1>3, <1>4, <1>6 DEF Adds

(* One frame more, or one less.                                            *)
LEMMA AddsOne ==
  ASSUME NEW k, NEW n, Sizes(k), Sizes(n), NEW x
  PROVE  /\ n.used = k.used \cup {x} => Adds(k, n, 1)
         /\ n.used = k.used \ {x} /\ x \in k.used => Adds(k, n, -1)
<1>1. IsFiniteSet(k.used) /\ Cardinality(k.used) \in Nat /\ Cardinality(n.used) \in Nat
  BY UsedFinite
<1>2. n.used = k.used \cup {x} => Cardinality(n.used) <= Cardinality(k.used) + 1
  BY <1>1, FS_AddElement
<1>3. n.used = k.used \ {x} /\ x \in k.used => Cardinality(n.used) = Cardinality(k.used) - 1
  BY <1>1, FS_RemoveElement
<1>4. QED
  BY <1>1, <1>2, <1>3 DEF Adds

(* Accesses to memory take none.                                           *)
LEMMA WriteUses ==
  ASSUME NEW k, Fields(k), NEW page, NEW rows
  PROVE  LET n == Write(k, page, rows) IN Fields(n) /\ n.used = k.used
<1>1. LET n == Touch(k, page) IN Fields(n) /\ n.used = k.used
  <2> DEFINE n == Touch(k, page)
  <2>1. n = k \/ n = [k EXCEPT !.status = "fault"] \/ n = [k EXCEPT !.status = "wild"]
    BY DEF Touch
  <2> HIDE DEF n
  <2>2. Fields(n) /\ n.used = k.used
    BY <2>1, Excepts
  <2>3. QED
    BY <2>2 DEF n
<1>2. LET n == [k EXCEPT !.mem = Over(k.mem, rows)] IN Fields(n) /\ n.used = k.used
  BY Excepts
<1>3. QED
  BY <1>1, <1>2 DEF Write

(* A new table takes one.                                                  *)
LEMMA TableUses ==
  ASSUME NEW k, Fields(k), NEW i
  PROVE  LET n == Table(k, i) IN Fields(n) /\ n.used \subseteq k.used \cup {Fresh(k)}
<1> DEFINE c == Clear(k, Fresh(k))
           v == Take(k).used
           m == MakeTable(k)
           n == Table(k, i)
<1>1. Fields(c)
  BY WriteUses DEF Clear
<1>2. v \subseteq k.used \cup {Fresh(k)}
  <2> DEFINE w == k.used \cup ({Fresh(k)} \ {0})
             t == Take(k)
  <2>1. t = [k EXCEPT !.used = w]
    BY DEF Take
  <2> HIDE DEF t, w
  <2>2. t.used = w
    BY <2>1, Excepts
  <2>3. QED
    BY <2>2 DEF t, w
<1>3. m = [c EXCEPT !.used = v]
  BY DEF MakeTable
<1> HIDE DEF c, v, m
<1>4. Fields(m) /\ m.used = v
  BY <1>1, <1>3, Excepts
<1>5. \A p, r : Fields(Write(m, p, r)) /\ Write(m, p, r).used = m.used
  BY <1>4, WriteUses
<1>6. n = k \/ \E p, r : n = Write(m, p, r)
  BY DEF Table, Store, m
<1> HIDE DEF n
<1>7. Fields(n) /\ n.used \subseteq k.used \cup {Fresh(k)}
  BY <1>2, <1>4, <1>5, <1>6
<1>8. QED
  BY <1>7 DEF n

(* So does a level down, since the tables of boot are there.               *)
LEMMA BelowUses ==
  ASSUME NEW k, Fields(k), NEW n, NEW page, NEW user \in BOOLEAN
  PROVE  LET b == Under(k, n, page, user) IN Fields(b) /\ b.used \subseteq k.used \cup {Fresh(k)}
<1> DEFINE i == At(n, page)
           a == Table(k, i)
           o == IF user THEN Open(a, i) ELSE a
           b == Go(o, i)
<1>1. Fields(a) /\ a.used \subseteq k.used \cup {Fresh(k)}
  BY TableUses
<1> HIDE DEF a
<1>2. Fields(o) /\ o.used = a.used
  <2>1. \A p, r : Fields(Write(a, p, r)) /\ Write(a, p, r).used = a.used
    BY <1>1, WriteUses
  <2>2. o = a \/ \E p, r : o = Write(a, p, r)
    BY DEF Open, Store
  <2> HIDE DEF o
  <2>3. QED
    BY <1>1, <2>1, <2>2
<1> HIDE DEF o
<1>3. Fields(b) /\ b.used = o.used
  <2> DEFINE v == Load(o, o.ptr, i).frame
  <2>1. b = [o EXCEPT !.ptr = v]
    BY DEF Go
  <2> HIDE DEF b, v
  <2>2. QED
    BY <1>2, <2>1, Excepts
<1>4. b = Under(k, n, page, user)
  BY DEF Under, o, a
<1> HIDE DEF b
<1>5. QED
  BY <1>1, <1>2, <1>3, <1>4

(* So do all three levels together.                                        *)
LEMMA LowestUses ==
  ASSUME NEW k, NEW D, KInv(k, D), k.status = "up", 0 \notin Made(k.mem),
         NEW page \in Reach, NEW user \in BOOLEAN
  PROVE  Lowest(k, page, user).used \subseteq k.used \cup {Fresh(k)}
<1> DEFINE r == [k EXCEPT !.ptr = L4]
           b4 == Under(r, 4, page, user)
           b3 == Under(b4, 3, page, user)
           b2 == Under(b3, 2, page, user)
<1>1. page \in Nat /\ At(4, page) = 0 /\ At(3, page) = 0 /\ 0 \in Index
  BY Places, Indexes, FanoutIs DEF Index
<1>2. /\ Fields(r) /\ r.mem = k.mem /\ r.used = k.used /\ r.tlb = k.tlb
      /\ r.heap_end = k.heap_end /\ r.status = k.status /\ r.ptr = L4
  BY Excepts DEF KInv
<1> HIDE DEF r
<1>3. KInv(r, D)
  <2>1. Forth(k, r, D)
    BY <1>2, ForthSame
  <2>2. QED
    BY <2>1 DEF Forth
<1>4. KInv(b4, D) /\ Calm(r, b4) /\ (b4.status = "up" => b4.ptr = b4.mem[L4][0].frame)
  <2>1. r.mem[L4][0].present
    BY <1>2 DEF KInv, Shape
  <2>2. /\ Forth(r, b4, D)
        /\ b4.status = "up" => b4.ptr = b4.mem[L4][0].frame
        /\ Calm(r, b4)
    BY <1>1, <1>2, <1>3, <2>1, BelowForth
  <2> HIDE DEF b4
  <2>3. QED
    BY <2>2 DEF Forth
<1> HIDE DEF b4
<1>5. 0 \notin Made(b4.mem) /\ b4.status = "up" /\ b4.used = k.used
  BY <1>2, <1>4 DEF Calm
<1>6. KInv(b3, D) /\ Calm(b4, b3)
  <2>1. b4.mem[L3][0].present /\ b4.ptr = L3
    BY <1>4, <1>5 DEF KInv, Shape
  <2>2. Forth(b4, b3, D) /\ Calm(b4, b3)
    BY <1>1, <1>4, <1>5, <2>1, BelowForth
  <2> HIDE DEF b3
  <2>3. QED
    BY <2>2 DEF Forth
<1> HIDE DEF b3
<1>7. Fields(b3) /\ b3.used = k.used
  BY <1>5, <1>6 DEF Calm, KInv
<1>8. b2.used \subseteq b3.used \cup {Fresh(b3)}
  BY <1>7, BelowUses
<1>9. Fresh(b3) = Fresh(k)
  BY <1>7 DEF Fresh, Free
<1>10. b2 = Lowest(k, page, user)
  BY DEF Lowest, b3, b4, r
<1> HIDE DEF b2
<1>11. QED
  BY <1>7, <1>8, <1>9, <1>10

(* A page takes two frames at most, and a page that is mapped at boot one. *)
LEMMA MapUses ==
  ASSUME NEW k, NEW D, KInv(k, D), k.status = "up", Free(k) # {},
         NEW page \in Movable, NEW user \in BOOLEAN
  PROVE  LET n == Mapping(k, page, user)
         IN Adds(k, n, 2) /\ (page \in Taken => Adds(k, n, 1))
<1> DEFINE c == Take(k)
           b == Lowest(c, page, user)
           e == Entry(Fresh(k), user)
           n == Mapping(k, page, user)
<1>1. /\ KInv(c, D) /\ c.mem = k.mem /\ c.status = k.status
      /\ c.used = k.used \cup ({Fresh(k)} \ {0})
  BY TakeKeeps
<1>2. Sizes(k) /\ 0 \notin Made(k.mem)
  BY DEF KInv, Sizes
<1>3. page \in Reach
  BY DEF Movable
<1> HIDE DEF c
<1>4. b.used \subseteq c.used \cup {Fresh(c)}
  BY <1>1, <1>2, <1>3, LowestUses
<1>5. Fields(b)
  <2>1. Forth(c, b, D)
    BY <1>1, <1>2, <1>3, LowestForth
  <2> HIDE DEF b
  <2>2. QED
    BY <2>1 DEF Forth, KInv
<1>6. n = Setting(b, page, e)
  BY DEF Mapping, c
<1> HIDE DEF b, e
<1>7. n.used = b.used
  <2> DEFINE s == Store(b, b.ptr, At(1, page), e)
  <2>1. Fields(s) /\ s.used = b.used
    BY <1>5, WriteUses DEF Store
  <2>2. n = Invlpg(s, page)
    BY <1>6 DEF Setting
  <2> HIDE DEF n, s
  <2>3. QED
    BY <2>1, <2>2, Excepts DEF Invlpg
<1>8. /\ KInv(n, D \cup {page})
      /\ page \in Taken => n.used = k.used \cup {Fresh(k)}
  BY MapKeeps
<1> HIDE DEF n
<1>9. n.used \subseteq k.used \cup {Fresh(k), Fresh(c)}
  BY <1>1, <1>4, <1>7
<1>10. Sizes(n)
  BY <1>8 DEF KInv
<1>11. Adds(k, n, 2)
  BY <1>2, <1>9, <1>10, AddsTwo
<1>12. page \in Taken => Adds(k, n, 1)
  BY <1>2, <1>8, <1>10, AddsOne
<1>13. QED
  BY <1>11, <1>12 DEF n
-----------------------------------------------------------------------------
(* What the callers do with a page.                                        *)

(* A page that was asked for is written, or the machine stops because its  *)
(* table could not be reached.                                             *)
LEMMA FillKeeps ==
  ASSUME NEW k, NEW D, KInv(k, D), NEW page \in D,
         k.status = "up" /\ InReach(k.mem) => Serves(k.mem, page)
  PROVE  LET n == Store(k, page, 0, Junk)
         IN /\ KInv(n, D) /\ Like(k.mem, n.mem) /\ Others(k, n)
            /\ n.status = k.status \/ (~Serves(k.mem, page) /\ n.status # "up")
<1>1. Shape(k.mem) /\ Sizes(k) /\ page \in Reach /\ page \in Nat /\ page \notin Identity \ Taken
  BY HeldUsed DEF KInv
<1>2. page < FANOUT * FANOUT * FANOUT * FANOUT
  BY <1>1, FramesFit
<1>3. Leads(Walk(k.mem, page)) <=> Serves(k.mem, page)
  BY <1>1, <1>2, WalkLeads
<1>4. Leads(Walk(k.mem, page)) => Walk(k.mem, page).frame \in k.used \ Made(k.mem)
  BY <1>1, <1>2, WhereTo
<1>5. k.status = "up" /\ ~Leads(Walk(k.mem, page)) => \E t \in k.used \ Held(k.mem, D) : ~Reached(k.mem, t)
  BY <1>3, OutOfReach
<1>6. 0 \in Index /\ Junk \in Cells
  BY FanoutIs, CellKinds DEF Index
<1>7. QED
  BY <1>1, <1>3, <1>4, <1>5, <1>6, StoreAway

(* A page given new memory, and the same when its first word is written.   *)
Gives(k, n, D, page, user) ==
  /\ KInv(n, D \cup {page}) /\ Adds(k, n, 2)
  /\ n.status = "up" /\ InReach(n.mem) => MapSeen(k, n, D, page, user)

(* Filling a page that was given takes nothing back.                       *)
LEMMA GivesFilled ==
  ASSUME NEW k, NEW n, NEW D, NEW page, NEW user, Gives(k, n, D, page, user)
  PROVE  LET o == Store(n, page, 0, Junk)
         IN Gives(k, o, D, page, user) /\ Others(n, o) /\ Like(n.mem, o.mem)
            /\ (o.status = n.status \/ (~Serves(n.mem, page) /\ o.status # "up"))
<1> DEFINE o == Store(n, page, 0, Junk)
           G == D \cup {page}
<1>1. KInv(n, G) /\ page \in G
  BY DEF Gives
<1>2. n.status = "up" /\ InReach(n.mem) => Serves(n.mem, page)
  BY DEF Gives, MapSeen
<1> HIDE DEF G
<1>3. /\ KInv(o, G) /\ Like(n.mem, o.mem) /\ Others(n, o)
      /\ o.status = n.status \/ (~Serves(n.mem, page) /\ o.status # "up")
  BY <1>1, <1>2, FillKeeps
<1> HIDE DEF o
<1>4. Shape(n.mem) /\ Shape(o.mem) /\ UserOpen(n.mem) /\ Sizes(o) /\ Sizes(n) /\ G \subseteq Movable
  BY <1>1, <1>3 DEF KInv
<1>5. o.used = n.used /\ (o.status = "up" => n.status = "up")
  BY <1>3 DEF Others
<1>6. /\ \A q \in Reach : Serves(o.mem, q) = Serves(n.mem, q)
      /\ \A q \in Nat : q < FANOUT * FANOUT * FANOUT * FANOUT =>
           /\ Walk(o.mem, q).frame = Walk(n.mem, q).frame
           /\ Leads(Walk(n.mem, q)) => Walk(o.mem, q) = Walk(n.mem, q)
  BY <1>3, <1>4, LikeViews
<1>7. Loose(o, G) = Loose(n, G) /\ InReach(o.mem) = InReach(n.mem)
  <2>1. Loose(o, G) = Loose(n, G) \cup (o.used \ n.used) /\ InReach(o.mem) = InReach(n.mem)
    BY <1>1, <1>3, <1>4, <1>5, AccountsLike
  <2>2. QED
    BY <1>5, <2>1
<1>8. ASSUME o.status = "up", InReach(o.mem)
      PROVE  MapSeen(k, o, D, page, user)
  <2>1. MapSeen(k, n, D, page, user)
    BY <1>5, <1>7, <1>8 DEF Gives
  <2>2. page \in Reach /\ page \in Nat /\ page < FANOUT * FANOUT * FANOUT * FANOUT
    BY <1>1, <1>4, FramesFit, Places DEF Movable
  <2>3. Serves(o.mem, page) /\ Walk(o.mem, page) = [frame |-> Fresh(k), user |-> user]
    <3>1. Serves(n.mem, page) /\ Leads(Walk(n.mem, page))
      BY <1>4, <2>1, <2>2, WalkLeads DEF MapSeen
    <3>2. Walk(o.mem, page) = Walk(n.mem, page) /\ Serves(o.mem, page)
      BY <1>6, <2>2, <3>1
    <3>3. QED
      BY <2>1, <3>2 DEF MapSeen
  <2>4. \A q \in Reach : q # page => Serves(o.mem, q) = Serves(k.mem, q)
    BY <1>6, <2>1 DEF MapSeen
  <2>5. \A q \in Nat : q # page /\ q < FANOUT * FANOUT * FANOUT * FANOUT =>
          /\ Leads(Walk(o.mem, q)) = Leads(Walk(k.mem, q))
          /\ Leads(Walk(k.mem, q)) => Walk(o.mem, q) = Walk(k.mem, q)
    <3> TAKE q \in Nat
    <3> HAVE q # page /\ q < FANOUT * FANOUT * FANOUT * FANOUT
    <3>1. /\ Leads(Walk(n.mem, q)) = Leads(Walk(k.mem, q))
          /\ Leads(Walk(k.mem, q)) => Walk(n.mem, q) = Walk(k.mem, q)
      BY <2>1 DEF MapSeen
    <3>2. /\ Walk(o.mem, q).frame = Walk(n.mem, q).frame
          /\ Leads(Walk(n.mem, q)) => Walk(o.mem, q) = Walk(n.mem, q)
      BY <1>6
    <3>3. QED
      BY <3>1, <3>2 DEF Leads
  <2>6. Loose(o, D \cup {page}) = Loose(k, D) \cup Was(k, D, page)
    BY <1>7, <2>1 DEF MapSeen, G
  <2>7. InReach(k.mem)
    BY <2>1 DEF MapSeen
  <2>8. QED
    BY <2>3, <2>4, <2>5, <2>6, <2>7 DEF MapSeen
<1>9. Adds(k, o, 2)
  BY <1>5 DEF Gives, Adds
<1>10. QED
  BY <1>3, <1>8, <1>9 DEF Gives, G, o
(* The same state but for where the call has got to.                       *)
Moved(k, n) ==
  /\ Fields(n) /\ n.mem = k.mem /\ n.used = k.used /\ n.tlb = k.tlb
  /\ n.heap_end = k.heap_end /\ n.status = k.status

(* One level of a lookup in a table of boot.                               *)
LEMMA LookupIs ==
  ASSUME NEW k, Fields(k), Shape(k.mem), Coherent(k.mem, k.tlb), k.status = "up",
         k.ptr \in BootTables, NEW n, NEW page, At(n, page) \in Index
  PROVE  LET o == Lookup(k, n, page)
             cell == k.mem[k.ptr][At(n, page)]
         IN Moved(k, o) /\ o.ptr = IF cell.present THEN cell.frame ELSE Nowhere
<1> DEFINE o == Lookup(k, n, page)
           cell == k.mem[k.ptr][At(n, page)]
           t == k.ptr
           v == IF cell.present THEN cell.frame ELSE Nowhere
<1>1. t \in Nat /\ t \in DOMAIN k.mem /\ Reached(k.mem, t)
  BY TablePlaces, BootReached, Places DEF Shape
<1>2. Load(k, t, At(n, page)) = Cell(k.mem, t, At(n, page)) /\ Touch(k, t) = k
  BY <1>1, LoadIs
<1>3. Load(k, t, At(n, page)) = cell
  BY <1>1, <1>2 DEF Cell
<1>4. t # Nowhere
  BY <1>1 DEF Nowhere
<1>5. o = [k EXCEPT !.ptr = v]
  BY <1>2, <1>3, <1>4 DEF Lookup
<1> HIDE DEF o, v
<1>6. Moved(k, o) /\ o.ptr = v
  BY <1>5, Excepts DEF Moved
<1>7. QED
  BY <1>6 DEF o, v

(* A lookup of the lowest table of a page.                                 *)
Looked(k, page) ==
  Lookup(Lookup(Lookup([k EXCEPT !.ptr = L4], 4, page), 3, page), 2, page)

(* It ends at the table that the processor finds, and changes no memory.   *)
LEMMA LookedIs ==
  ASSUME NEW k, NEW D, KInv(k, D), k.status = "up", NEW page \in Reach
  PROVE  LET o == Looked(k, page)
             dir == Dir(k.mem, Hi(page))
         IN /\ LowestTable({k}, page) = {o}
            /\ KInv(o, D) /\ Moved(k, o) /\ o.ptr = IF dir.present THEN dir.frame ELSE Nowhere
<1> DEFINE r == [k EXCEPT !.ptr = L4]
           a == Lookup(r, 4, page)
           b == Lookup(a, 3, page)
           c == Lookup(b, 2, page)
           o == Looked(k, page)
           dir == Dir(k.mem, Hi(page))
           v == IF dir.present THEN dir.frame ELSE Nowhere
<1>1. page \in Nat /\ At(4, page) = 0 /\ At(3, page) = 0 /\ At(2, page) = Hi(page)
      /\ 0 \in Index /\ Hi(page) \in Index
  BY Places, Indexes, FanoutIs DEF Index
<1>2. Shape(k.mem) /\ Coherent(k.mem, k.tlb) /\ Fields(k)
  BY DEF KInv
<1>3. LowestTable({k}, page) = {o}
  BY DEF LowestTable, Then, FromRoot, Looked
<1>4. c = o
  BY DEF Looked
<1>5. Moved(k, r) /\ r.ptr = L4
  BY <1>2, Excepts DEF Moved
<1> HIDE DEF r, o
<1>6. L4 \in BootTables /\ L3 \in BootTables /\ L2 \in BootTables
  BY DEF BootTables
<1>7. /\ k.mem[L4][0].present /\ k.mem[L4][0].frame = L3
      /\ k.mem[L3][0].present /\ k.mem[L3][0].frame = L2
  BY <1>2 DEF Shape
<1>8. Moved(k, a) /\ a.ptr = L3
  <2>1. Moved(r, a) /\ a.ptr = IF r.mem[r.ptr][At(4, page)].present THEN r.mem[r.ptr][At(4, page)].frame ELSE Nowhere
    BY <1>1, <1>2, <1>5, <1>6, LookupIs DEF Moved
  <2> HIDE DEF a
  <2>2. QED
    BY <1>1, <1>5, <1>7, <2>1 DEF Moved
<1> HIDE DEF a
<1>9. Moved(k, b) /\ b.ptr = L2
  <2>1. Moved(a, b) /\ b.ptr = IF a.mem[a.ptr][At(3, page)].present THEN a.mem[a.ptr][At(3, page)].frame ELSE Nowhere
    BY <1>1, <1>2, <1>6, <1>8, LookupIs DEF Moved
  <2> HIDE DEF b
  <2>2. QED
    BY <1>1, <1>7, <1>8, <2>1 DEF Moved
<1> HIDE DEF b
<1>10. Moved(k, c) /\ c.ptr = v
  <2>1. Moved(b, c) /\ c.ptr = IF b.mem[b.ptr][At(2, page)].present THEN b.mem[b.ptr][At(2, page)].frame ELSE Nowhere
    BY <1>1, <1>2, <1>6, <1>9, LookupIs DEF Moved
  <2> HIDE DEF c
  <2>2. QED
    BY <1>1, <1>9, <2>1 DEF Moved, Dir
<1> HIDE DEF c, v
<1>11. Moved(k, o) /\ o.ptr = v
  BY <1>4, <1>10
<1>12. KInv(o, D)
  BY <1>11 DEF Moved, KInv, Sizes, Free, Stopped
<1>13. QED
  BY <1>3, <1>11, <1>12 DEF v, o
(* The page that memtest has borrowed, in frame f.                         *)
Borrowed(k, f) ==
  /\ f \in k.used \ DOMAIN k.mem /\ 0 \notin Made(k.mem)
  /\ Low(k.mem, MEMTEST) = Entry(f, FALSE)

(* The page of memtest has a place in the tables of boot.                  *)
LEMMA MemtestPlace ==
  /\ MEMTEST \in Movable /\ MEMTEST \in Reach /\ MEMTEST \in Nat /\ MEMTEST \in Taken
  /\ \A m : Shape(m) => Dir(m, Hi(MEMTEST)).present /\ Dir(m, Hi(MEMTEST)).frame = L1(Hi(MEMTEST))
  /\ \A m : Shape(m) => Reached(m, L1(Hi(MEMTEST)))
<1>1. MEMTEST \in Identity /\ MEMTEST \in Reach /\ MEMTEST \in Nat /\ Hi(MEMTEST) < BOOT_L1
  BY Places
<1>2. Hi(MEMTEST) \in 0..(BOOT_L1 - 1)
  BY <1>1, HiLo, FanoutIs
<1>3. \A m : Shape(m) => Dir(m, Hi(MEMTEST)).present /\ Dir(m, Hi(MEMTEST)).frame = L1(Hi(MEMTEST))
  BY <1>2 DEF Shape
<1>4. L1(Hi(MEMTEST)) \in Identity \ Taken
  BY <1>2, TablePlaces
<1>5. QED
  BY <1>1, <1>3, <1>4, BootReached DEF Movable, Taken

(* memtest gets its page whatever the state of the tables.                 *)
LEMMA BorrowKeeps ==
  ASSUME NEW k, NEW D, KInv(k, D), k.status = "up", Free(k) # {}
  PROVE  LET o == Store(Mapping(k, MEMTEST, FALSE), MEMTEST, 0, Junk)
         IN /\ Gives(k, o, D, MEMTEST, FALSE) /\ o.heap_end = k.heap_end
            /\ o.status = "up" /\ Borrowed(o, Fresh(k)) /\ Adds(k, o, 1)
<1> DEFINE n == Mapping(k, MEMTEST, FALSE)
           o == Store(n, MEMTEST, 0, Junk)
           F == Fresh(k)
           G == D \cup {MEMTEST}
<1>1. /\ KInv(n, G) /\ n.heap_end = k.heap_end
      /\ n.status = "up" /\ InReach(n.mem) => MapSeen(k, n, D, MEMTEST, FALSE)
      /\ n.status = "up" /\ n.used = k.used \cup {F}
      /\ Made(n.mem) = Made(k.mem) /\ DOMAIN n.mem = DOMAIN k.mem
      /\ Low(n.mem, MEMTEST) = Entry(F, FALSE)
  BY MemtestPlace, MapKeeps
<1>2. Gives(k, n, D, MEMTEST, FALSE) /\ Adds(k, n, 1)
  <2>1. Adds(k, n, 2) /\ Adds(k, n, 1)
    BY MemtestPlace, MapUses
  <2> HIDE DEF n
  <2>2. QED
    BY <1>1, <2>1 DEF Gives
<1>3. Sizes(k) /\ Sizes(n) /\ Shape(n.mem) /\ Fields(n) /\ Coherent(n.mem, n.tlb) /\ UserOpen(n.mem)
  BY <1>1 DEF KInv
<1>4. F \in Free(k) /\ F \notin k.used /\ F \in Nat
  BY <1>3, FreshIs
<1>5. F \notin DOMAIN k.mem /\ F >= 0
  <2>1. F >= FIRST_FREE /\ F # 0
    BY <1>4, Places, FanoutIs DEF Free
  <2>2. FIRST_FREE \in Nat /\ \A t \in BootTables : t \in Nat /\ t < FIRST_FREE
    BY TablePlaces, Places
  <2>3. F \notin BootTables
    <3> SUFFICES ASSUME F \in BootTables PROVE FALSE
      OBVIOUS
    <3>1. F < FIRST_FREE
      BY <2>2
    <3>2. QED
      BY <1>4, <2>1, <2>2, <3>1
  <2>4. QED
    BY <1>3, <1>4, <2>1, <2>3 DEF Sizes
<1> HIDE DEF n, F
<1>6. Serves(n.mem, MEMTEST)
  <2>1. F \in Int /\ FALSE \in BOOLEAN
    BY <1>4
  <2>2. QED
    BY <1>1, <1>3, <1>5, <2>1, MemtestPlace, CellKinds DEF Serves
<1>7. Gives(k, o, D, MEMTEST, FALSE) /\ Others(n, o) /\ Like(n.mem, o.mem) /\ o.status = n.status
  <2>1. Gives(k, o, D, MEMTEST, FALSE) /\ Others(n, o) /\ Like(n.mem, o.mem)
        /\ (o.status = n.status \/ (~Serves(n.mem, MEMTEST) /\ o.status # "up"))
    BY <1>2, GivesFilled
  <2>2. QED
    BY <1>6, <2>1
<1>8. DOMAIN o.mem = DOMAIN n.mem
  <2>1. MEMTEST < FANOUT * FANOUT * FANOUT * FANOUT
    BY <1>3, MemtestPlace, FramesFit
  <2>2. Leads(Walk(n.mem, MEMTEST)) /\ Walk(n.mem, MEMTEST).frame = Low(n.mem, MEMTEST).frame
    BY <1>3, <1>6, <2>1, MemtestPlace, WalkLeads
  <2>3. Walk(n.mem, MEMTEST).frame = F
    BY <1>1, <2>2 DEF Entry
  <2>4. Misses(n, o)
    BY <1>1, <1>3, <1>5, <2>2, <2>3, MemtestPlace, StoreIs
  <2>5. QED
    BY <2>4 DEF Misses
<1> HIDE DEF o
<1>9. Shape(o.mem)
  BY <1>7 DEF Gives, KInv
<1>10. Made(o.mem) = Made(n.mem) /\ Low(o.mem, MEMTEST) = Low(n.mem, MEMTEST)
  <2>1. Made(o.mem) = Made(n.mem)
    BY <1>3, <1>7, <1>9, LikeViews
  <2>2. QED
    BY <1>3, <1>7, <2>1, MemtestPlace DEF Like
<1>11. 0 \notin Made(k.mem)
  BY <1>3, <1>4 DEF Sizes
<1>12. Borrowed(o, F)
  BY <1>1, <1>5, <1>7, <1>8, <1>10, <1>11 DEF Others, Borrowed
<1>13. Adds(k, o, 1)
  BY <1>2, <1>7 DEF Others, Adds
<1>14. QED
  BY <1>1, <1>7, <1>12, <1>13 DEF Others, o, n, F
(* What memtest gives back: its page alone, and the frame with it.         *)
Returns(k, n, D) ==
  /\ KInv(n, D \ {MEMTEST}) /\ n.status = "up" /\ n.heap_end = k.heap_end
  /\ InReach(n.mem) => InReach(k.mem)
  /\ Walk(n.mem, MEMTEST) = Unmapped
  /\ \A q \in Reach : q # MEMTEST => Serves(n.mem, q) = Serves(k.mem, q)
  /\ \A q \in Nat : q # MEMTEST /\ q < FANOUT * FANOUT * FANOUT * FANOUT =>
       Walk(n.mem, q) = Walk(k.mem, q)
  /\ Loose(n, D \ {MEMTEST}) = Loose(k, D)
  /\ Adds(k, n, -1)

(* vmm_unmap and pmm_free at the end of memtest.                           *)
Unmapping(k) == Setting(Looked(k, MEMTEST), MEMTEST, Zero)
Returned(k, f) == [Unmapping(k) EXCEPT !.used = Unmapping(k).used \ {f}]

(* They undo what memtest asked for, wherever the tables are.              *)
LEMMA ReturnKeeps ==
  ASSUME NEW k, NEW D, KInv(k, D), k.status = "up", MEMTEST \in D, NEW f, Borrowed(k, f)
  PROVE  /\ VmmUnmap({k}, MEMTEST) = {Unmapping(k)}
         /\ Returns(k, Returned(k, f), D)
<1> DEFINE a == Looked(k, MEMTEST)
           u == Unmapping(k)
           n == Returned(k, f)
           G == D \ {MEMTEST}
           w == u.used \ {f}
<1>1. /\ Sizes(k) /\ Shape(k.mem) /\ Fields(k) /\ D \subseteq Movable /\ HeldOnce(k.mem, D)
      /\ Kinds(k.mem, k.used, D)
  BY DEF KInv
<1>2. /\ f \in k.used /\ f \notin DOMAIN k.mem /\ 0 \notin Made(k.mem)
      /\ Low(k.mem, MEMTEST) = Entry(f, FALSE)
  BY DEF Borrowed
<1>3. f \in Nat /\ f \in Int /\ FALSE \in BOOLEAN
  BY <1>1, <1>2, FramesFit
<1>4. Serves(k.mem, MEMTEST) /\ Low(k.mem, MEMTEST).frame = f
  <2>1. Entry(f, FALSE).present /\ Entry(f, FALSE).frame = f
    BY DEF Entry
  <2>2. f >= 0
    BY <1>3
  <2>3. QED
    BY <1>1, <1>2, <2>1, <2>2, MemtestPlace DEF Serves
<1>5. f \notin Made(k.mem)
  BY <1>4, HeldUsed
<1>6. /\ LowestTable({k}, MEMTEST) = {a}
      /\ KInv(a, D) /\ Moved(k, a) /\ a.ptr = L1(Hi(MEMTEST))
  BY <1>1, MemtestPlace, LookedIs
<1>7. a.mem = k.mem /\ a.used = k.used /\ a.tlb = k.tlb /\ a.heap_end = k.heap_end /\ a.status = "up"
  BY <1>6 DEF Moved
<1>8. Reached(a.mem, a.ptr) /\ Dir(a.mem, Hi(MEMTEST)).present /\ a.ptr = Dir(a.mem, Hi(MEMTEST)).frame
  BY <1>1, <1>6, <1>7, MemtestPlace
<1>9. u = Setting(a, MEMTEST, Zero)
  BY DEF Unmapping
<1>10. VmmUnmap({k}, MEMTEST) = {u}
  <2>1. a.ptr # Nowhere
    <3>1. a.ptr \in Nat
      BY <1>6, MemtestPlace, Places, HiLo DEF L1
    <3>2. QED
      BY <3>1 DEF Nowhere
  <2> HIDE DEF a, u
  <2>2. VmmUnmap({k}, MEMTEST) = SetEntry({a}, At(1, MEMTEST), Zero, MEMTEST)
    BY <1>6, <2>1 DEF VmmUnmap, Then
  <2>3. QED
    BY <1>9, <2>2, SettingIs
<1> HIDE DEF a, u
<1>11. /\ SetSeen(a.mem, u.mem, MEMTEST, Zero)
       /\ Fields(u) /\ u.used = a.used /\ u.status = "up" /\ u.heap_end = a.heap_end
       /\ Forgets(a, u, MEMTEST)
  BY <1>6, <1>7, <1>8, <1>9, MemtestPlace, CellKinds, SettingReached
<1>12. /\ Shape(u.mem) /\ DOMAIN u.mem = DOMAIN k.mem /\ Made(u.mem) = Made(k.mem)
       /\ Low(u.mem, MEMTEST) = Zero
       /\ \A q \in Reach : q # MEMTEST /\ Dir(k.mem, Hi(q)).present => Low(u.mem, q) = Low(k.mem, q)
       /\ \A q \in Nat : q # MEMTEST /\ q < FANOUT * FANOUT * FANOUT * FANOUT =>
            Walk(u.mem, q) = Walk(k.mem, q)
  BY <1>7, <1>11, Zenon DEF SetSeen
<1>13. ~Serves(u.mem, MEMTEST) /\ Walk(u.mem, MEMTEST) = Unmapped
  BY <1>12, MemtestPlace, CellKinds, WalkIs DEF Serves
<1>14. SetDone(a, u, MEMTEST, D, G)
  <2>1. ~Reached(u.mem, MEMTEST)
    BY <1>13, MemtestPlace DEF Reached, Unmapped
  <2>2. MEMTEST \notin G /\ Kind(u.mem, a.used, G, MEMTEST)
    BY <1>12 DEF Kind
  <2>3. Fitting(a, u.mem, MEMTEST, Zero, D, G)
    BY <1>13, <2>1, <2>2 DEF Fitting
  <2>4. G \in SUBSET Movable /\ G \ {MEMTEST} = D \ {MEMTEST}
    BY <1>1
  <2> HIDE DEF G
  <2>5. QED
    BY <1>6, <1>7, <1>11, <2>3, <2>4, MemtestPlace, SetKeeps, Zenon
<1>15. G \ {MEMTEST} = G
  OBVIOUS
<1> HIDE DEF G
<1>16. /\ KInv(u, G) /\ (InReach(u.mem) => InReach(k.mem))
       /\ \A q \in Reach : q # MEMTEST => Serves(u.mem, q) = Serves(k.mem, q)
       /\ Held(u.mem, G) = Held(k.mem, D \ {MEMTEST})
  BY <1>7, <1>14, <1>15, Zenon DEF SetDone
<1>17. n = [u EXCEPT !.used = w]
  BY DEF Returned, u
<1>18. w = k.used \ {f}
  BY <1>7, <1>11
<1> HIDE DEF w, n
<1>19. /\ Fields(n) /\ n.mem = u.mem /\ n.used = k.used \ {f} /\ n.tlb = u.tlb
       /\ n.heap_end = k.heap_end /\ n.status = "up"
  BY <1>7, <1>11, <1>17, <1>18, Excepts
<1>20. f \notin Held(k.mem, D \ {MEMTEST})
  BY <1>1, <1>4 DEF HeldOnce, Held
<1>21. Kinds(n.mem, n.used, G)
  <2> SUFFICES ASSUME NEW q \in Movable, Dir(u.mem, Hi(q)).present
               PROVE  Kind(u.mem, k.used \ {f}, G, q)
    BY <1>19 DEF Kinds
  <2>1. Kind(u.mem, k.used, G, q)
    BY <1>7, <1>11, <1>16 DEF KInv, Kinds
  <2>2. ASSUME q \in G, Low(u.mem, q).present, Low(u.mem, q).frame \in k.used \ Made(u.mem)
        PROVE  Low(u.mem, q).frame # f
    <3>1. Low(u.mem, q).frame >= 0
      BY <1>1, <2>2, FramesFit
    <3>2. Serves(u.mem, q)
      BY <2>2, <3>1 DEF Serves
    <3>3. Low(u.mem, q).frame \in Held(u.mem, G)
      BY <2>2, <3>2 DEF Held
    <3>4. QED
      BY <1>16, <1>20, <3>3
  <2>3. QED
    BY <2>1, <2>2 DEF Kind
<1>22. Sizes(n) /\ TablesMade(n.mem, n.used)
  <2>1. Sizes(u) /\ TablesMade(u.mem, u.used) /\ u.used = k.used
    BY <1>7, <1>11, <1>16 DEF KInv
  <2>2. TablesMade(n.mem, n.used)
    BY <1>5, <1>12, <1>19, <2>1 DEF TablesMade
  <2>3. Sizes(n)
    BY <1>2, <1>12, <1>19, <2>1 DEF Sizes
  <2>4. QED
    BY <2>2, <2>3
<1>23. KInv(n, G)
  BY <1>16, <1>19, <1>21, <1>22 DEF KInv, Stopped
<1>24. Loose(n, G) = Loose(k, D)
  <2>1. Held(k.mem, D) = Held(k.mem, D \ {MEMTEST}) \cup {f}
    BY <1>4 DEF Held
  <2>2. QED
    BY <1>5, <1>12, <1>16, <1>19, <2>1 DEF Loose
<1>25. Adds(k, n, -1)
  BY <1>1, <1>2, <1>19, <1>22, AddsOne
<1>26. Returns(k, n, D)
  BY <1>12, <1>13, <1>16, <1>19, <1>23, <1>24, <1>25 DEF Returns, G
<1>27. QED
  BY <1>10, <1>26 DEF n, u
-----------------------------------------------------------------------------
(* The heap grows.                                                         *)

(* Heap and stack lie where nothing is mapped at boot.                     *)
LEMMA HeapPlaces ==
  /\ HEAP_START \in Nat /\ HEAP_MAX \in Nat /\ HEAP_START < HEAP_MAX
  /\ BOOT_HEAP \in Nat /\ BOOT_HEAP > 0 /\ HEAP_START + BOOT_HEAP <= HEAP_MAX
  /\ USER_STACK \in Nat /\ STACK_PAGES \in Nat /\ STACK_PAGES > 0
  /\ USER_STACK + STACK_PAGES <= HEAP_START
  /\ \A p \in USER_STACK..(HEAP_MAX - 1) : p \in Movable \ Taken /\ p \in Nat /\ p \notin Identity
  /\ \A p \in Identity : p \in Nat /\ p < USER_STACK
  /\ USER_CODE \in Movable
<1> DEFINE E == BOOT_L1 * FANOUT
           R == FANOUT * FANOUT
<1>1. /\ {USER_STACK, HEAP_START, HEAP_MAX} \subseteq Nat /\ STACK_PAGES \in Nat \ {0} /\ BOOT_HEAP \in Nat \ {0}
      /\ E <= USER_STACK /\ USER_STACK + STACK_PAGES <= HEAP_START
      /\ HEAP_START + BOOT_HEAP <= HEAP_MAX /\ HEAP_START < HEAP_MAX /\ HEAP_MAX <= R
  BY VmmAssumption, Zenon
<1>2. E \in Nat /\ R \in Nat /\ Identity = 0..(E - 1) /\ Reach = 0..(R - 1)
  BY FanoutIs DEF Identity, Reach
<1> HIDE DEF E, R
<1>3. \A p \in Identity : p \in Nat /\ p < USER_STACK
  BY <1>1, <1>2
<1>4. \A p \in USER_STACK..(HEAP_MAX - 1) : p \in Reach /\ p \in Nat /\ p \notin Identity
  BY <1>1, <1>2
<1>5. Taken \subseteq Identity /\ USER_CODE \in Movable
  BY Places DEF Taken, Movable
<1>6. \A p \in USER_STACK..(HEAP_MAX - 1) : p \in Movable \ Taken /\ p \in Nat /\ p \notin Identity
  BY <1>4, <1>5, Zenon DEF Movable
<1>7. /\ HEAP_START \in Nat /\ HEAP_MAX \in Nat /\ USER_STACK \in Nat
      /\ BOOT_HEAP \in Nat /\ BOOT_HEAP > 0 /\ STACK_PAGES \in Nat /\ STACK_PAGES > 0
  BY <1>1
<1>8. QED
  BY <1>1, <1>3, <1>5, <1>6, <1>7, Zenon

(* The pages E get memory that none of the pages D had.                    *)
Gets(k, n, D, E, user) ==
  /\ k.status = "up" /\ InReach(k.mem)
  /\ \A p \in E : /\ Serves(n.mem, p) /\ Walk(n.mem, p).user = user
                  /\ Walk(n.mem, p).frame \notin Held(k.mem, D)
  /\ \A q \in Reach \ E :
       /\ Serves(n.mem, q) = Serves(k.mem, q)
       /\ Leads(Walk(k.mem, q)) => Walk(n.mem, q) = Walk(k.mem, q)

(* All that kmalloc does to the heap.                                      *)
NewPages(k, n) == k.heap_end..(n.heap_end - 1)

Grows(k, n, D) ==
  /\ KInv(n, D \cup NewPages(k, n))
  /\ k.heap_end \in Nat /\ n.heap_end \in Nat /\ k.heap_end <= n.heap_end
  /\ k.status # "up" => n.status # "up"
  /\ Adds(k, n, 2 * (n.heap_end - k.heap_end))
  /\ n.status = "up" /\ InReach(n.mem) =>
       /\ Gets(k, n, D, NewPages(k, n), FALSE)
       /\ Loose(n, D \cup NewPages(k, n)) = Loose(k, D)

(* Nothing loses its use but what the page had before.                     *)
Keeps(k, n, D, page) == Loose(n, D \cup {page}) = Loose(k, D) \cup Was(k, D, page)

(* One page got in this way.                                               *)
LEMMA GivesGets ==
  ASSUME NEW k, NEW n, NEW D, NEW page, NEW user, KInv(k, D), k.status = "up",
         Gives(k, n, D, page, user), n.status = "up", InReach(n.mem)
  PROVE  Gets(k, n, D, {page}, user) /\ Keeps(k, n, D, page)
<1>1. /\ InReach(k.mem)
      /\ Serves(n.mem, page) /\ Walk(n.mem, page) = [frame |-> Fresh(k), user |-> user]
      /\ \A q \in Reach : q # page => Serves(n.mem, q) = Serves(k.mem, q)
      /\ \A q \in Nat : q # page /\ q < FANOUT * FANOUT * FANOUT * FANOUT =>
           /\ Leads(Walk(n.mem, q)) = Leads(Walk(k.mem, q))
           /\ Leads(Walk(k.mem, q)) => Walk(n.mem, q) = Walk(k.mem, q)
      /\ Keeps(k, n, D, page)
  BY DEF Gives, MapSeen, Keeps
<1>2. Sizes(k)
  BY DEF KInv
<1>3. Fresh(k) \notin Held(k.mem, D)
  BY <1>2, FreshIs, HeldUsed
<1>4. \A q \in Reach : q \in Nat /\ q < FANOUT * FANOUT * FANOUT * FANOUT
  BY <1>2, FramesFit
<1>5. Walk(n.mem, page).frame = Fresh(k) /\ Walk(n.mem, page).user = user
  BY <1>1
<1>6. QED
  BY <1>1, <1>3, <1>4, <1>5 DEF Gets
(* One more page for the heap, if there is memory.                         *)
Extended(k) ==
  IF Free(k) = {} \/ k.status # "up" THEN k
  ELSE [Mapping(k, k.heap_end, FALSE) EXCEPT !.heap_end = @ + 1]

(* kmalloc maps one page in one way.                                       *)
LEMMA ExtendIs ==
  ASSUME NEW k
  PROVE  Extend(k) = {Extended(k)}
<1>1. MapNew(k, k.heap_end, FALSE) = {Mapping(k, k.heap_end, FALSE)}
  BY MapNewIs
<1>2. QED
  BY <1>1 DEF Extend, Extended

(* No growth at all.                                                       *)
LEMMA GrowsNone ==
  ASSUME NEW k, NEW D, KInv(k, D), k.heap_end \in Nat
  PROVE  Grows(k, k, D)
<1>1. NewPages(k, k) = {}
  BY DEF NewPages
<1>2. D \cup NewPages(k, k) = D
  BY <1>1
<1>3. k.status = "up" /\ InReach(k.mem) => Gets(k, k, D, NewPages(k, k), FALSE)
  BY <1>1 DEF Gets
<1>4. k.heap_end <= k.heap_end /\ Adds(k, k, 2 * (k.heap_end - k.heap_end))
  <2>1. Cardinality(k.used) \in Nat
    BY UsedFinite DEF KInv
  <2>2. QED
    BY <2>1 DEF Adds
<1>5. QED
  BY <1>2, <1>3, <1>4 DEF Grows

(* The heap gets one page, or none when memory has run out.                *)
LEMMA GrowsOnce ==
  ASSUME NEW k, NEW D, KInv(k, D), k.heap_end \in HEAP_START..(HEAP_MAX - 1), k.heap_end \notin D
  PROVE  Grows(k, Extended(k), D) /\ Extended(k).heap_end <= k.heap_end + 1
<1> DEFINE h == k.heap_end
           m == Mapping(k, h, FALSE)
           n == Extended(k)
<1>1. h \in Nat /\ h + 1 \in Nat /\ h <= h + 1 /\ h \in Movable
  BY HeapPlaces
<1>2. CASE Free(k) = {} \/ k.status # "up"
  <2>1. n = k
    BY <1>2 DEF Extended
  <2> HIDE DEF n
  <2>2. Grows(k, n, D) /\ n.heap_end <= h + 1
    BY <1>1, <2>1, GrowsNone
  <2>3. QED
    BY <2>2 DEF n
<1>3. CASE Free(k) # {} /\ k.status = "up"
  <2> DEFINE v == m.heap_end + 1
  <2>1. n = [m EXCEPT !.heap_end = v]
    BY <1>3 DEF Extended
  <2>2. /\ KInv(m, D \cup {h}) /\ m.heap_end = h
        /\ m.status = "up" /\ InReach(m.mem) => MapSeen(k, m, D, h, FALSE)
    BY <1>1, <1>3, MapKeeps
  <2>3. Adds(k, m, 2)
    BY <1>1, <1>3, MapUses
  <2> HIDE DEF n, m, v
  <2>4. Fields(m)
    BY <2>2 DEF KInv
  <2>5. /\ Fields(n) /\ n.mem = m.mem /\ n.used = m.used /\ n.tlb = m.tlb
        /\ n.heap_end = v /\ n.status = m.status /\ n.ptr = m.ptr
    BY <2>1, <2>4, Excepts
  <2>6. v = h + 1
    BY <2>2 DEF v
  <2>7. KInv(n, D \cup {h})
    BY <2>2, <2>5 DEF KInv, Sizes, Free, Stopped
  <2>8. MapSeen(k, m, D, h, FALSE) => MapSeen(k, n, D, h, FALSE)
    BY <2>5 DEF MapSeen, Loose
  <2>9. Gives(k, n, D, h, FALSE) /\ Adds(k, n, 2 * (n.heap_end - h))
    <3>1. Adds(k, n, 2)
      BY <2>5, <2>3 DEF Adds
    <3>2. 2 * (n.heap_end - h) = 2
      BY <1>1, <2>5, <2>6
    <3>3. QED
      BY <2>2, <2>5, <2>7, <2>8, <3>1, <3>2 DEF Gives
  <2>10. NewPages(k, n) = {h}
    BY <1>1, <2>5, <2>6 DEF NewPages
  <2>11. Was(k, D, h) = {}
    BY DEF Was
  <2>12. n.status = "up" /\ InReach(n.mem) =>
           Gets(k, n, D, NewPages(k, n), FALSE) /\ Loose(n, D \cup NewPages(k, n)) = Loose(k, D)
    <3> SUFFICES ASSUME n.status = "up", InReach(n.mem)
                 PROVE  Gets(k, n, D, {h}, FALSE) /\ Loose(n, D \cup {h}) = Loose(k, D)
      BY <2>10
    <3>1. Gets(k, n, D, {h}, FALSE) /\ Keeps(k, n, D, h)
      BY <1>3, <2>9, GivesGets, Zenon
    <3>2. QED
      BY <2>11, <3>1 DEF Keeps
  <2>13. Grows(k, n, D)
    BY <1>1, <1>3, <2>5, <2>6, <2>7, <2>9, <2>10, <2>12 DEF Grows
  <2>14. n.heap_end <= h + 1
    BY <1>1, <2>5, <2>6
  <2>15. QED
    BY <2>13, <2>14 DEF n
<1>4. QED
  BY <1>2, <1>3

(* Growing twice is growing.                                               *)
LEMMA GrowsThen ==
  ASSUME NEW k, NEW l, NEW n, NEW D, KInv(k, D),
         Grows(k, l, D), Grows(l, n, D \cup NewPages(k, l)), n.heap_end <= HEAP_MAX,
         HEAP_START <= k.heap_end, \A p \in D : p < k.heap_end
  PROVE  Grows(k, n, D)
<1> DEFINE A == NewPages(k, l)
           B == NewPages(l, n)
           G == D \cup A
<1>1. /\ k.heap_end \in Nat /\ l.heap_end \in Nat /\ n.heap_end \in Nat
      /\ k.heap_end <= l.heap_end /\ l.heap_end <= n.heap_end
      /\ KInv(l, G) /\ KInv(n, G \cup B)
  BY DEF Grows
<1>2. NewPages(k, n) = A \cup B
  BY <1>1 DEF NewPages
<1>3. A \cap B = {} /\ D \cap A = {} /\ D \cap B = {}
  BY <1>1, HeldUsed DEF NewPages
<1>4. A \cup B \subseteq Reach
  <2>1. A \cup B \subseteq USER_STACK..(HEAP_MAX - 1)
    BY <1>1, HeapPlaces DEF NewPages
  <2>2. QED
    BY <2>1, HeapPlaces DEF Movable
<1>5. D \subseteq Reach /\ Sizes(k)
  BY DEF KInv, Movable
<1> HIDE DEF A, B
<1>6. G \cup B = D \cup NewPages(k, n)
  BY <1>2
<1>7. ASSUME n.status = "up", InReach(n.mem)
      PROVE  /\ Gets(k, n, D, NewPages(k, n), FALSE)
             /\ Loose(n, D \cup NewPages(k, n)) = Loose(k, D)
  <2>1. Gets(l, n, G, B, FALSE) /\ Loose(n, G \cup B) = Loose(l, G)
    BY <1>7 DEF Grows, A, B
  <2>2. l.status = "up" /\ InReach(l.mem)
    BY <2>1 DEF Gets
  <2>3. Gets(k, l, D, A, FALSE) /\ Loose(l, G) = Loose(k, D)
    BY <2>2 DEF Grows, A
  <2>4. /\ k.status = "up" /\ InReach(k.mem)
        /\ \A p \in A : Serves(l.mem, p) /\ Walk(l.mem, p).user = FALSE /\ Walk(l.mem, p).frame \notin Held(k.mem, D)
        /\ \A q \in Reach \ A : Serves(l.mem, q) = Serves(k.mem, q)
                                /\ (Leads(Walk(k.mem, q)) => Walk(l.mem, q) = Walk(k.mem, q))
    BY <2>3 DEF Gets
  <2>5. /\ \A p \in B : Serves(n.mem, p) /\ Walk(n.mem, p).user = FALSE /\ Walk(n.mem, p).frame \notin Held(l.mem, G)
        /\ \A q \in Reach \ B : Serves(n.mem, q) = Serves(l.mem, q)
                                /\ (Leads(Walk(l.mem, q)) => Walk(n.mem, q) = Walk(l.mem, q))
    BY <2>1 DEF Gets
  <2>6. \A q \in Reach : q \in Nat /\ q < FANOUT * FANOUT * FANOUT * FANOUT
    BY <1>5, FramesFit
  <2>7. Shape(k.mem) /\ Shape(l.mem)
    BY <1>1 DEF KInv
  <2>8. /\ \A q \in Reach : Serves(l.mem, q) => Leads(Walk(l.mem, q)) /\ Walk(l.mem, q).frame = Low(l.mem, q).frame
        /\ \A q \in Reach : Serves(k.mem, q) => Leads(Walk(k.mem, q)) /\ Walk(k.mem, q).frame = Low(k.mem, q).frame
    BY <2>6, <2>7, WalkLeads
  <2>9. Held(k.mem, D) \subseteq Held(l.mem, G)
    <3> SUFFICES ASSUME NEW p \in D, Serves(k.mem, p)
                 PROVE  Low(k.mem, p).frame \in Held(l.mem, G)
      BY DEF Held
    <3>1. p \in Reach \ A /\ p \in G
      BY <1>3, <1>5
    <3>2. Serves(l.mem, p) /\ Walk(l.mem, p) = Walk(k.mem, p)
      BY <2>4, <2>8, <3>1
    <3>3. Low(l.mem, p).frame = Low(k.mem, p).frame
      BY <2>8, <3>1, <3>2
    <3> HIDE DEF G
    <3>4. QED
      BY <3>1, <3>2, <3>3 DEF Held
  <2>10. ASSUME NEW p \in A \cup B
         PROVE  Serves(n.mem, p) /\ Walk(n.mem, p).user = FALSE /\ Walk(n.mem, p).frame \notin Held(k.mem, D)
    <3>1. CASE p \in B
      BY <2>5, <2>9, <3>1
    <3>2. CASE p \in A
      <4>1. p \in Reach \ B
        BY <1>3, <1>4, <3>2
      <4>2. Leads(Walk(l.mem, p))
        BY <2>4, <2>8, <3>2, <4>1
      <4>3. QED
        BY <2>4, <2>5, <3>2, <4>1, <4>2
    <3>3. QED
      BY <3>1, <3>2
  <2>11. ASSUME NEW q \in Reach \ (A \cup B)
         PROVE  /\ Serves(n.mem, q) = Serves(k.mem, q)
                /\ Leads(Walk(k.mem, q)) => Walk(n.mem, q) = Walk(k.mem, q)
    BY <2>4, <2>5
  <2>12. Gets(k, n, D, A \cup B, FALSE)
    BY <2>4, <2>10, <2>11 DEF Gets
  <2>13. QED
    BY <1>2, <1>6, <2>1, <2>3, <2>12
<1>8. KInv(n, D \cup NewPages(k, n))
  BY <1>1, <1>6
<1>9. k.status # "up" => n.status # "up"
  BY DEF Grows
<1>10. k.heap_end <= n.heap_end
  BY <1>1
<1>11. Adds(k, n, 2 * (n.heap_end - k.heap_end))
  <2>1. Adds(k, l, 2 * (l.heap_end - k.heap_end)) /\ Adds(l, n, 2 * (n.heap_end - l.heap_end))
    BY DEF Grows
  <2>2. Cardinality(k.used) \in Nat /\ Cardinality(l.used) \in Nat /\ Cardinality(n.used) \in Nat
    BY <1>1, UsedFinite DEF KInv
  <2>3. QED
    BY <1>1, <2>1, <2>2 DEF Adds
<1>12. QED
  BY <1>1, <1>7, <1>8, <1>9, <1>10, <1>11, Zenon DEF Grows
(* The header in the first of the new pages changes none of this.          *)
LEMMA GrowsFilled ==
  ASSUME NEW k, NEW n, NEW D, Grows(k, n, D), k.heap_end < n.heap_end
  PROVE  LET o == Store(n, k.heap_end, 0, Junk)
         IN Grows(k, o, D) /\ o.heap_end = n.heap_end
<1> DEFINE o == Store(n, k.heap_end, 0, Junk)
           N == NewPages(k, n)
           G == D \cup N
<1>1. /\ k.heap_end \in Nat /\ n.heap_end \in Nat /\ k.heap_end <= n.heap_end /\ KInv(n, G)
      /\ (k.status # "up" => n.status # "up")
  BY DEF Grows
<1>2. k.heap_end \in G /\ k.heap_end \in N
  BY <1>1 DEF NewPages
<1>3. n.status = "up" /\ InReach(n.mem) => Gets(k, n, D, N, FALSE) /\ Loose(n, G) = Loose(k, D)
  BY DEF Grows
<1>4. n.status = "up" /\ InReach(n.mem) => Serves(n.mem, k.heap_end)
  BY <1>2, <1>3 DEF Gets
<1> HIDE DEF G
<1>5. /\ KInv(o, G) /\ Like(n.mem, o.mem) /\ Others(n, o)
      /\ o.status = n.status \/ (~Serves(n.mem, k.heap_end) /\ o.status # "up")
  BY <1>1, <1>2, <1>4, FillKeeps
<1> HIDE DEF o
<1>6. o.heap_end = n.heap_end /\ o.used = n.used /\ (o.status = "up" => n.status = "up")
  BY <1>5 DEF Others
<1>7. NewPages(k, o) = N
  BY <1>6 DEF NewPages
<1>8. Shape(n.mem) /\ Shape(o.mem) /\ UserOpen(n.mem) /\ Sizes(o) /\ G \subseteq Movable /\ Sizes(n)
  BY <1>1, <1>5 DEF KInv
<1>9. \A q \in Reach : q \in Nat /\ q < FANOUT * FANOUT * FANOUT * FANOUT
  BY <1>8, FramesFit
<1>10. /\ \A q \in Reach : Serves(o.mem, q) = Serves(n.mem, q)
       /\ \A q \in Reach : /\ Walk(o.mem, q).frame = Walk(n.mem, q).frame
                           /\ Leads(Walk(n.mem, q)) => Walk(o.mem, q) = Walk(n.mem, q)
  BY <1>5, <1>8, <1>9, LikeViews
<1>11. Loose(o, G) = Loose(n, G) /\ InReach(o.mem) = InReach(n.mem)
  <2>1. Loose(o, G) = Loose(n, G) \cup (o.used \ n.used) /\ InReach(o.mem) = InReach(n.mem)
    BY <1>1, <1>5, <1>6, <1>8, AccountsLike
  <2>2. QED
    BY <1>6, <2>1
<1>12. ASSUME o.status = "up", InReach(o.mem)
       PROVE  Gets(k, o, D, N, FALSE) /\ Loose(o, G) = Loose(k, D)
  <2>1. Gets(k, n, D, N, FALSE) /\ Loose(n, G) = Loose(k, D)
    BY <1>3, <1>6, <1>11, <1>12
  <2>2. \A p \in N : p \in Reach /\ Serves(n.mem, p) /\ Leads(Walk(n.mem, p))
    <3>1. N \subseteq Reach
      BY <1>8 DEF G, Movable
    <3>2. QED
      BY <1>8, <1>9, <2>1, <3>1, WalkLeads DEF Gets
  <2>3. \A p \in N : /\ Serves(o.mem, p) /\ Walk(o.mem, p).user = FALSE
                     /\ Walk(o.mem, p).frame \notin Held(k.mem, D)
    BY <1>10, <2>1, <2>2 DEF Gets
  <2>4. ASSUME NEW q \in Reach \ N
        PROVE  /\ Serves(o.mem, q) = Serves(k.mem, q)
               /\ Leads(Walk(k.mem, q)) => Walk(o.mem, q) = Walk(k.mem, q)
    BY <1>10, <2>1 DEF Gets
  <2>5. QED
    BY <1>11, <2>1, <2>3, <2>4 DEF Gets
<1>13. Adds(k, o, 2 * (o.heap_end - k.heap_end))
  BY <1>6 DEF Grows, Adds
<1>14. Grows(k, o, D)
  BY <1>1, <1>5, <1>6, <1>7, <1>12, <1>13 DEF Grows, G
<1>15. QED
  BY <1>6, <1>14 DEF o

(* kmalloc that takes m pages, and how it ends.                            *)
Extension(k, m) == IF m = 1 THEN Extended(k) ELSE Extended(Extended(k))

Headed(k, m) ==
  IF Extension(k, m).heap_end = k.heap_end + m THEN Store(Extension(k, m), k.heap_end, 0, Junk)
  ELSE Extension(k, m)

(* It gets the pages that kmalloc asks for, or as many as there are.       *)
LEMMA ExtensionGrows ==
  ASSUME NEW k, NEW D, KInv(k, D), NEW m \in 1..2,
         k.heap_end \in HEAP_START..HEAP_MAX, k.heap_end + m <= HEAP_MAX,
         \A p \in D : p < k.heap_end
  PROVE  Grows(k, Headed(k, m), D) /\ Headed(k, m).heap_end <= k.heap_end + m
<1> DEFINE h == k.heap_end
           a == Extended(k)
           b == Extended(a)
           n == Extension(k, m)
           o == Headed(k, m)
<1>1. h \in Nat /\ h \in HEAP_START..(HEAP_MAX - 1) /\ HEAP_START <= h /\ HEAP_MAX \in Nat /\ HEAP_START \in Nat
  BY HeapPlaces
<1>2. h \notin D
  BY <1>1
<1>3. Grows(k, a, D) /\ a.heap_end <= h + 1
  BY <1>1, <1>2, GrowsOnce
<1> HIDE DEF a
<1>4. a.heap_end \in Nat /\ h <= a.heap_end /\ KInv(a, D \cup NewPages(k, a))
  BY <1>3 DEF Grows
<1>5. Grows(k, n, D) /\ n.heap_end <= h + m
  <2>1. CASE m = 1
    BY <1>3, <2>1 DEF Extension, a
  <2>2. CASE m = 2
    <3>1. a.heap_end \in HEAP_START..(HEAP_MAX - 1)
      BY <1>1, <1>3, <1>4, <2>2
    <3>2. a.heap_end \notin D \cup NewPages(k, a)
      <4>1. \A p \in D : p \in Nat /\ p < h
        BY HeldUsed
      <4>2. QED
        BY <1>1, <1>4, <4>1 DEF NewPages
    <3>3. Grows(a, b, D \cup NewPages(k, a)) /\ b.heap_end <= a.heap_end + 1
      BY <1>4, <3>1, <3>2, GrowsOnce
    <3> HIDE DEF b
    <3>4. b.heap_end \in Nat /\ b.heap_end <= h + 2 /\ b.heap_end <= HEAP_MAX
      <4>1. b.heap_end \in Nat
        BY <3>3 DEF Grows
      <4>2. QED
        BY <1>1, <1>3, <1>4, <2>2, <3>3, <4>1
    <3>5. Grows(k, b, D)
      BY <1>1, <1>3, <3>3, <3>4, GrowsThen
    <3>6. n = b
      BY <2>2 DEF Extension, a, b
    <3> HIDE DEF n
    <3>7. QED
      BY <2>2, <3>4, <3>5, <3>6
  <2>3. QED
    BY <2>1, <2>2
<1>6. CASE n.heap_end = h + m
  <2>1. o = Store(n, h, 0, Junk)
    BY <1>6 DEF Headed
  <2> HIDE DEF n, o
  <2>2. h < n.heap_end
    BY <1>1, <1>6
  <2>3. Grows(k, o, D) /\ o.heap_end = n.heap_end
    BY <1>5, <2>1, <2>2, GrowsFilled
  <2>4. Grows(k, o, D) /\ o.heap_end <= h + m
    BY <1>5, <2>3
  <2>5. QED
    BY <2>4 DEF o
<1>7. CASE n.heap_end # h + m
  <2>1. o = n
    BY <1>7 DEF Headed
  <2> HIDE DEF n, o
  <2>2. Grows(k, o, D) /\ o.heap_end <= h + m
    BY <1>5, <2>1
  <2>3. QED
    BY <2>2 DEF o
<1>8. QED
  BY <1>6, <1>7

-----------------------------------------------------------------------------
(* The invariant of the system.                                            *)

(* The pages that were given memory, when boot has come to b, the heap to  *)
(* h, and memtest works with the frame t.                                  *)
Asked(b, h, t) ==
  HEAP_START..(h - 1)
    \cup {p \in {USER_CODE} : b >= 2}
    \cup {p \in {USER_STACK} : b >= StackMapped}
    \cup USER_STACK..(USER_STACK + b - StackMapped - 1)
    \cup {p \in {MEMTEST} : t # 0}

Given == Asked(boot, heap_end, testing)

Progress(b, h) ==
  /\ b \in 0..Booted /\ h \in HEAP_START..HEAP_MAX
  /\ b = 0 => h = HEAP_START
  /\ b < Booted => h <= HEAP_START + BOOT_HEAP

(* The frames that were handed out for them: two a page at most, and one   *)
(* for memtest.                                                            *)
Spent(k, b, t) ==
  Cardinality(k.used) <= 2 * (k.heap_end - HEAP_START)
                           + 2 * (IF b = 0 THEN 0 ELSE b - 1) + (IF t = 0 THEN 0 ELSE 1)

(* kernel_main loses one frame.                                            *)
Lost(k, D, b) == \E x : Accounts(k, D, {y \in {x} : b > StackMapped})

IInv ==
  /\ KInv(Now, Given) /\ Progress(boot, heap_end) /\ Lost(Now, Given, boot)
  /\ Spent(Now, boot, testing)
  /\ testing # 0 => Borrowed(Now, testing)

(* What holds of the state a call ends in holds of the next state.         *)
LEMMA BecomeKeeps ==
  ASSUME NEW n, NEW G, KInv(n, G),
         mem' = n.mem, used' = n.used, tlb' = n.tlb, heap_end' = n.heap_end,
         status' = n.status, frames' = frames
  PROVE  /\ Given' = G => KInv(Now, Given)'
         /\ \A X : Accounts(n, G, X) /\ Given' = G => Accounts(Now', Given', X)
         /\ \A t : Borrowed(n, t) => Borrowed(Now', t)
         /\ \A b, t : Spent(n, b, t) => Spent(Now', b, t)
<1>1. /\ Now'.mem = n.mem /\ Now'.used = n.used /\ Now'.tlb = n.tlb /\ Now'.heap_end = n.heap_end
      /\ Now'.status = n.status /\ Fields(Now')
  BY DEF Now, Fields
<1>2. Given' = G => KInv(Now, Given)'
  BY <1>1 DEF KInv, Sizes, Free, Stopped
<1>3. \A X : Accounts(n, G, X) /\ Given' = G => Accounts(Now', Given', X)
  BY <1>1 DEF Accounts, Loose
<1>4. \A t : Borrowed(n, t) => Borrowed(Now', t)
  BY <1>1 DEF Borrowed
<1>5. \A b, t : Spent(n, b, t) => Spent(Now', b, t)
  BY <1>1 DEF Spent
<1>6. QED
  BY <1>2, <1>3, <1>4, <1>5
(* The entries of the tables of boot.                                      *)
LEMMA BootCells ==
  /\ BootEntry(L4, 0) = Entry(L3, FALSE) /\ BootEntry(L3, 0) = Entry(L2, FALSE)
  /\ \A i \in Index \ {0} : BootEntry(L4, i) = Zero /\ BootEntry(L3, i) = Zero
  /\ \A i \in 0..(BOOT_L1 - 1) : BootEntry(L2, i) = Entry(L1(i), FALSE)
  /\ \A i \in Upper : BootEntry(L2, i) = Zero
  /\ \A h \in 0..(BOOT_L1 - 1), i \in Index : BootEntry(L1(h), i) = Entry(h * FANOUT + i, FALSE)
<1>1. L4 = 1 /\ L3 = 2 /\ L2 = 3 /\ L1(0) = 4 /\ \A h : L1(h) = 4 + h
  BY DEF L4, L3, L2, L1
<1>2. /\ ~(L4 >= L1(0)) /\ ~(L3 >= L1(0)) /\ ~(L2 >= L1(0))
      /\ L4 # L3 /\ L4 # L2 /\ L3 # L2
  BY <1>1
<1>3. BootEntry(L4, 0) = Entry(L3, FALSE) /\ BootEntry(L3, 0) = Entry(L2, FALSE)
  BY <1>1, <1>2 DEF BootEntry
<1>4. ASSUME NEW i \in Index \ {0}
      PROVE  BootEntry(L4, i) = Zero /\ BootEntry(L3, i) = Zero
  <2>1. i # 0
    OBVIOUS
  <2>2. BootEntry(L4, i) = Zero
    BY <1>2, <2>1, Zenon DEF BootEntry
  <2>3. BootEntry(L3, i) = Zero
    BY <1>2, <2>1, Zenon DEF BootEntry
  <2>4. QED
    BY <2>2, <2>3
<1>5. ASSUME NEW i \in 0..(BOOT_L1 - 1)
      PROVE  BootEntry(L2, i) = Entry(L1(i), FALSE)
  <2>1. i < BOOT_L1
    BY FanoutIs
  <2>2. QED
    BY <1>1, <1>2, <2>1 DEF BootEntry
<1>6. ASSUME NEW i \in Upper
      PROVE  BootEntry(L2, i) = Zero
  <2>1. ~(i < BOOT_L1)
    BY FanoutIs DEF Upper
  <2>2. QED
    BY <1>2, <2>1, Zenon DEF BootEntry
<1>7. ASSUME NEW h \in 0..(BOOT_L1 - 1), NEW i \in Index
      PROVE  BootEntry(L1(h), i) = Entry(h * FANOUT + i, FALSE)
  <2>1. h \in Nat
    BY FanoutIs
  <2> DEFINE f == 4 + h
  <2>2. f >= 4 /\ f # 1 /\ f # 2 /\ f # 3 /\ f - 4 = h /\ f = L1(h)
    BY <1>1, <2>1
  <2> HIDE DEF f
  <2>3. BootEntry(f, i) = Entry((f - 4) * FANOUT + i, FALSE)
    BY <1>1, <2>2 DEF BootEntry
  <2>4. QED
    BY <2>2, <2>3
<1>8. QED
  BY <1>3, <1>4, <1>5, <1>6, <1>7

(* The invariant holds when the kernel starts.                             *)
LEMMA InitKeeps == Init => IInv
<1> SUFFICES ASSUME Init PROVE IInv
  OBVIOUS
<1> DEFINE m == [f \in BootTables |-> [i \in Index |-> BootEntry(f, i)]]
<1>1. /\ frames \in MemorySizes /\ mem = m /\ used = {} /\ tlb = <<>> /\ boot = 0
      /\ heap_end = HEAP_START /\ testing = 0 /\ status = "up"
  BY DEF Init, BootTables
<1>2. /\ Now.mem = m /\ Now.used = {} /\ Now.tlb = <<>> /\ Now.heap_end = HEAP_START
      /\ Now.status = "up" /\ Fields(Now)
  BY <1>1 DEF Now, Fields
<1>3. DOMAIN m = BootTables /\ \A f \in BootTables : m[f] = [i \in Index |-> BootEntry(f, i)]
  OBVIOUS
<1> HIDE DEF m
<1>4. L4 \in BootTables /\ L3 \in BootTables /\ L2 \in BootTables /\ 0 \in Index /\ Upper \subseteq Index
      /\ 0..(BOOT_L1 - 1) \subseteq Index
  BY FanoutIs DEF BootTables, Index, Upper
<1>5. /\ \A i \in Index : i \in Upper \/ i \in 0..(BOOT_L1 - 1)
      /\ \A h \in 0..(BOOT_L1 - 1) : L1(h) \in BootTables
  BY FanoutIs, TablePlaces DEF Index, Upper
<1>6. /\ m[L4][0] = Entry(L3, FALSE) /\ m[L3][0] = Entry(L2, FALSE)
      /\ \A i \in Index \ {0} : m[L4][i] = Zero /\ m[L3][i] = Zero
      /\ \A i \in 0..(BOOT_L1 - 1) : Dir(m, i) = Entry(L1(i), FALSE)
      /\ \A i \in Upper : Dir(m, i) = Zero
      /\ \A h \in 0..(BOOT_L1 - 1), i \in Index : m[L1(h)][i] = Entry(h * FANOUT + i, FALSE)
  <2>1. \A f \in BootTables, i \in Index : m[f][i] = BootEntry(f, i)
    BY <1>3
  <2>2. \A i \in Index : m[L4][i] = BootEntry(L4, i) /\ m[L3][i] = BootEntry(L3, i) /\ Dir(m, i) = BootEntry(L2, i)
    BY <1>4, <2>1 DEF Dir
  <2>3. m[L4][0] = Entry(L3, FALSE) /\ m[L3][0] = Entry(L2, FALSE)
    BY <1>4, <2>2, BootCells
  <2>4. \A i \in Index \ {0} : m[L4][i] = Zero /\ m[L3][i] = Zero
    BY <2>2, BootCells
  <2>5. \A i \in 0..(BOOT_L1 - 1) : Dir(m, i) = Entry(L1(i), FALSE)
    BY <1>4, <2>2, BootCells
  <2>6. \A i \in Upper : Dir(m, i) = Zero
    BY <1>4, <2>2, BootCells
  <2>7. ASSUME NEW h \in 0..(BOOT_L1 - 1), NEW i \in Index
        PROVE  m[L1(h)][i] = Entry(h * FANOUT + i, FALSE)
    BY <1>5, <2>1, BootCells
  <2>8. QED
    BY <2>3, <2>4, <2>5, <2>6, <2>7
<1>7. L3 \in Int /\ L2 \in Int /\ FALSE \in BOOLEAN /\ \A h \in 0..(BOOT_L1 - 1) : L1(h) \in Int
  BY DEF L3, L2, L1
<1>8. Typed(m)
  <2>1. BootTables \subseteq Nat
    BY TablePlaces, Places
  <2>2. ASSUME NEW f \in BootTables, NEW i \in Index
        PROVE  BootEntry(f, i) \in Cells
    <3>1. CASE f = L4
      <4>1. BootEntry(f, i) = Zero \/ BootEntry(f, i) = Entry(L3, FALSE)
        BY <3>1, BootCells
      <4>2. QED
        BY <1>7, <4>1, CellKinds
    <3>2. CASE f = L3
      <4>1. BootEntry(f, i) = Zero \/ BootEntry(f, i) = Entry(L2, FALSE)
        BY <3>2, BootCells
      <4>2. QED
        BY <1>7, <4>1, CellKinds
    <3>3. CASE f = L2
      <4>1. BootEntry(f, i) = Zero \/ \E h \in 0..(BOOT_L1 - 1) : BootEntry(f, i) = Entry(L1(h), FALSE)
        BY <1>5, <2>2, <3>3, BootCells
      <4>2. QED
        BY <1>7, <4>1, CellKinds
    <3>4. CASE f \notin {L4, L3, L2}
      <4>1. PICK h \in 0..(BOOT_L1 - 1) : f = L1(h)
        BY <3>4 DEF BootTables
      <4>2. h * FANOUT + i \in Int
        BY <2>2, FanoutIs DEF Index
      <4>3. QED
        BY <1>7, <2>2, <4>1, <4>2, BootCells, CellKinds
    <3>5. QED
      BY <3>1, <3>2, <3>3, <3>4
  <2>3. QED
    BY <1>3, <2>1, <2>2 DEF Typed
<1>9. \A page \in Identity : /\ Hi(page) \in 0..(BOOT_L1 - 1) /\ Lo(page) \in Index
                             /\ Hi(page) * FANOUT + Lo(page) = page
  <2> TAKE page \in Identity
  <2>1. page \in Nat /\ Hi(page) < BOOT_L1
    BY Places
  <2>2. Hi(page) \in Nat /\ Lo(page) \in Index /\ page = FANOUT * Hi(page) + Lo(page)
    BY <2>1, HiLo
  <2>3. FANOUT * Hi(page) = Hi(page) * FANOUT
    BY <2>2, FanoutIs
  <2>4. QED
    BY <2>1, <2>2, <2>3, FanoutIs
<1>10. \A page \in Identity : m[L1(Hi(page))][Lo(page)] = Entry(page, FALSE)
  BY <1>6, <1>9
<1>11. Shape(m)
  <2>1. \A f : Entry(f, FALSE).present /\ Entry(f, FALSE).frame = f
    BY DEF Entry
  <2>2. BootTables \subseteq DOMAIN m
    BY <1>3
  <2>3. \A i \in 0..(BOOT_L1 - 1) : Dir(m, i).present /\ Dir(m, i).frame = L1(i)
    BY <1>6, <2>1
  <2>4. m[L4][0].present /\ m[L4][0].frame = L3 /\ m[L3][0].present /\ m[L3][0].frame = L2
    BY <1>6, <2>1
  <2>5. QED
    BY <1>6, <1>8, <1>10, <2>2, <2>3, <2>4 DEF Shape
<1>12. Made(m) = {}
  BY <1>6, CellKinds DEF Made
<1>13. ASSUME NEW page \in Reach, Dir(m, Hi(page)).present
       PROVE  page \in Identity /\ Low(m, page) = Entry(page, FALSE)
  <2>1. Hi(page) \in Index
    BY Indexes, Places
  <2>2. Hi(page) \notin Upper
    BY <1>6, <1>13, CellKinds
  <2>3. Hi(page) \in 0..(BOOT_L1 - 1)
    BY <1>5, <2>1, <2>2
  <2>4. page \in Identity
    BY <2>3, Places, FanoutIs
  <2>5. Dir(m, Hi(page)).frame = L1(Hi(page))
    BY <1>6, <1>7, <2>3, CellKinds
  <2>6. Low(m, page) = m[L1(Hi(page))][Lo(page)]
    BY <1>3, <1>5, <2>3, <2>5 DEF Low, Cell
  <2>7. QED
    BY <1>10, <2>4, <2>6
<1>14. Given = {}
  BY <1>1, HeapPlaces DEF Given, Asked, StackMapped
<1>15. Kinds(m, {}, {})
  BY <1>13 DEF Kinds, Kind, Movable
<1>16. UserOpen(m)
  <2>1. \A f : Entry(f, FALSE).user = FALSE
    BY DEF Entry
  <2>2. QED
    BY <1>13, <2>1 DEF UserOpen, Serves
<1>17. TablesMade(m, {}) /\ HeldOnce(m, {})
  BY <1>6, <1>12, CellKinds DEF TablesMade, HeldOnce
<1>18. Coherent(m, <<>>)
  BY DEF Coherent
<1>19. KInv(Now, Given)
  BY <1>1, <1>2, <1>3, <1>11, <1>12, <1>14, <1>15, <1>16, <1>17, <1>18 DEF KInv, Sizes, Stopped
<1>20. Progress(boot, heap_end)
  BY <1>1, HeapPlaces DEF Progress, Booted, StackMapped
<1>21. Lost(Now, Given, boot)
  <2>1. Loose(Now, Given) = {}
    BY <1>2 DEF Loose
  <2>2. \A x : {y \in {x} : boot > StackMapped} = {}
    BY <1>1 DEF StackMapped
  <2>3. Accounts(Now, Given, {})
    BY <1>14, <2>1 DEF Accounts
  <2>4. QED
    BY <2>2, <2>3 DEF Lost
<1>22. Spent(Now, boot, testing)
  <2>1. Cardinality(Now.used) = 0
    BY <1>2, FS_EmptySet
  <2>2. 2 * (Now.heap_end - HEAP_START) = 0
    BY <1>2, HeapPlaces
  <2>3. QED
    BY <1>1, <2>1, <2>2 DEF Spent
<1>23. QED
  BY <1>1, <1>19, <1>20, <1>21, <1>22 DEF IInv
-----------------------------------------------------------------------------
(* The steps.                                                              *)

(* The fields of Now.                                                      *)
LEMMA NowIs ==
  /\ Now.mem = mem /\ Now.used = used /\ Now.tlb = tlb /\ Now.heap_end = heap_end
  /\ Now.status = status /\ Fields(Now)
BY DEF Now, Fields

(* There is memory for the pages that kernel_main does not test it for.    *)
LEMMA Lasts ==
  ASSUME IInv, boot < Booted
  PROVE  Free(Now) # {}
<1> DEFINE U == Cardinality(used)
           h == heap_end - HEAP_START
<1>1. KInv(Now, Given) /\ Progress(boot, heap_end) /\ Spent(Now, boot, testing)
  BY DEF IInv
<1>2. Sizes(Now) /\ Now.used = used /\ Now.heap_end = heap_end
  BY <1>1, NowIs DEF KInv
<1>3. U \in Nat
  BY <1>2, UsedFinite
<1>4. h \in Nat /\ h <= BOOT_HEAP /\ boot \in Nat /\ boot <= STACK_PAGES + 2
  BY <1>1, HeapPlaces DEF Progress, Booted, StackMapped
<1>5. U <= 2 * h + 2 * (IF boot = 0 THEN 0 ELSE boot - 1) + (IF testing = 0 THEN 0 ELSE 1)
  BY <1>1, <1>2 DEF Spent
<1> HIDE DEF U, h
<1>6. U <= 2 * BOOT_HEAP + 2 * STACK_PAGES + 3
  <2>1. (IF boot = 0 THEN 0 ELSE boot - 1) <= STACK_PAGES + 1 /\ (IF boot = 0 THEN 0 ELSE boot - 1) \in Nat
    BY <1>4, HeapPlaces
  <2>2. (IF testing = 0 THEN 0 ELSE 1) <= 1 /\ (IF testing = 0 THEN 0 ELSE 1) \in Nat
    OBVIOUS
  <2> DEFINE x == IF boot = 0 THEN 0 ELSE boot - 1
             y == IF testing = 0 THEN 0 ELSE 1
  <2>3. U <= 2 * h + 2 * x + y /\ x <= STACK_PAGES + 1 /\ y <= 1 /\ x \in Nat /\ y \in Nat
    BY <1>5, <2>1, <2>2
  <2> HIDE DEF x, y
  <2>4. QED
    BY <1>3, <1>4, <2>3, HeapPlaces
<1>7. FIRST_FREE + 2 * (BOOT_HEAP + STACK_PAGES + 2) <= frames
  BY <1>2, MemoryForBoot DEF Sizes
<1>8. frames \in Nat /\ FIRST_FREE \in Nat
  BY <1>2, FramesFit, Places
<1> SUFFICES ASSUME Free(Now) = {}
             PROVE  FALSE
  OBVIOUS
<1>9. FIRST_FREE..(frames - 1) \subseteq used /\ IsFiniteSet(used)
  BY <1>2, UsedFinite DEF Free
<1>10. Cardinality(FIRST_FREE..(frames - 1)) <= U
  BY <1>9, FS_Subset DEF U
<1>11. Cardinality(FIRST_FREE..(frames - 1)) = frames - FIRST_FREE
  <2>1. ~(FIRST_FREE > frames - 1) /\ (frames - 1) - FIRST_FREE + 1 = frames - FIRST_FREE
        /\ FIRST_FREE \in Int /\ frames - 1 \in Int
    BY <1>7, <1>8, HeapPlaces
  <2>2. QED
    BY <2>1, FS_Interval
<1>12. QED
  BY <1>3, <1>6, <1>7, <1>8, <1>10, <1>11, HeapPlaces

(* The next state is the state n that a call ends in.                      *)
Ends(n) ==
  /\ mem' = n.mem /\ used' = n.used /\ tlb' = n.tlb /\ heap_end' = n.heap_end
  /\ status' = n.status /\ frames' = frames

(* What becomes of the pages in a step that leaves every table in reach.   *)
UserPages == {USER_CODE} \cup USER_STACK..(USER_STACK + STACK_PAGES - 1)

Moves ==
  \/ Gets(Now, Now', Given, heap_end..(heap_end' - 1), FALSE) /\ Given' = Given \cup heap_end..(heap_end' - 1)
  \/ \E page \in UserPages : Gets(Now, Now', Given, {page}, TRUE) /\ Given' = Given \cup {page}
  \/ Gets(Now, Now', Given, {MEMTEST}, FALSE) /\ Given' = Given \cup {MEMTEST}
  \/ /\ InReach(mem) /\ Walk(mem', MEMTEST) = Unmapped /\ Given' = Given \ {MEMTEST}
     /\ \A q \in Nat : q # MEMTEST /\ q < FANOUT * FANOUT * FANOUT * FANOUT =>
          Walk(mem', q) = Walk(mem, q)

Follows == IInv' /\ (status' = "up" /\ InReach(mem') => status = "up" /\ Moves)

(* A call that ends in one state.                                          *)
LEMMA EndsIs ==
  ASSUME NEW n, Become({n})
  PROVE  Ends(n)
BY DEF Become, Ends

(* A page given.                                                           *)
LEMMA GiveKeeps ==
  ASSUME IInv, status = "up", NEW n, NEW page, NEW user, Gives(Now, n, Given, page, user),
         Ends(n), Given' = Given \cup {page}, Progress(boot, heap_end)',
         \/ page \notin Given /\ (boot > StackMapped) = (boot' > StackMapped)
         \/ page = USER_STACK /\ page \in Given /\ ~(boot > StackMapped) /\ boot' > StackMapped,
         Spent(n, boot', testing'), testing' # 0 => Borrowed(n, testing')
  PROVE  /\ IInv'
         /\ status' = "up" /\ InReach(mem') => Gets(Now, Now', Given, {page}, user)
<1> DEFINE G == Given \cup {page}
<1>1. KInv(n, G) /\ KInv(Now, Given)
  BY DEF Gives, IInv
<1>2. /\ mem' = n.mem /\ used' = n.used /\ tlb' = n.tlb /\ heap_end' = n.heap_end
      /\ status' = n.status /\ frames' = frames
  BY DEF Ends
<1>3. Given' = G
  OBVIOUS
<1>4. Now.status = "up"
  BY NowIs
<1> HIDE DEF G
<1>5. /\ KInv(Now, Given)'
      /\ \A X : Accounts(n, G, X) => Accounts(Now', Given', X)
      /\ \A t : Borrowed(n, t) => Borrowed(Now', t)
      /\ \A b, t : Spent(n, b, t) => Spent(Now', b, t)
  BY <1>1, <1>2, <1>3, BecomeKeeps
<1>6. n.status = "up" /\ InReach(n.mem) => Gets(Now, n, Given, {page}, user) /\ Keeps(Now, n, Given, page)
  BY <1>1, <1>4, GivesGets, Zenon
<1>7. \E x : Accounts(n, G, {y \in {x} : boot' > StackMapped})
  <2>1. PICK z : Accounts(Now, Given, {y \in {z} : boot > StackMapped})
    BY DEF IInv, Lost
  <2> DEFINE x == IF boot' > StackMapped /\ ~(boot > StackMapped) THEN Walk(mem, page).frame ELSE z
             X == {y \in {x} : boot' > StackMapped}
  <2>2. ASSUME n.status = "up", InReach(n.mem)
        PROVE  (\A p \in G : Serves(n.mem, p)) /\ Loose(n, G) = X
    <3>1. Gets(Now, n, Given, {page}, user) /\ Loose(n, G) = Loose(Now, Given) \cup Was(Now, Given, page)
      BY <1>6, <2>2 DEF Keeps, G
    <3>2. /\ InReach(Now.mem) /\ Serves(n.mem, page)
          /\ \A q \in Reach \ {page} : Serves(n.mem, q) = Serves(Now.mem, q)
      BY <3>1 DEF Gets
    <3>3. (\A p \in Given : Serves(Now.mem, p)) /\ Loose(Now, Given) = {y \in {z} : boot > StackMapped}
      BY <1>4, <2>1, <3>2 DEF Accounts
    <3>4. Given \subseteq Reach
      BY <1>1 DEF KInv, Movable
    <3>5. \A p \in G : Serves(n.mem, p)
      BY <3>2, <3>3, <3>4 DEF G
    <3>6. CASE page \notin Given /\ (boot > StackMapped) = (boot' > StackMapped)
      <4>1. Was(Now, Given, page) = {}
        BY <3>6 DEF Was
      <4>2. X = {y \in {z} : boot > StackMapped}
        BY <3>6
      <4> HIDE DEF X
      <4>3. QED
        BY <3>1, <3>3, <3>5, <4>1, <4>2
    <3>7. CASE page \in Given /\ ~(boot > StackMapped) /\ boot' > StackMapped
      <4>1. Was(Now, Given, page) = {Walk(mem, page).frame}
        BY <3>3, <3>7, NowIs DEF Was
      <4>2. X = {Walk(mem, page).frame} /\ Loose(Now, Given) = {}
        BY <3>3, <3>7
      <4> HIDE DEF X
      <4>3. QED
        BY <3>1, <3>5, <4>1, <4>2
    <3>8. QED
      BY <3>6, <3>7
  <2> HIDE DEF x
  <2>3. Accounts(n, G, X)
    BY <2>2 DEF Accounts
  <2>4. QED
    BY <2>3
<1>8. Lost(Now, Given, boot)'
  BY <1>5, <1>7 DEF Lost
<1>9. IInv'
  BY <1>5, <1>8 DEF IInv
<1>10. status' = "up" /\ InReach(mem') => Gets(Now, Now', Given, {page}, user)
  <2>1. Now'.mem = mem'
    BY DEF Now
  <2>2. Gets(Now, n, Given, {page}, user) => Gets(Now, Now', Given, {page}, user)
    BY <1>2, <2>1 DEF Gets
  <2>3. QED
    BY <1>2, <1>6, <2>2
<1>11. QED
  BY <1>9, <1>10
(* The heap grown.                                                         *)
LEMMA GrowKeeps ==
  ASSUME IInv, Running, NEW n, Grows(Now, n, Given), Ends(n), n.heap_end <= HeapLimit,
         testing' = testing,
         (boot > 0 /\ boot' = boot) \/ (boot = 0 /\ boot' = 1)
  PROVE  Follows
<1> DEFINE N == NewPages(Now, n)
           G == Given \cup N
<1>1. KInv(n, G) /\ KInv(Now, Given) /\ Progress(boot, heap_end)
  BY DEF Grows, IInv
<1>2. /\ mem' = n.mem /\ used' = n.used /\ tlb' = n.tlb /\ heap_end' = n.heap_end
      /\ status' = n.status /\ frames' = frames
  BY DEF Ends
<1>3. heap_end' <= HEAP_MAX /\ (boot < Booted => heap_end' <= HEAP_START + BOOT_HEAP) /\ heap_end' \in Nat
  BY <1>2, HeapPlaces DEF HeapLimit, Grows
<1>4. /\ heap_end \in Nat /\ heap_end' \in Nat /\ heap_end <= heap_end' /\ heap_end' <= HEAP_MAX
      /\ HEAP_START <= heap_end /\ N = heap_end..(heap_end' - 1) /\ Now.heap_end = heap_end
      /\ boot \in Nat /\ boot \in 0..Booted
  BY <1>1, <1>2, <1>3, NowIs, HeapPlaces DEF Grows, Progress, NewPages
<1>5. testing = 0 /\ testing' = 0 /\ status = "up"
  BY DEF Running
<1>6. Given' = G
  <2>1. HEAP_START..(heap_end' - 1) = HEAP_START..(heap_end - 1) \cup N
    BY <1>4, HeapPlaces
  <2>2. (boot' >= 2) = (boot >= 2) /\ (boot' >= StackMapped) = (boot >= StackMapped)
    BY <1>4 DEF StackMapped
  <2>3. USER_STACK..(USER_STACK + boot' - StackMapped - 1) = USER_STACK..(USER_STACK + boot - StackMapped - 1)
    <3>1. CASE boot' = boot
      BY <3>1
    <3>2. CASE boot = 0 /\ boot' = 1
      BY <3>2, HeapPlaces DEF StackMapped
    <3>3. QED
      BY <3>1, <3>2
  <2>4. Asked(boot', heap_end', 0) = Asked(boot, heap_end, 0) \cup N
    BY <2>1, <2>2, <2>3 DEF Asked
  <2>5. QED
    BY <1>5, <2>4 DEF Given
<1> HIDE DEF G, N
<1>7. /\ KInv(Now, Given)'
      /\ \A X : Accounts(n, G, X) => Accounts(Now', Given', X)
      /\ \A b, t : Spent(n, b, t) => Spent(Now', b, t)
  BY <1>1, <1>2, <1>6, BecomeKeeps
<1>8. n.status = "up" /\ InReach(n.mem) => Gets(Now, n, Given, N, FALSE) /\ Loose(n, G) = Loose(Now, Given)
  BY DEF Grows, G, N
<1>9. \E x : Accounts(n, G, {y \in {x} : boot' > StackMapped})
  <2>1. PICK z : Accounts(Now, Given, {y \in {z} : boot > StackMapped})
    BY <1>1 DEF IInv, Lost
  <2> DEFINE X == {y \in {z} : boot > StackMapped}
  <2>2. ASSUME n.status = "up", InReach(n.mem)
        PROVE  (\A p \in G : Serves(n.mem, p)) /\ Loose(n, G) = X
    <3>1. Gets(Now, n, Given, N, FALSE) /\ Loose(n, G) = Loose(Now, Given)
      BY <1>8, <2>2
    <3>2. /\ InReach(Now.mem) /\ \A p \in N : Serves(n.mem, p)
          /\ \A q \in Reach \ N : Serves(n.mem, q) = Serves(Now.mem, q)
      BY <3>1 DEF Gets
    <3>3. (\A p \in Given : Serves(Now.mem, p)) /\ Loose(Now, Given) = X
      BY <1>5, <2>1, <3>2, NowIs DEF Accounts
    <3>4. Given \subseteq Reach
      BY <1>1 DEF KInv, Movable
    <3>5. \A p \in G : Serves(n.mem, p)
      BY <3>2, <3>3, <3>4 DEF G
    <3> HIDE DEF X
    <3>6. QED
      BY <3>1, <3>3, <3>5
  <2>3. X = {y \in {z} : boot' > StackMapped}
    BY <1>4 DEF StackMapped
  <2> HIDE DEF X
  <2>4. Accounts(n, G, X)
    BY <2>2 DEF Accounts
  <2>5. QED
    BY <2>3, <2>4
<1>10. Lost(Now, Given, boot)'
  BY <1>7, <1>9 DEF Lost
<1>11. Progress(boot, heap_end)'
  BY <1>4, <1>3, HeapPlaces DEF Progress, Booted, StackMapped
<1>12. Spent(n, boot', testing')
  <2> DEFINE c == 2 * (n.heap_end - heap_end)
             x == IF boot = 0 THEN 0 ELSE boot - 1
  <2>1. Cardinality(n.used) <= Cardinality(used) + c
    BY NowIs DEF Grows, Adds
  <2>2. Cardinality(used) <= 2 * (heap_end - HEAP_START) + 2 * x + 0
    BY <1>5, NowIs DEF IInv, Spent
  <2>3. (IF boot' = 0 THEN 0 ELSE boot' - 1) = x /\ x \in Nat
    BY <1>4
  <2>4. Cardinality(n.used) \in Nat /\ Cardinality(used) \in Nat
    BY <1>1, NowIs, UsedFinite DEF KInv
  <2> DEFINE e == n.heap_end
             V == Cardinality(n.used)
             U == Cardinality(used)
  <2>5. e \in Nat /\ heap_end \in Nat /\ HEAP_START \in Nat /\ x \in Nat
    BY <1>2, <1>4, <2>3, HeapPlaces
  <2> HIDE DEF x, e, V, U
  <2>6. V <= 2 * (e - HEAP_START) + 2 * x + 0
    <3>1. V <= U + 2 * (e - heap_end)
      BY <2>1 DEF V, U, e
    <3>2. U <= 2 * (heap_end - HEAP_START) + 2 * x
      BY <2>2, <2>4, <2>5 DEF U
    <3>3. V \in Nat /\ U \in Nat
      BY <2>4 DEF V, U
    <3>4. QED
      BY <2>5, <3>1, <3>2, <3>3
  <2>7. QED
    BY <1>5, <2>3, <2>6 DEF Spent, V, e
<1>13. IInv'
  BY <1>5, <1>7, <1>10, <1>11, <1>12 DEF IInv
<1>14. status' = "up" /\ InReach(mem') => Gets(Now, Now', Given, N, FALSE)
  <2>1. Now'.mem = mem'
    BY DEF Now
  <2>2. Gets(Now, n, Given, N, FALSE) => Gets(Now, Now', Given, N, FALSE)
    BY <1>2, <2>1 DEF Gets
  <2>3. QED
    BY <1>2, <1>8, <2>2
<1>15. QED
  BY <1>4, <1>5, <1>6, <1>13, <1>14 DEF Follows, Moves, G

(* heap_init and kmalloc.                                                  *)
LEMMA HeadedIs ==
  ASSUME NEW k, NEW m \in 1..2, k.heap_end \in Nat
  PROVE  UNION Then({Extension(k, m)}, LAMBDA l :
           IF l.heap_end = k.heap_end + m THEN Fill({l}, k.heap_end) ELSE {l}) = {Headed(k, m)}
BY DEF Then, Fill, Headed

(* heap_init keeps the invariant.                                          *)
LEMMA HeapInitKeeps ==
  ASSUME IInv, HeapInit
  PROVE  Follows
<1> DEFINE m == Mapping(Now, HEAP_START, FALSE)
           n == Headed(Now, 1)
<1>1. /\ Running /\ boot = 0 /\ boot' = 1 /\ testing' = testing
      /\ Become(Fill({[k EXCEPT !.heap_end = HEAP_START + 1] : k \in MapNew(Now, HEAP_START, FALSE)}, HEAP_START))
  BY DEF HeapInit
<1>2. heap_end = HEAP_START /\ KInv(Now, Given) /\ Now.heap_end = HEAP_START /\ Now.status = "up" /\ testing = 0
  BY <1>1, NowIs DEF IInv, Progress, Running
<1>3. Free(Now) # {}
  BY <1>1, HeapPlaces, Lasts DEF Booted, StackMapped
<1>4. HEAP_START \in Movable /\ HEAP_START \in Nat /\ HEAP_START + 1 <= HEAP_MAX
      /\ HEAP_START \in HEAP_START..HEAP_MAX
  BY HeapPlaces
<1>5. m.heap_end = HEAP_START
  BY <1>2, <1>3, <1>4, MapKeeps
<1>6. [m EXCEPT !.heap_end = HEAP_START + 1] = Extended(Now)
  BY <1>2, <1>3, <1>5 DEF Extended
<1>7. MapNew(Now, HEAP_START, FALSE) = {m}
  BY MapNewIs
<1> HIDE DEF m
<1>8. Extended(Now).heap_end = HEAP_START + 1
  <2>1. Fields(m)
    BY <1>2, <1>3, <1>4, MapKeeps DEF KInv, m
  <2>2. QED
    BY <1>6, <2>1, Excepts
<1>9. Fill({[k EXCEPT !.heap_end = HEAP_START + 1] : k \in MapNew(Now, HEAP_START, FALSE)}, HEAP_START) = {n}
  <2>1. {[k EXCEPT !.heap_end = HEAP_START + 1] : k \in {m}} = {[m EXCEPT !.heap_end = HEAP_START + 1]}
    OBVIOUS
  <2>2. Fill({Extended(Now)}, HEAP_START) = {Store(Extended(Now), HEAP_START, 0, Junk)}
    BY DEF Fill, Then
  <2>3. n = Store(Extended(Now), HEAP_START, 0, Junk)
    BY <1>2, <1>8 DEF Headed, Extension
  <2> HIDE DEF n
  <2>4. QED
    BY <1>6, <1>7, <2>1, <2>2, <2>3
<1>10. \A p \in Given : p < Now.heap_end
  <2>1. Given = {}
    BY <1>1, <1>2, HeapPlaces DEF Given, Asked, StackMapped
  <2>2. QED
    BY <2>1
<1>11. Grows(Now, n, Given) /\ n.heap_end <= HEAP_START + 1
  BY <1>2, <1>4, <1>10, ExtensionGrows
<1> HIDE DEF n
<1>12. n.heap_end <= HeapLimit
  BY <1>1, <1>4, <1>11, HeapPlaces DEF Grows, HeapLimit
<1>13. Ends(n)
  BY <1>1, <1>9, EndsIs
<1>14. QED
  BY <1>1, <1>11, <1>12, <1>13, GrowKeeps
(* The states in which kmalloc has got m pages more, or as many as it can. *)
GrownOf(f, m) ==
  f = [i \in 0..m |-> IF i = 0 THEN {Now} ELSE UNION Then(f[i - 1], Extend)]

(* They are what the extension by one and by two pages gives.              *)
LEMMA GrownIs ==
  ASSUME NEW m \in 1..2
  PROVE  (CHOOSE f : GrownOf(f, m))[m] = {Extension(Now, m)}
<1> DEFINE A == {Extended(Now)}
           B == {Extended(Extended(Now))}
           S(i) == IF i = 0 THEN {Now} ELSE IF i = 1 THEN A ELSE B
           f == [i \in 0..m |-> S(i)]
           g == CHOOSE h : GrownOf(h, m)
<1>1. \A k : UNION Then({k}, Extend) = {Extended(k)}
  <2> TAKE k
  <2>1. Then({k}, Extend) = {Extend(k)}
    BY DEF Then
  <2>2. QED
    BY <2>1, ExtendIs
<1>2. UNION Then({Now}, Extend) = A /\ UNION Then(A, Extend) = B
  BY <1>1
<1> HIDE DEF A, B
<1>3. \A i \in 0..m : i = 0 \/ i = 1 \/ i = 2
  OBVIOUS
<1>4. GrownOf(f, m)
  <2>1. ASSUME NEW i \in 0..m
        PROVE  f[i] = IF i = 0 THEN {Now} ELSE UNION Then(f[i - 1], Extend)
    <3>1. CASE i = 0
      <4>1. f[i] = {Now}
        BY <2>1, <3>1
      <4> HIDE DEF f
      <4>2. QED
        BY <3>1, <4>1
    <3>2. CASE i = 1
      <4>1. f[i - 1] = {Now} /\ f[i] = A
        BY <2>1, <3>2
      <4> HIDE DEF f
      <4>2. UNION Then(f[i - 1], Extend) = A
        BY <1>2, <4>1
      <4>3. i # 0
        BY <3>2
      <4>4. QED
        BY <4>1, <4>2, <4>3
    <3>3. CASE i = 2
      <4>1. f[i - 1] = A /\ f[i] = B
        BY <2>1, <3>3
      <4> HIDE DEF f
      <4>2. QED
        BY <1>2, <3>3, <4>1
    <3>4. QED
      BY <1>3, <3>1, <3>2, <3>3
  <2>2. f = [i \in 0..m |-> IF i = 0 THEN {Now} ELSE UNION Then(f[i - 1], Extend)]
    <3>1. f = [i \in 0..m |-> f[i]]
      OBVIOUS
    <3> HIDE DEF f
    <3>2. QED
      BY <2>1, <3>1
  <2>3. QED
    BY <2>2 DEF GrownOf
<1> HIDE DEF f
<1>5. GrownOf(g, m)
  BY <1>4, Zenon
<1> HIDE DEF g
<1>6. \A i \in 0..m : g[i] = IF i = 0 THEN {Now} ELSE UNION Then(g[i - 1], Extend)
  BY <1>5 DEF GrownOf
<1>7. g[0] = {Now}
  <2>1. 0 \in 0..m
    OBVIOUS
  <2>2. QED
    BY <1>6, <2>1
<1>8. g[1] = A
  <2>1. 1 \in 0..m /\ 1 - 1 = 0 /\ 1 # 0
    OBVIOUS
  <2>2. QED
    BY <1>2, <1>6, <1>7, <2>1
<1>9. m = 2 => g[2] = B
  <2> SUFFICES ASSUME m = 2 PROVE g[2] = B
    OBVIOUS
  <2>1. 2 \in 0..m /\ 2 - 1 = 1 /\ 2 # 0
    OBVIOUS
  <2>2. QED
    BY <1>2, <1>6, <1>8, <2>1
<1>10. m = 1 \/ m = 2
  OBVIOUS
<1>11. QED
  BY <1>8, <1>9, <1>10 DEF Extension, A, B, g

(* kmalloc keeps the invariant.                                            *)
LEMMA KmallocKeeps ==
  ASSUME IInv, NEW m \in 1..2, KmallocExtend(m)
  PROVE  Follows
<1> DEFINE g == CHOOSE f : GrownOf(f, m)
           Header(l) == IF l.heap_end = heap_end + m THEN Fill({l}, heap_end) ELSE {l}
           n == Headed(Now, m)
<1>1. /\ Running /\ boot > 0 /\ heap_end + m <= HeapLimit
      /\ Become(UNION Then(g[m], Header)) /\ boot' = boot /\ testing' = testing
  BY DEF KmallocExtend, GrownOf
<1>2. g[m] = {Extension(Now, m)}
  BY GrownIs
<1> HIDE DEF g
<1>3. /\ KInv(Now, Given) /\ Now.heap_end = heap_end /\ heap_end \in HEAP_START..HEAP_MAX
      /\ heap_end \in Nat /\ boot \in Nat /\ boot \in 0..Booted /\ testing = 0 /\ testing' = 0
  <2>1. KInv(Now, Given) /\ boot \in 0..Booted /\ heap_end \in HEAP_START..HEAP_MAX
    BY DEF IInv, Progress
  <2>2. heap_end \in Nat /\ boot \in Nat
    BY <2>1, HeapPlaces DEF Booted, StackMapped
  <2>3. testing = 0 /\ testing' = 0
    BY <1>1 DEF Running
  <2>4. QED
    BY <2>1, <2>2, <2>3, NowIs
<1>4. heap_end + m <= HEAP_MAX
  <2>1. HeapLimit <= HEAP_MAX /\ HeapLimit \in Nat
    BY HeapPlaces DEF HeapLimit
  <2>2. heap_end + m \in Int /\ HEAP_MAX \in Int /\ HeapLimit \in Int /\ heap_end + m <= HeapLimit
    <3>1. heap_end + m <= HeapLimit
      BY <1>1, Zenon
    <3>2. QED
      BY <1>3, <2>1, <3>1, HeapPlaces
  <2>3. QED
    BY <2>1, <2>2
<1>5. Become({n})
  <2>1. UNION Then({Extension(Now, m)}, LAMBDA l :
           IF l.heap_end = Now.heap_end + m THEN Fill({l}, Now.heap_end) ELSE {l}) = {n}
    BY <1>3, HeadedIs
  <2> HIDE DEF n
  <2> DEFINE x == Extension(Now, m)
             D(l) == IF l.heap_end = Now.heap_end + m THEN Fill({l}, Now.heap_end) ELSE {l}
  <2>2. UNION Then({x}, D) = D(x) /\ UNION Then({x}, Header) = Header(x)
    <3> HIDE DEF x, D, Header
    <3>1. QED
      BY DEF Then
  <2>3. D(x) = Header(x)
    BY <1>3
  <2>4. UNION Then({x}, Header) = {n}
    BY <2>1, <2>2, <2>3
  <2>5. QED
    BY <1>1, <1>2, <2>4
<1>6. \A p \in Given : p < heap_end
  <2>1. USER_STACK + boot - StackMapped - 1 < heap_end
    BY <1>3, HeapPlaces DEF Booted, StackMapped
  <2>2. USER_STACK < heap_end /\ MEMTEST < heap_end /\ USER_CODE < heap_end
    BY <1>3, HeapPlaces, Places
  <2>3. \A p \in HEAP_START..(heap_end - 1) : p < heap_end
    BY <1>3, HeapPlaces
  <2>4. \A p \in USER_STACK..(USER_STACK + boot - StackMapped - 1) : p < heap_end
    BY <1>3, <2>1, HeapPlaces DEF StackMapped
  <2>5. QED
    BY <2>2, <2>3, <2>4 DEF Given, Asked
<1>7. Grows(Now, n, Given) /\ n.heap_end <= heap_end + m
  BY <1>3, <1>4, <1>6, ExtensionGrows
<1> HIDE DEF n
<1>8. n.heap_end <= HeapLimit
  <2>1. heap_end + m <= HeapLimit
    BY <1>1
  <2>2. HeapLimit \in Nat
    BY HeapPlaces DEF HeapLimit
  <2>3. QED
    BY <1>3, <1>7, <2>1, <2>2 DEF Grows
<1>9. Ends(n)
  BY <1>5, EndsIs
<1>10. (boot > 0 /\ boot' = boot) \/ (boot = 0 /\ boot' = 1)
  BY <1>1
<1>11. QED
  BY <1>1, <1>7, <1>8, <1>9, <1>10, GrowKeeps, Zenon
(* The pages of the user program.                                          *)
LEMMA MappingGives ==
  ASSUME NEW k, NEW D, KInv(k, D), k.status = "up", Free(k) # {},
         NEW page \in Movable, NEW user \in BOOLEAN
  PROVE  Gives(k, Mapping(k, page, user), D, page, user) /\ Mapping(k, page, user).heap_end = k.heap_end
BY MapKeeps, MapUses DEF Gives

(* The frames that a step hands out.                                       *)
LEMMA SpendsKeeps ==
  ASSUME IInv, NEW n, Sizes(n), n.heap_end = heap_end,
         \/ Adds(Now, n, 2) /\ boot > 0 /\ boot' = boot + 1 /\ testing = 0 /\ testing' = 0
         \/ Adds(Now, n, 1) /\ boot' = boot /\ testing = 0 /\ testing' # 0
         \/ Adds(Now, n, -1) /\ boot' = boot /\ testing # 0 /\ testing' = 0
  PROVE  Spent(n, boot', testing')
<1> DEFINE V == Cardinality(n.used)
           U == Cardinality(used)
           h == heap_end - HEAP_START
           x == IF boot = 0 THEN 0 ELSE boot - 1
           y == IF boot' = 0 THEN 0 ELSE boot' - 1
<1>1. KInv(Now, Given) /\ Progress(boot, heap_end) /\ Spent(Now, boot, testing)
  BY DEF IInv
<1>2. Sizes(Now) /\ Now.used = used /\ Now.heap_end = heap_end
  BY <1>1, NowIs DEF KInv
<1>3. U \in Nat /\ V \in Nat
  BY <1>2, UsedFinite
<1>4. h \in Int /\ boot \in Nat
  BY <1>1, HeapPlaces DEF Progress, Booted, StackMapped
<1>5. U <= 2 * h + 2 * x + (IF testing = 0 THEN 0 ELSE 1)
  BY <1>1, <1>2 DEF Spent
<1>6. /\ Adds(Now, n, 2) => V <= U + 2
      /\ Adds(Now, n, 1) => V <= U + 1
      /\ Adds(Now, n, -1) => V <= U - 1
  BY <1>2, <1>3 DEF Adds
<1>7. /\ x \in Nat
      /\ boot > 0 /\ boot' = boot + 1 => y = x + 1
      /\ boot' = boot => y = x
  BY <1>4
<1> HIDE DEF U, V, h, x, y
<1>8. V <= 2 * h + 2 * y + (IF testing' = 0 THEN 0 ELSE 1)
  <2>1. CASE Adds(Now, n, 2) /\ boot > 0 /\ boot' = boot + 1 /\ testing = 0 /\ testing' = 0
    BY <1>3, <1>4, <1>5, <1>6, <1>7, <2>1
  <2>2. CASE Adds(Now, n, 1) /\ boot' = boot /\ testing = 0 /\ testing' # 0
    BY <1>3, <1>4, <1>5, <1>6, <1>7, <2>2
  <2>3. CASE Adds(Now, n, -1) /\ boot' = boot /\ testing # 0 /\ testing' = 0
    BY <1>3, <1>4, <1>5, <1>6, <1>7, <2>3
  <2>4. QED
    BY <2>1, <2>2, <2>3
<1>9. QED
  BY <1>8 DEF Spent, V, h, y

(* So does mapping the page of the program.                                *)
LEMMA UserCodeKeeps ==
  ASSUME IInv, MapUserCode
  PROVE  Follows
<1> DEFINE m == Mapping(Now, USER_CODE, TRUE)
           n == Store(m, USER_CODE, 0, Junk)
<1>1. /\ Running /\ boot = 1 /\ boot' = 2 /\ testing' = testing
      /\ Become(Fill(MapNew(Now, USER_CODE, TRUE), USER_CODE))
  BY DEF MapUserCode
<1>2. KInv(Now, Given) /\ Now.status = "up" /\ status = "up" /\ Progress(boot, heap_end) /\ testing = 0 /\ testing' = 0
  BY <1>1, NowIs DEF IInv, Running
<1>3. Free(Now) # {} /\ USER_CODE \in Movable /\ TRUE \in BOOLEAN
  BY <1>1, HeapPlaces, Lasts DEF Booted, StackMapped
<1>4. Gives(Now, m, Given, USER_CODE, TRUE) /\ m.heap_end = heap_end
  <2>1. Gives(Now, m, Given, USER_CODE, TRUE) /\ m.heap_end = Now.heap_end
    BY <1>2, <1>3, MappingGives, Zenon
  <2>2. QED
    BY <2>1, NowIs
<1>5. Fill(MapNew(Now, USER_CODE, TRUE), USER_CODE) = {n}
  <2>1. MapNew(Now, USER_CODE, TRUE) = {m}
    BY MapNewIs
  <2> HIDE DEF m
  <2>2. QED
    BY <2>1 DEF Fill, Then
<1> HIDE DEF m
<1>6. Gives(Now, n, Given, USER_CODE, TRUE) /\ n.heap_end = heap_end
  <2>1. Gives(Now, n, Given, USER_CODE, TRUE) /\ Others(m, n)
    BY <1>4, GivesFilled, Zenon
  <2> HIDE DEF n
  <2>2. QED
    BY <1>4, <2>1 DEF Others
<1> HIDE DEF n
<1>7. Ends(n)
  BY <1>1, <1>5, EndsIs
<1>8. heap_end' = heap_end
  BY <1>6, <1>7 DEF Ends
<1>9. /\ USER_CODE \notin Given /\ Given' = Given \cup {USER_CODE}
      /\ Progress(boot, heap_end)'
  <2>1. USER_STACK..(USER_STACK + 1 - StackMapped - 1) = {} /\ USER_STACK..(USER_STACK + 2 - StackMapped - 1) = {}
        /\ ~(1 >= StackMapped) /\ ~(2 >= StackMapped) /\ ~(1 >= 2) /\ 2 >= 2
    BY HeapPlaces DEF StackMapped
  <2>2. Given = HEAP_START..(heap_end - 1)
    BY <1>1, <1>2, <2>1 DEF Given, Asked
  <2>3. Given' = HEAP_START..(heap_end - 1) \cup {USER_CODE}
    BY <1>1, <1>2, <1>8, <2>1 DEF Given, Asked
  <2>4. USER_CODE \notin HEAP_START..(heap_end - 1)
    BY HeapPlaces, Places
  <2>5. Progress(boot, heap_end)'
    BY <1>1, <1>2, <1>8, HeapPlaces DEF Progress, Booted, StackMapped
  <2>6. QED
    BY <2>2, <2>3, <2>4, <2>5
<1>10. (boot > StackMapped) = (boot' > StackMapped)
  BY <1>1 DEF StackMapped
<1>11. Spent(n, boot', testing')
  <2>1. boot > 0 /\ boot' = boot + 1 /\ testing = 0 /\ testing' = 0
    BY <1>1, <1>2
  <2>2. Sizes(n) /\ Adds(Now, n, 2)
    BY <1>6 DEF Gives, KInv
  <2>3. QED
    BY <1>6, <2>1, <2>2, SpendsKeeps
<1>12. IInv' /\ (status' = "up" /\ InReach(mem') => Gets(Now, Now', Given, {USER_CODE}, TRUE))
  BY <1>2, <1>6, <1>7, <1>9, <1>10, <1>11, GiveKeeps
<1>13. USER_CODE \in UserPages
  BY DEF UserPages
<1>14. QED
  BY <1>2, <1>9, <1>12, <1>13 DEF Follows, Moves

(* So does the first page of its stack.                                    *)
LEMMA UserStackKeeps ==
  ASSUME IInv, MapUserStack
  PROVE  Follows
<1> DEFINE n == Mapping(Now, USER_STACK, TRUE)
<1>1. /\ Running /\ boot = 2 /\ boot' = 3 /\ testing' = testing
      /\ Become(MapNew(Now, USER_STACK, TRUE))
  BY DEF MapUserStack, StackMapped
<1>2. KInv(Now, Given) /\ Now.status = "up" /\ status = "up" /\ Progress(boot, heap_end) /\ testing = 0 /\ testing' = 0
  BY <1>1, NowIs DEF IInv, Running
<1>3. Free(Now) # {} /\ USER_STACK \in Movable /\ TRUE \in BOOLEAN
  BY <1>1, HeapPlaces, Lasts DEF Booted, StackMapped
<1>4. Gives(Now, n, Given, USER_STACK, TRUE) /\ n.heap_end = heap_end
  <2>1. Gives(Now, n, Given, USER_STACK, TRUE) /\ n.heap_end = Now.heap_end
    BY <1>2, <1>3, MappingGives, Zenon
  <2>2. QED
    BY <2>1, NowIs
<1>5. MapNew(Now, USER_STACK, TRUE) = {n}
  BY MapNewIs
<1> HIDE DEF n
<1>6. Ends(n)
  BY <1>1, <1>5, EndsIs
<1>7. heap_end' = heap_end
  BY <1>4, <1>6 DEF Ends
<1>8. /\ USER_STACK \notin Given /\ Given' = Given \cup {USER_STACK}
      /\ Progress(boot, heap_end)'
  <2>1. USER_STACK..(USER_STACK + 2 - StackMapped - 1) = {} /\ USER_STACK..(USER_STACK + 3 - StackMapped - 1) = {}
        /\ ~(2 >= StackMapped) /\ 3 >= StackMapped /\ 2 >= 2 /\ 3 >= 2
    BY HeapPlaces DEF StackMapped
  <2>2. Given = HEAP_START..(heap_end - 1) \cup {USER_CODE}
    BY <1>1, <1>2, <2>1 DEF Given, Asked
  <2>3. Given' = HEAP_START..(heap_end - 1) \cup {USER_CODE} \cup {USER_STACK}
    BY <1>1, <1>2, <1>7, <2>1 DEF Given, Asked
  <2>4. USER_STACK \notin HEAP_START..(heap_end - 1) /\ USER_STACK # USER_CODE
    BY HeapPlaces, Places
  <2>5. Progress(boot, heap_end)'
    BY <1>1, <1>2, <1>7, HeapPlaces DEF Progress, Booted, StackMapped
  <2>6. QED
    BY <2>2, <2>3, <2>4, <2>5
<1>9. (boot > StackMapped) = (boot' > StackMapped)
  BY <1>1 DEF StackMapped
<1>10. Spent(n, boot', testing')
  <2>1. boot > 0 /\ boot' = boot + 1 /\ testing = 0 /\ testing' = 0
    BY <1>1, <1>2
  <2>2. Sizes(n) /\ Adds(Now, n, 2)
    BY <1>4 DEF Gives, KInv
  <2>3. QED
    BY <1>4, <2>1, <2>2, SpendsKeeps
<1>11. IInv' /\ (status' = "up" /\ InReach(mem') => Gets(Now, Now', Given, {USER_STACK}, TRUE))
  BY <1>2, <1>4, <1>6, <1>8, <1>9, <1>10, GiveKeeps
<1>12. USER_STACK \in UserPages
  BY HeapPlaces DEF UserPages
<1>13. QED
  BY <1>2, <1>8, <1>11, <1>12 DEF Follows, Moves

(* So does each page of the stack; the first one loses its frame.          *)
LEMMA StackPageKeeps ==
  ASSUME IInv, MapStackPage
  PROVE  Follows
<1> DEFINE page == USER_STACK + boot - StackMapped
           n == Mapping(Now, page, TRUE)
<1>1. /\ Running /\ boot \in StackMapped..(Booted - 1) /\ boot' = boot + 1 /\ testing' = testing
      /\ Become(MapNew(Now, page, TRUE))
  BY DEF MapStackPage
<1>2. KInv(Now, Given) /\ Now.status = "up" /\ status = "up" /\ Progress(boot, heap_end) /\ testing = 0 /\ testing' = 0
  BY <1>1, NowIs DEF IInv, Running
<1>3. /\ boot \in Nat /\ boot >= 3 /\ boot < Booted /\ Booted = 3 + STACK_PAGES /\ StackMapped = 3
      /\ boot \in 3..(3 + STACK_PAGES - 1)
  BY <1>1, HeapPlaces DEF Booted, StackMapped
<1>4. Free(Now) # {} /\ TRUE \in BOOLEAN
  BY <1>3, Lasts
<1>5. page \in Nat /\ page \in USER_STACK..(USER_STACK + STACK_PAGES - 1) /\ page \in Movable
      /\ page >= USER_STACK /\ page < HEAP_START
  <2>1. page \in Nat /\ page \in USER_STACK..(USER_STACK + STACK_PAGES - 1) /\ page >= USER_STACK /\ page < HEAP_START
    BY <1>3, HeapPlaces
  <2>2. page \in USER_STACK..(HEAP_MAX - 1)
    BY <2>1, HeapPlaces
  <2>3. QED
    BY <2>1, <2>2, HeapPlaces
<1>6. Gives(Now, n, Given, page, TRUE) /\ n.heap_end = heap_end
  <2>1. Gives(Now, n, Given, page, TRUE) /\ n.heap_end = Now.heap_end
    BY <1>2, <1>4, <1>5, MappingGives, Zenon
  <2>2. QED
    BY <2>1, NowIs
<1>7. MapNew(Now, page, TRUE) = {n}
  BY MapNewIs
<1> HIDE DEF n
<1>8. Ends(n)
  BY <1>1, <1>7, EndsIs
<1>9. heap_end' = heap_end
  BY <1>6, <1>8 DEF Ends
<1>10. Given' = Given \cup {page} /\ Progress(boot, heap_end)'
  <2>1. USER_STACK..(USER_STACK + (boot + 1) - StackMapped - 1) = USER_STACK..(USER_STACK + boot - StackMapped - 1) \cup {page}
    BY <1>3, <1>5, HeapPlaces
  <2>2. boot >= 2 /\ boot + 1 >= 2 /\ boot >= StackMapped /\ boot + 1 >= StackMapped
    BY <1>3
  <2>3. Given' = Given \cup {page}
    BY <1>1, <1>2, <1>9, <2>1, <2>2 DEF Given, Asked
  <2>4. Progress(boot, heap_end)'
    BY <1>1, <1>2, <1>3, <1>9, HeapPlaces DEF Progress
  <2>5. QED
    BY <2>3, <2>4
<1>11. \/ page \notin Given /\ (boot > StackMapped) = (boot' > StackMapped)
       \/ page = USER_STACK /\ page \in Given /\ ~(boot > StackMapped) /\ boot' > StackMapped
  <2>1. CASE boot = 3
    <3>1. page = USER_STACK
      BY <1>3, <2>1, HeapPlaces
    <3>2. USER_STACK \in Given
      BY <1>3, <2>1 DEF Given, Asked
    <3>3. QED
      BY <1>1, <1>3, <2>1, <3>1, <3>2
  <2>2. CASE boot # 3
    <3>1. boot > StackMapped /\ boot' > StackMapped
      BY <1>1, <1>3, <2>2
    <3>2. page # USER_STACK /\ page # USER_CODE /\ page # MEMTEST /\ page \notin HEAP_START..(heap_end - 1)
      BY <1>3, <1>5, <2>2, HeapPlaces, Places
    <3>3. page \notin USER_STACK..(USER_STACK + boot - StackMapped - 1)
      BY <1>3, HeapPlaces
    <3>4. page \notin Given
      BY <3>2, <3>3 DEF Given, Asked
    <3>5. QED
      BY <3>1, <3>4
  <2>3. QED
    BY <2>1, <2>2
<1> HIDE DEF page
<1>12. Spent(n, boot', testing')
  <2>1. boot > 0 /\ boot' = boot + 1 /\ testing = 0 /\ testing' = 0
    BY <1>1, <1>2, <1>3
  <2>2. Sizes(n) /\ Adds(Now, n, 2)
    BY <1>6 DEF Gives, KInv
  <2>3. QED
    BY <1>6, <2>1, <2>2, SpendsKeeps
<1>13. IInv' /\ (status' = "up" /\ InReach(mem') => Gets(Now, Now', Given, {page}, TRUE))
  BY <1>2, <1>6, <1>8, <1>10, <1>11, <1>12, GiveKeeps
<1>14. page \in UserPages
  BY <1>5 DEF UserPages
<1>15. QED
  BY <1>2, <1>10, <1>13, <1>14 DEF Follows, Moves
(* memtest.                                                                *)
LEMMA MemtestBeginKeeps ==
  ASSUME IInv, MemtestBegin
  PROVE  Follows
<1> DEFINE m == Mapping(Now, MEMTEST, FALSE)
           n == Store(m, MEMTEST, 0, Junk)
<1>1. /\ Running /\ boot > 0 /\ boot' = boot /\ testing' = Fresh(Now) /\ Fresh(Now) # 0
      /\ Become(Fill(MapNew(Now, MEMTEST, FALSE), MEMTEST))
  BY DEF MemtestBegin
<1>2. KInv(Now, Given) /\ Now.status = "up" /\ status = "up" /\ Progress(boot, heap_end) /\ testing = 0 /\ testing' # 0
  BY <1>1, NowIs DEF IInv, Running
<1>3. Free(Now) # {}
  BY <1>1, <1>2, FreshIs DEF KInv
<1>4. /\ Gives(Now, n, Given, MEMTEST, FALSE) /\ n.heap_end = Now.heap_end
      /\ n.status = "up" /\ Borrowed(n, Fresh(Now)) /\ Adds(Now, n, 1)
  BY <1>2, <1>3, BorrowKeeps
<1>5. Fill(MapNew(Now, MEMTEST, FALSE), MEMTEST) = {n}
  <2>1. MapNew(Now, MEMTEST, FALSE) = {m}
    BY MapNewIs
  <2> HIDE DEF m
  <2>2. QED
    BY <2>1 DEF Fill, Then
<1> HIDE DEF m, n
<1>6. Ends(n)
  BY <1>1, <1>5, EndsIs
<1>7. heap_end' = heap_end
  BY <1>4, <1>6, NowIs DEF Ends
<1>8. /\ MEMTEST \notin Given /\ Given' = Given \cup {MEMTEST}
      /\ Progress(boot, heap_end)'
  <2>1. Given' = Given \cup {MEMTEST}
    BY <1>1, <1>2, <1>7 DEF Given, Asked
  <2>2. MEMTEST # USER_CODE /\ MEMTEST < USER_STACK /\ MEMTEST \in Nat
    BY HeapPlaces, Places
  <2>3. MEMTEST \notin HEAP_START..(heap_end - 1) /\ MEMTEST # USER_STACK
    BY <2>2, HeapPlaces
  <2>4. MEMTEST \notin USER_STACK..(USER_STACK + boot - StackMapped - 1)
    BY <2>2, HeapPlaces
  <2>5. MEMTEST \notin Given
    BY <1>2, <2>2, <2>3, <2>4 DEF Given, Asked
  <2>6. QED
    BY <1>1, <1>2, <1>7, <2>1, <2>5 DEF Progress
<1>9. (boot > StackMapped) = (boot' > StackMapped)
  BY <1>1
<1>10. Spent(n, boot', testing')
  <2>1. Sizes(n) /\ n.heap_end = heap_end
    BY <1>4, NowIs DEF Gives, KInv
  <2>2. QED
    BY <1>1, <1>2, <1>4, <2>1, SpendsKeeps
<1>11. IInv' /\ (status' = "up" /\ InReach(mem') => Gets(Now, Now', Given, {MEMTEST}, FALSE))
  BY <1>1, <1>2, <1>4, <1>6, <1>8, <1>9, <1>10, GiveKeeps
<1>12. QED
  BY <1>2, <1>8, <1>11 DEF Follows, Moves

(* The end of memtest keeps the invariant: its frame is free again.        *)
LEMMA MemtestEndKeeps ==
  ASSUME IInv, MemtestEnd
  PROVE  Follows
<1> DEFINE u == Unmapping(Now)
           n == Returned(Now, testing)
           G == Given \ {MEMTEST}
<1>1. /\ status = "up" /\ testing # 0 /\ boot' = boot /\ testing' = 0
      /\ Become({[k EXCEPT !.used = k.used \ {testing}] : k \in VmmUnmap({Now}, MEMTEST)})
  BY DEF MemtestEnd
<1>2. KInv(Now, Given) /\ Now.status = "up" /\ Progress(boot, heap_end) /\ Borrowed(Now, testing)
      /\ Lost(Now, Given, boot)
  BY <1>1, NowIs DEF IInv
<1>3. MEMTEST \in Given
  BY <1>1 DEF Given, Asked
<1>4. VmmUnmap({Now}, MEMTEST) = {u} /\ Returns(Now, n, Given)
  BY <1>2, <1>3, ReturnKeeps
<1>5. {[k EXCEPT !.used = k.used \ {testing}] : k \in {u}} = {n}
  BY DEF Returned
<1> HIDE DEF u, n
<1>6. Ends(n)
  BY <1>1, <1>4, <1>5, EndsIs
<1>7. /\ KInv(n, G) /\ n.status = "up" /\ n.heap_end = heap_end
      /\ InReach(n.mem) => InReach(mem)
      /\ Walk(n.mem, MEMTEST) = Unmapped
      /\ \A q \in Reach : q # MEMTEST => Serves(n.mem, q) = Serves(mem, q)
      /\ \A q \in Nat : q # MEMTEST /\ q < FANOUT * FANOUT * FANOUT * FANOUT =>
           Walk(n.mem, q) = Walk(mem, q)
      /\ Loose(n, G) = Loose(Now, Given) /\ Adds(Now, n, -1)
  BY <1>4, NowIs DEF Returns
<1>8. heap_end' = heap_end /\ mem' = n.mem /\ frames' = frames
  BY <1>6, <1>7 DEF Ends
<1>9. Given' = G /\ Progress(boot, heap_end)'
  <2>1. MEMTEST # USER_CODE /\ MEMTEST < USER_STACK /\ MEMTEST \in Nat
    BY HeapPlaces, Places
  <2>2. MEMTEST \notin HEAP_START..(heap_end - 1) /\ MEMTEST # USER_STACK
    BY <2>1, HeapPlaces
  <2>3. MEMTEST \notin USER_STACK..(USER_STACK + boot - StackMapped - 1)
    BY <2>1, HeapPlaces
  <2>4. QED
    BY <1>1, <1>2, <1>8, <2>1, <2>2, <2>3 DEF Given, Asked, Progress
<1> HIDE DEF G
<1>10. /\ KInv(Now, Given)'
       /\ \A X : Accounts(n, G, X) => Accounts(Now', Given', X)
       /\ \A b, t : Spent(n, b, t) => Spent(Now', b, t)
  BY <1>6, <1>7, <1>9, BecomeKeeps DEF Ends
<1>11. Lost(Now, Given, boot)'
  <2>1. PICK x : Accounts(Now, Given, {y \in {x} : boot > StackMapped})
    BY <1>2 DEF Lost
  <2> DEFINE X == {y \in {x} : boot > StackMapped}
  <2>2. X = {y \in {x} : boot' > StackMapped}
    BY <1>1
  <2>3. Accounts(Now, Given, X)
    BY <2>1
  <2> HIDE DEF X
  <2>4. ASSUME n.status = "up", InReach(n.mem)
        PROVE  (\A p \in G : Serves(n.mem, p)) /\ Loose(n, G) = X
    <3>1. (\A p \in Given : Serves(mem, p)) /\ Loose(Now, Given) = X
      BY <1>2, <1>7, <2>3, <2>4, NowIs DEF Accounts
    <3>2. \A p \in G : p \in Given /\ p \in Reach /\ p # MEMTEST
      BY <1>2 DEF KInv, Movable, G
    <3>3. QED
      BY <1>7, <3>1, <3>2
  <2>5. Accounts(n, G, X)
    BY <2>4 DEF Accounts
  <2>6. Accounts(Now', Given', {y \in {x} : boot' > StackMapped})
    BY <1>10, <2>2, <2>5
  <2>7. QED
    BY <2>6 DEF Lost
<1>12. Spent(n, boot', testing')
  <2>1. Sizes(n)
    BY <1>7 DEF KInv
  <2>2. QED
    BY <1>1, <1>7, <2>1, SpendsKeeps
<1>13. IInv'
  BY <1>1, <1>9, <1>10, <1>11, <1>12 DEF IInv
<1>14. InReach(mem') => Moves
  BY <1>7, <1>8, <1>9 DEF Moves, G
<1>15. QED
  BY <1>1, <1>13, <1>14 DEF Follows

(* The processor keeps a translation.                                      *)
LEMMA KeepKeeps ==
  ASSUME IInv, NEW page \in Cached, Keep(page)
  PROVE  IInv' /\ mem' = mem /\ status' = status /\ Given' = Given
<1>1. /\ Leads(Walk(mem, page))
      /\ tlb' = [p \in DOMAIN tlb \cup {page} |-> IF p = page THEN Walk(mem, page) ELSE tlb[p]]
      /\ frames' = frames /\ mem' = mem /\ used' = used /\ boot' = boot /\ heap_end' = heap_end
      /\ testing' = testing /\ status' = status
  BY DEF Keep
<1> DEFINE n == Now'
<1>2. /\ n.mem = mem /\ n.used = used /\ n.tlb = tlb' /\ n.heap_end = heap_end
      /\ n.status = status /\ Fields(n)
  BY <1>1 DEF Now, Fields
<1>3. KInv(Now, Given)
  BY DEF IInv
<1>4. Coherent(mem, tlb')
  <2>1. Coherent(mem, tlb)
    BY <1>3, NowIs DEF KInv
  <2>2. /\ DOMAIN tlb' = DOMAIN tlb \cup {page}
        /\ \A p \in DOMAIN tlb' : tlb'[p] = IF p = page THEN Walk(mem, page) ELSE tlb[p]
    BY <1>1
  <2>3. QED
    BY <1>1, <2>1, <2>2 DEF Coherent
<1>5. Given' = Given
  BY <1>1 DEF Given
<1>6. KInv(Now, Given)'
  <2>1. KInv(n, Given)
    BY <1>2, <1>3, <1>4, NowIs DEF KInv, Sizes, Free, Stopped
  <2>2. QED
    BY <1>1, <1>2, <1>5, <2>1 DEF KInv, Sizes, Free, Stopped
<1>7. Lost(Now, Given, boot)'
  BY <1>1, <1>2, <1>5, NowIs DEF IInv, Lost, Accounts, Loose
<1>8. testing' # 0 => Borrowed(Now, testing)'
  BY <1>1, <1>2, NowIs DEF IInv, Borrowed
<1>9. Spent(Now, boot, testing)'
  BY <1>1, <1>2, NowIs DEF IInv, Spent
<1>10. QED
  BY <1>1, <1>5, <1>6, <1>7, <1>8, <1>9 DEF IInv, Progress

(* Every step keeps the invariant.                                         *)
LEMMA NextKeeps ==
  ASSUME IInv, Next
  PROVE  IInv' /\ (Follows \/ (mem' = mem /\ status' = status /\ Given' = Given))
<1>1. CASE HeapInit
  BY <1>1, HeapInitKeeps DEF Follows
<1>2. CASE MapUserCode
  BY <1>2, UserCodeKeeps DEF Follows
<1>3. CASE MapUserStack
  BY <1>3, UserStackKeeps DEF Follows
<1>4. CASE MapStackPage
  BY <1>4, StackPageKeeps DEF Follows
<1>5. ASSUME NEW m \in 1..2, KmallocExtend(m)
      PROVE  IInv' /\ (Follows \/ (mem' = mem /\ status' = status /\ Given' = Given))
  BY <1>5, KmallocKeeps DEF Follows
<1>6. CASE MemtestBegin
  BY <1>6, MemtestBeginKeeps DEF Follows
<1>7. CASE MemtestEnd
  BY <1>7, MemtestEndKeeps DEF Follows
<1>8. ASSUME NEW page \in Cached, Keep(page)
      PROVE  IInv' /\ (Follows \/ (mem' = mem /\ status' = status /\ Given' = Given))
  BY <1>8, KeepKeeps
<1>9. QED
  BY <1>1, <1>2, <1>3, <1>4, <1>5, <1>6, <1>7, <1>8 DEF Next

(* So does a step that changes nothing.                                    *)
LEMMA StayKeeps ==
  ASSUME IInv, UNCHANGED vars
  PROVE  IInv' /\ mem' = mem /\ status' = status /\ Given' = Given
<1>1. /\ frames' = frames /\ mem' = mem /\ used' = used /\ tlb' = tlb /\ boot' = boot
      /\ heap_end' = heap_end /\ testing' = testing /\ status' = status
  BY DEF vars
<1>2. Now' = Now /\ Given' = Given
  BY <1>1 DEF Now, Given
<1>3. KInv(Now, Given)'
  BY <1>1, <1>2, NowIs DEF IInv, KInv, Sizes, Free, Stopped
<1>4. Lost(Now, Given, boot)'
  BY <1>1, <1>2 DEF IInv, Lost, Accounts, Loose
<1>5. (Spent(Now, boot, testing) /\ (testing # 0 => Borrowed(Now, testing)))'
  BY <1>1, <1>2 DEF IInv, Spent, Borrowed
<1>6. QED
  BY <1>1, <1>2, <1>3, <1>4, <1>5 DEF IInv, Progress

(* So a step keeps the invariant.                                          *)
LEMMA StepKeeps ==
  ASSUME IInv, [Next]_vars
  PROVE  IInv' /\ (Follows \/ (mem' = mem /\ status' = status /\ Given' = Given))
<1>1. CASE Next
  BY <1>1, NextKeeps
<1>2. CASE UNCHANGED vars
  BY <1>2, StayKeeps
<1>3. QED
  BY <1>1, <1>2

(* The invariant holds always.                                             *)
THEOREM VmmInvariant == Spec => []IInv
<1>1. Init => IInv
  BY InitKeeps
<1>2. IInv /\ [Next]_vars => IInv'
  BY StepKeeps
<1>3. QED
  BY <1>1, <1>2, PTL DEF Spec

(* What the processor keeps is what the tables say, on every machine: each *)
(* of vmm_map and vmm_unmap tells it of the one entry it changes, and no   *)
(* other translation changes with it.                                      *)
THEOREM VmmTlbCoherent == Spec => []TlbCoherent
<1>1. IInv => TlbCoherent
  BY NowIs DEF IInv, KInv, Coherent, TlbCoherent
<1>2. QED
  BY <1>1, VmmInvariant, PTL
-----------------------------------------------------------------------------
(* What the invariant says of the properties.                              *)

(* While every table can be reached, a page that does not serve is not     *)
(* mapped.                                                                 *)
LEMMA Resolved ==
  ASSUME NEW k, NEW D, KInv(k, D), InReach(k.mem), NEW page \in Reach
  PROVE  \/ /\ Serves(k.mem, page) /\ Leads(Walk(k.mem, page))
            /\ Walk(k.mem, page).frame = Low(k.mem, page).frame
         \/ ~Serves(k.mem, page) /\ Walk(k.mem, page) = Unmapped
<1> DEFINE m == k.mem
<1>1. Shape(m) /\ Sizes(k) /\ Kinds(m, k.used, D)
  BY DEF KInv
<1>2. page \in Nat /\ page < FANOUT * FANOUT * FANOUT * FANOUT /\ Hi(page) \in Index
  BY <1>1, FramesFit, Indexes, Places
<1>3. CASE Serves(m, page)
  BY <1>1, <1>2, <1>3, WalkLeads
<1>4. CASE ~Serves(m, page)
  <2>1. page \in Movable
    BY <1>1, <1>4, WalkIdentity, WalkLeads, <1>2 DEF Movable
  <2>2. CASE ~Dir(m, Hi(page)).present
    BY <1>1, <1>2, <1>4, <2>2, WalkIs
  <2>3. CASE Dir(m, Hi(page)).present
    <3>1. Reached(m, Dir(m, Hi(page)).frame)
      BY <1>2, <2>3, DirFits DEF InReach
    <3>2. Kind(m, k.used, D, page)
      BY <1>1, <2>1, <2>3 DEF Kinds
    <3>3. ~Low(m, page).present
      <4>1. \A t \in k.used : t >= 0
        BY <1>1, FramesFit
      <4>2. Entry(page, FALSE).frame = page /\ page >= 0
        BY <1>2 DEF Entry
      <4>3. QED
        BY <1>4, <2>3, <3>1, <3>2, <4>1, <4>2, CellKinds DEF Kind, Serves
    <3>4. QED
      BY <1>1, <1>2, <1>4, <3>3, WalkIs
  <2>4. QED
    BY <2>2, <2>3
<1>5. QED
  BY <1>3, <1>4

(* Memory that nobody took stays mapped to itself.                         *)
LEMMA KeptIs ==
  ASSUME IInv
  PROVE  IdentityKept
<1>1. Shape(mem)
  BY NowIs DEF IInv, KInv
<1>2. ASSUME NEW page \in Identity \ {MEMTEST, USER_CODE}
      PROVE  Walk(mem, page) = AtBoot(page)
  <2>1. Walk(mem, page) = [frame |-> page, user |-> FALSE]
    BY <1>1, WalkIdentity DEF Taken
  <2>2. QED
    BY <2>1 DEF AtBoot
<1>3. QED
  BY <1>2 DEF IdentityKept

(* The frames of table entries, and all of the tables.                     *)
LEMMA LinksAre ==
  ASSUME Shape(mem)
  PROVE  /\ Links = {<<L4, 0>>, <<L3, 0>>} \cup {<<L2, i>> : i \in {j \in Index : Dir(mem, j).present}}
         /\ Tables = {L3, L2} \cup {Dir(mem, i).frame : i \in {j \in Index : Dir(mem, j).present}}
         /\ Tables = {L3, L2} \cup {L1(i) : i \in 0..(BOOT_L1 - 1)} \cup Made(mem)
<1> DEFINE Below(S) == {e \in (S \cap DOMAIN mem) \X Index : mem[e[1]][e[2]].present}
           Onto(E) == {mem[e[1]][e[2]].frame : e \in E}
           P == {j \in Index : Dir(mem, j).present}
           e4 == {<<L4, 0>>}
           e3 == {<<L3, 0>>}
           e2 == {<<L2, i>> : i \in P}
<1>1. /\ L4 \in DOMAIN mem /\ L3 \in DOMAIN mem /\ L2 \in DOMAIN mem /\ 0 \in Index
      /\ mem[L4][0].present /\ mem[L4][0].frame = L3 /\ mem[L3][0].present /\ mem[L3][0].frame = L2
  BY FanoutIs DEF Shape, BootTables, Index
<1>2. \A i \in Index \ {0} : ~mem[L4][i].present /\ ~mem[L3][i].present
  BY CellKinds DEF Shape
<1>3. Below({L4}) = e4
  BY <1>1, <1>2
<1>4. Onto(e4) = {L3}
  BY <1>1
<1>5. Below({L3}) = e3
  BY <1>1, <1>2
<1>6. Onto(e3) = {L2}
  BY <1>1
<1>7. Below({L2}) = e2
  BY <1>1 DEF Dir
<1>8. Links = Below({L4}) \cup Below(Onto(Below({L4}))) \cup Below(Onto(Below(Onto(Below({L4})))))
  BY DEF Links
<1>9. Links = e4 \cup e3 \cup e2
  BY <1>3, <1>4, <1>5, <1>6, <1>7, <1>8
<1>10. Tables = {L3, L2} \cup {Dir(mem, i).frame : i \in P}
  <2>1. Tables = Onto(e4) \cup Onto(e3) \cup Onto(e2)
    BY <1>9 DEF Tables
  <2>2. Onto(e2) = {Dir(mem, i).frame : i \in P}
    <3>1. \A i \in P : mem[<<L2, i>>[1]][<<L2, i>>[2]].frame = Dir(mem, i).frame
      BY DEF Dir
    <3>2. \A e \in e2 : \E i \in P : e = <<L2, i>>
      OBVIOUS
    <3>3. \A i \in P : <<L2, i>> \in e2
      OBVIOUS
    <3> HIDE DEF P, e2
    <3>4. ASSUME NEW e \in e2
          PROVE  mem[e[1]][e[2]].frame \in {Dir(mem, i).frame : i \in P}
      BY <3>1, <3>2
    <3>5. ASSUME NEW i \in P
          PROVE  Dir(mem, i).frame \in Onto(e2)
      BY <3>1, <3>3
    <3>6. QED
      BY <3>4, <3>5
  <2>3. QED
    BY <1>4, <1>6, <2>1, <2>2
<1>11. {Dir(mem, i).frame : i \in P} = {L1(i) : i \in 0..(BOOT_L1 - 1)} \cup Made(mem)
  <2>1. \A i \in Index : i \in Upper \/ i \in 0..(BOOT_L1 - 1)
    BY FanoutIs DEF Index, Upper
  <2>2. Upper \subseteq Index /\ 0..(BOOT_L1 - 1) \subseteq Index
    BY FanoutIs DEF Index, Upper
  <2>3. \A i \in 0..(BOOT_L1 - 1) : Dir(mem, i).present /\ Dir(mem, i).frame = L1(i)
    BY DEF Shape
  <2>4. QED
    BY <2>1, <2>2, <2>3 DEF Made
<1>12. QED
  BY <1>9, <1>10, <1>11

(* The frames that serve pages.                                            *)
LEMMA ServingIs ==
  ASSUME IInv
  PROVE  Serving \subseteq Held(mem, Given) \cup {-1, -2}
<1>1. KInv(Now, Given) /\ Now.mem = mem /\ Now.used = used
  BY NowIs DEF IInv
<1>2. Shape(mem) /\ Kinds(mem, used, Given) /\ Given \subseteq Movable /\ Sizes(Now)
  BY <1>1 DEF KInv
<1> SUFFICES ASSUME NEW page \in Pages, Walk(mem, page) # AtBoot(page)
             PROVE  Walk(mem, page).frame \in Held(mem, Given) \cup {-1, -2}
  BY DEF Serving
<1>3. page \in Reach /\ page \in Nat /\ page < FANOUT * FANOUT * FANOUT * FANOUT
  BY <1>2, Places, FramesFit
<1>4. page \in Movable
  BY <1>2, <1>3, WalkIdentity DEF AtBoot, Movable
<1>5. CASE ~(Dir(mem, Hi(page)).present /\ Low(mem, page).present)
  BY <1>2, <1>3, <1>5, WalkIs DEF Unmapped
<1>6. CASE Dir(mem, Hi(page)).present /\ Low(mem, page).present
  <2>1. Walk(mem, page) = [frame |-> Low(mem, page).frame,
                           user |-> Opened(mem, page) /\ Low(mem, page).user]
    BY <1>2, <1>3, <1>6, WalkIs
  <2>2. Kind(mem, used, Given, page)
    BY <1>2, <1>4, <1>6 DEF Kinds
  <2>3. CASE Low(mem, page) = Zero
    BY <1>6, <2>3, CellKinds
  <2>4. CASE Low(mem, page) = Junk
    BY <2>1, <2>4, CellKinds
  <2>5. CASE page \in Given /\ Low(mem, page).frame \in used
    <3>1. Low(mem, page).frame >= 0
      BY <1>1, <1>2, <2>5, FramesFit
    <3>2. Serves(mem, page)
      BY <1>6, <3>1 DEF Serves
    <3>3. QED
      BY <2>1, <2>5, <3>2 DEF Held
  <2>6. CASE page \in Taken /\ Low(mem, page) = Entry(page, FALSE)
    <3>1. Walk(mem, page) = [frame |-> page, user |-> FALSE]
      <4>1. Low(mem, page).frame = page /\ Low(mem, page).user = FALSE
        BY <2>6 DEF Entry
      <4>2. (Opened(mem, page) /\ Low(mem, page).user) = FALSE
        BY <4>1, Zenon
      <4>3. QED
        BY <2>1, <4>1, <4>2
    <3>2. page \in Identity
      BY <2>6, Places DEF Taken
    <3>3. QED
      BY <3>1, <3>2 DEF AtBoot
  <2>7. QED
    BY <2>2, <2>3, <2>4, <2>5, <2>6 DEF Kind
<1>7. QED
  BY <1>5, <1>6

(* No table serves a page.                                                 *)
LEMMA TablesApart ==
  ASSUME IInv
  PROVE  Tables \cap Serving = {} /\ Made(mem) \subseteq Tables
<1>1. KInv(Now, Given) /\ Now.mem = mem /\ Now.used = used
  BY NowIs DEF IInv
<1>2. Shape(mem) /\ Sizes(Now) /\ TablesMade(mem, used)
  BY <1>1 DEF KInv
<1>3. Held(mem, Given) \subseteq used \ Made(mem)
  BY <1>1, HeldUsed
<1>4. Tables \subseteq BootTables \cup Made(mem) /\ Made(mem) \subseteq Tables
  BY <1>2, LinksAre DEF BootTables
<1>5. \A t \in BootTables \cup Made(mem) : t \in Nat
  BY <1>1, <1>2, FramesFit DEF TablesMade
<1>6. \A t \in BootTables : t \notin used
  <2>1. \A t \in BootTables : t < FIRST_FREE /\ t \in Nat
    BY <1>5, TablePlaces
  <2>2. \A t \in used : t >= FIRST_FREE
    BY <1>1, <1>2, FramesFit
  <2>3. FIRST_FREE \in Nat
    BY Places
  <2>4. QED
    BY <2>1, <2>2, <2>3
<1>7. -1 \notin Nat /\ -2 \notin Nat
  OBVIOUS
<1>8. QED
  BY <1>3, <1>4, <1>5, <1>6, <1>7, ServingIs

(* Where the mapper finds its tables, each table made is in reach.         *)
LEMMA ReachIs ==
  ASSUME IInv, TablesInReach
  PROVE  InReach(mem)
BY TablesApart DEF TablesInReach, InReach, Reached

(* The system stops for nothing but a table out of reach.                  *)
LEMMA StopsIs ==
  ASSUME IInv
  PROVE  StopsOnlyForATable
<1>1. KInv(Now, Given) /\ Now.mem = mem /\ Now.used = used /\ Now.status = status
  BY NowIs DEF IInv
<1>2. ASSUME status # "up"
      PROVE  ~TablesInReach
  <2>1. PICK t \in used \ Held(mem, Given) : ~Reached(mem, t)
    BY <1>1, <1>2 DEF KInv, Stopped
  <2>2. t \in Nat
    BY <1>1, FramesFit DEF KInv
  <2>3. t \notin Serving
    BY <2>1, <2>2, ServingIs
  <2>4. QED
    BY <2>1, <2>3 DEF TablesInReach, Reached
<1>3. QED
  BY <1>2 DEF StopsOnlyForATable

(* The machine halts or runs wild only when the mapper was given a table at*)
(* an address where it does not find it.                                   *)
THEOREM VmmStopsOnlyForATable == Spec => []StopsOnlyForATable
<1>1. IInv => StopsOnlyForATable
  BY StopsIs
<1>2. QED
  BY <1>1, VmmInvariant, PTL
-----------------------------------------------------------------------------
(* The kernel's view of memory.                                            *)

(* vmm_get_phys finds what the processor finds.                            *)
LEMMA GetPhysIs ==
  ASSUME IInv, status = "up", InReach(mem), NEW page \in Reach
  PROVE  VmmGetPhys({Now}, page) = {IF Leads(Walk(mem, page)) THEN Walk(mem, page).frame ELSE 0}
<1> DEFINE o == Looked(Now, page)
           t == Dir(mem, Hi(page)).frame
           cell == Load(o, o.ptr, Lo(page))
           phys == IF o.ptr = Nowhere \/ ~cell.present THEN 0 ELSE cell.frame
<1>1. KInv(Now, Given) /\ Now.mem = mem /\ Now.used = used /\ Now.status = "up"
  BY NowIs DEF IInv
<1>2. Shape(mem) /\ Sizes(Now) /\ Kinds(mem, used, Given)
  BY <1>1 DEF KInv
<1>3. page \in Nat /\ page < FANOUT * FANOUT * FANOUT * FANOUT /\ Hi(page) \in Index /\ At(1, page) = Lo(page)
  BY <1>2, FramesFit, Indexes, Places
<1>4. /\ LowestTable({Now}, page) = {o}
      /\ KInv(o, Given) /\ Moved(Now, o)
      /\ o.ptr = IF Dir(mem, Hi(page)).present THEN t ELSE Nowhere
  BY <1>1, LookedIs
<1> HIDE DEF o
<1>5. VmmGetPhys({Now}, page) = {phys}
  BY <1>3, <1>4 DEF VmmGetPhys, Then
<1>6. o.mem = mem /\ o.status = "up" /\ Coherent(o.mem, o.tlb)
  BY <1>1, <1>4 DEF Moved, KInv
<1>7. \/ Serves(mem, page) /\ Leads(Walk(mem, page)) /\ Walk(mem, page).frame = Low(mem, page).frame
      \/ ~Serves(mem, page) /\ ~Leads(Walk(mem, page))
  <2>1. ~Leads(Unmapped)
    BY DEF Leads, Unmapped
  <2>2. QED
    BY <1>1, <2>1, Resolved
<1>8. CASE ~Dir(mem, Hi(page)).present
  BY <1>4, <1>5, <1>7, <1>8 DEF Serves
<1>9. CASE Dir(mem, Hi(page)).present
  <2>1. t \in Nat /\ Reached(mem, t)
    BY <1>1, <1>3, <1>9, DirFits DEF InReach
  <2>2. o.ptr = t /\ o.ptr # Nowhere
    BY <1>4, <1>9, <2>1 DEF Nowhere
  <2>3. cell = Low(mem, page)
    BY <1>6, <2>1, <2>2, LoadIs DEF Low
  <2>4. CASE Serves(mem, page)
    BY <1>5, <1>7, <2>2, <2>3, <2>4 DEF Serves
  <2>5. CASE ~Serves(mem, page)
    <3>1. ~Low(mem, page).present
      <4>1. Walk(mem, page) = Unmapped
        BY <1>1, <2>5, Resolved
      <4>2. Low(mem, page).frame # -2
        <5>1. CASE page \in Identity \ Taken
          BY <1>2, <2>5, <5>1, <1>3, WalkIdentity, WalkLeads
        <5>2. CASE page \in Movable
          <6>1. Kind(mem, used, Given, page)
            BY <1>2, <1>9, <5>2 DEF Kinds
          <6>2. Entry(page, FALSE).frame = page
            BY DEF Entry
          <6>3. \A f \in used : f >= 0
            BY <1>1, <1>2, FramesFit
          <6>4. Zero.frame = 0 /\ Junk.frame = -1
            BY CellKinds
          <6>5. \/ Low(mem, page).frame = 0 \/ Low(mem, page).frame = -1
                \/ Low(mem, page).frame \in used \/ Low(mem, page).frame = page
            BY <6>1, <6>2, <6>4, Zenon DEF Kind
          <6>6. page >= 0
            BY <1>3
          <6>7. QED
            BY <6>3, <6>5, <6>6
        <5>3. QED
          BY <5>1, <5>2 DEF Movable
      <4>3. QED
        BY <1>2, <1>3, <1>9, <4>1, <4>2, WalkIs DEF Unmapped
    <3>2. QED
      BY <1>5, <1>7, <2>3, <2>5, <3>1
  <2>6. QED
    BY <2>4, <2>5
<1>10. QED
  BY <1>8, <1>9

(* The kernel sees the memory it takes itself to see: what it does not     *)
(* give away stays mapped to itself, and vmm_get_phys finds, through the   *)
(* tables it follows, the frame that the processor finds.                  *)
THEOREM VmmKernelSeesMemory == Spec => []KernelSeesMemory
<1>1. IInv => KernelSeesMemory
  <2> SUFFICES ASSUME IInv PROVE IdentityKept /\ GetPhysAgrees
    BY DEF KernelSeesMemory
  <2>1. GetPhysAgrees
    <3> SUFFICES ASSUME status = "up", TablesInReach, NEW page \in Pages
                 PROVE  VmmGetPhys({Now}, page) = {IF Leads(Walk(mem, page)) THEN Walk(mem, page).frame ELSE 0}
      BY DEF GetPhysAgrees
    <3>1. InReach(mem) /\ page \in Reach
      BY ReachIs, Places
    <3>2. QED
      BY <3>1, GetPhysIs
  <2>2. QED
    BY <2>1, KeptIs
<1>2. QED
  BY <1>1, VmmInvariant, PTL
-----------------------------------------------------------------------------
(* Frames.                                                                 *)

(* The page of the program stays open to ring 3.                           *)
Opens ==
  status = "up" /\ InReach(mem) /\ USER_CODE \in Given => Walk(mem, USER_CODE).user = TRUE

(* What was given to a page stays mapped there in a step that gives others *)
(* memory.                                                                 *)
LEMMA StaysMapped ==
  ASSUME IInv, NEW E, NEW user, Gets(Now, Now', Given, E, user), NEW page \in Given \ E
  PROVE  Walk(mem', page) = Walk(mem, page)
<1>1. Now.mem = mem /\ Now'.mem = mem' /\ Now.status = status
  BY NowIs DEF Now
<1>2. status = "up" /\ InReach(mem)
  BY <1>1 DEF Gets
<1>3. Shape(mem) /\ Sizes(Now) /\ page \in Reach
  BY <1>1 DEF IInv, KInv, Movable
<1>4. Serves(mem, page)
  BY <1>1, <1>2 DEF IInv, Lost, Accounts
<1>5. Leads(Walk(mem, page))
  BY <1>3, <1>4, FramesFit, WalkLeads
<1>6. QED
  BY <1>1, <1>3, <1>5 DEF Gets

(* A step keeps the page of the program open to ring 3.                    *)
LEMMA OpensKeeps ==
  ASSUME IInv, Opens, [Next]_vars
  PROVE  Opens'
<1>1. CASE mem' = mem /\ status' = status /\ Given' = Given
  BY <1>1 DEF Opens
<1>2. CASE Follows
  <2> SUFFICES ASSUME status' = "up", InReach(mem'), USER_CODE \in Given'
               PROVE  Walk(mem', USER_CODE).user = TRUE
    BY DEF Opens
  <2>1. status = "up" /\ Moves
    BY <1>2 DEF Follows
  <2>2. /\ USER_CODE # MEMTEST /\ USER_CODE \in Nat /\ USER_CODE \in Reach
        /\ USER_CODE < FANOUT * FANOUT * FANOUT * FANOUT
        /\ USER_CODE \notin heap_end..(heap_end' - 1)
    <3>1. USER_CODE \in Nat /\ USER_CODE \in Reach /\ USER_CODE # MEMTEST /\ USER_CODE < USER_STACK
      BY Places, HeapPlaces, Zenon
    <3>2. USER_CODE < FANOUT * FANOUT * FANOUT * FANOUT
      BY <3>1, FramesFit, Zenon DEF IInv, KInv
    <3>3. /\ heap_end \in HEAP_START..HEAP_MAX /\ USER_STACK + STACK_PAGES <= HEAP_START
          /\ {USER_STACK, STACK_PAGES, HEAP_START, HEAP_MAX} \subseteq Nat
      BY HeapPlaces, Zenon DEF IInv, Progress
    <3>4. USER_CODE < heap_end
      BY <3>1, <3>3
    <3>5. QED
      BY <3>1, <3>2, <3>3, <3>4
  <2>3. ASSUME NEW E, NEW user, Gets(Now, Now', Given, E, user), Given' = Given \cup E, USER_CODE \notin E
        PROVE  Walk(mem', USER_CODE).user = TRUE
    <3>1. USER_CODE \in Given \ E
      BY <2>3
    <3>2. InReach(mem)
      BY <2>3, NowIs DEF Gets
    <3>3. QED
      BY <2>1, <2>3, <3>1, <3>2, StaysMapped DEF Opens
  <2>4. CASE Gets(Now, Now', Given, heap_end..(heap_end' - 1), FALSE) /\ Given' = Given \cup heap_end..(heap_end' - 1)
    BY <2>2, <2>3, <2>4
  <2>5. ASSUME NEW page \in UserPages, Gets(Now, Now', Given, {page}, TRUE), Given' = Given \cup {page}
        PROVE  Walk(mem', USER_CODE).user = TRUE
    <3>1. CASE page = USER_CODE
      BY <2>5, <3>1 DEF Gets, Now
    <3>2. CASE page # USER_CODE
      BY <2>3, <2>5, <3>2
    <3>3. QED
      BY <3>1, <3>2
  <2>6. CASE Gets(Now, Now', Given, {MEMTEST}, FALSE) /\ Given' = Given \cup {MEMTEST}
    BY <2>2, <2>3, <2>6
  <2>7. CASE /\ InReach(mem) /\ Walk(mem', MEMTEST) = Unmapped /\ Given' = Given \ {MEMTEST}
             /\ \A q \in Nat : q # MEMTEST /\ q < FANOUT * FANOUT * FANOUT * FANOUT =>
                  Walk(mem', q) = Walk(mem, q)
    BY <2>1, <2>2, <2>7 DEF Opens
  <2>8. QED
    BY <2>1, <2>4, <2>5, <2>6, <2>7 DEF Moves
<1>3. QED
  BY <1>1, <1>2, StepKeeps
(* All that holds always.                                                  *)
THEOREM VmmOpens == Spec => [](IInv /\ Opens)
<1>1. Init => IInv /\ Opens
  <2>1. Init => Given = {}
    BY HeapPlaces DEF Init, Given, Asked, StackMapped
  <2>2. QED
    BY <2>1, InitKeeps DEF Opens
<1>2. IInv /\ Opens /\ [Next]_vars => IInv' /\ Opens'
  BY StepKeeps, OpensKeeps
<1>3. QED
  BY <1>1, <1>2, PTL DEF Spec

(* The frames of the pages that were given one serve them, but for a page  *)
(* that memtest may have borrowed for itself.                              *)
LEMMA HeldServes ==
  ASSUME IInv, Opens, status = "up", InReach(mem)
  PROVE  Held(mem, Given) \subseteq Serving \cup {testing}
<1>1. KInv(Now, Given) /\ Now.mem = mem /\ Now.used = used
  BY NowIs DEF IInv
<1>2. Shape(mem) /\ Given \subseteq Movable /\ Sizes(Now)
  BY <1>1 DEF KInv
<1> SUFFICES ASSUME NEW page \in Given, Serves(mem, page)
             PROVE  Low(mem, page).frame \in Serving \cup {testing}
  BY DEF Held
<1>3. page \in Reach /\ page \in Nat /\ page < FANOUT * FANOUT * FANOUT * FANOUT
  BY <1>2, Places, FramesFit DEF Movable
<1>4. Leads(Walk(mem, page)) /\ Walk(mem, page).frame = Low(mem, page).frame
  BY <1>2, <1>3, WalkLeads
<1>5. CASE page = MEMTEST
  <2>1. testing # 0
    <3>1. MEMTEST # USER_CODE /\ MEMTEST \in Identity
      BY Places
    <3>2. MEMTEST \notin HEAP_START..(heap_end - 1) /\ MEMTEST # USER_STACK
          /\ MEMTEST \notin USER_STACK..(USER_STACK + boot - StackMapped - 1)
      <4>1. MEMTEST \in Nat /\ MEMTEST < USER_STACK /\ USER_STACK < HEAP_START
        BY <3>1, HeapPlaces
      <4>2. QED
        BY <4>1, HeapPlaces
    <3>3. QED
      BY <1>5, <3>1, <3>2 DEF Given, Asked
  <2>2. Low(mem, MEMTEST) = Entry(testing, FALSE)
    BY <1>1, <2>1 DEF IInv, Borrowed
  <2>3. QED
    BY <1>5, <2>2 DEF Entry
<1>6. CASE page # MEMTEST
  <2>1. page \in Pages
    <3>1. \A p \in Identity : p \in Pages
      BY HeapPlaces DEF Pages, Identity
    <3>2. \A p \in USER_STACK..(HEAP_MAX - 1) : p \in Pages
      BY HeapPlaces DEF Pages
    <3>3. heap_end \in HEAP_START..HEAP_MAX /\ boot \in 0..Booted
      BY DEF IInv, Progress
    <3>4. \A p \in HEAP_START..(heap_end - 1) : p \in USER_STACK..(HEAP_MAX - 1)
      BY <3>3, HeapPlaces
    <3>5. \A p \in USER_STACK..(USER_STACK + boot - StackMapped - 1) : p \in USER_STACK..(HEAP_MAX - 1)
      BY <3>3, HeapPlaces DEF Booted, StackMapped
    <3>6. USER_STACK \in USER_STACK..(HEAP_MAX - 1) /\ USER_CODE \in Identity
      BY HeapPlaces, Places
    <3>7. QED
      BY <1>6, <3>1, <3>2, <3>4, <3>5, <3>6 DEF Given, Asked
  <2>2. Walk(mem, page) # AtBoot(page)
    <3>1. CASE page = USER_CODE
      <4>1. Walk(mem, page).user = TRUE
        BY <3>1 DEF Opens
      <4>2. page \in Identity
        BY <3>1, Places
      <4>3. AtBoot(page).user = FALSE
        BY <4>2 DEF AtBoot
      <4>4. QED
        BY <4>1, <4>3
    <3>2. CASE page # USER_CODE
      <4>1. page \notin Identity
        BY <1>2, <1>6, <3>2 DEF Movable, Taken
      <4>2. ~Leads(AtBoot(page))
        BY <4>1 DEF AtBoot, Unmapped, Leads
      <4>3. QED
        BY <1>4, <4>2
    <3>3. QED
      BY <3>1, <3>2
  <2>3. Walk(mem, page).frame \in Serving
    BY <2>1, <2>2 DEF Serving
  <2>4. QED
    BY <1>4, <2>3
<1>7. QED
  BY <1>5, <1>6

(* Each table hangs from one entry.                                        *)
LEMMA LinksOnce ==
  ASSUME IInv
  PROVE  Cardinality(Links) = Cardinality(Tables)
<1> DEFINE f == [e \in Links |-> mem[e[1]][e[2]].frame]
           P == {j \in Index : Dir(mem, j).present}
<1>1. KInv(Now, Given) /\ Now.mem = mem
  BY NowIs DEF IInv
<1>2. Shape(mem)
  BY <1>1 DEF KInv
<1>3. Links = {<<L4, 0>>, <<L3, 0>>} \cup {<<L2, i>> : i \in P}
  BY <1>2, LinksAre
<1>4. IsFiniteSet(Links)
  <2>1. 0 \in Index /\ IsFiniteSet(Index)
    BY FanoutIs, FS_Interval DEF Index
  <2>2. IsFiniteSet({L4, L3, L2})
    <3>1. {L4, L3, L2} \subseteq 1..3
      BY DEF L4, L3, L2
    <3>2. IsFiniteSet(1..3)
      <4>1. 1 \in Int /\ 3 \in Int
        OBVIOUS
      <4>2. QED
        BY <4>1, FS_Interval, Zenon
    <3>3. QED
      BY <3>1, <3>2, FS_Subset
  <2>3. IsFiniteSet({L4, L3, L2} \X Index)
    BY <2>1, <2>2, FS_Product
  <2>4. Links \subseteq {L4, L3, L2} \X Index
    BY <1>3, <2>1
  <2>5. QED
    BY <2>3, <2>4, FS_Subset
<1>5. /\ mem[L4][0].frame = L3 /\ mem[L3][0].frame = L2
      /\ \A i \in P : mem[L2][i].frame = Dir(mem, i).frame
      /\ \A i \in P : Dir(mem, i).frame # L3 /\ Dir(mem, i).frame # L2
      /\ \A i, j \in P : Dir(mem, i).frame = Dir(mem, j).frame => i = j
      /\ L3 # L2
  <2>1. mem[L4][0].frame = L3 /\ mem[L3][0].frame = L2 /\ L3 # L2
    BY <1>2, TablePlaces DEF Shape
  <2>2. \A i \in P : mem[L2][i].frame = Dir(mem, i).frame
    BY DEF Dir
  <2>3. \A i, j \in P : Dir(mem, i).frame = Dir(mem, j).frame => i = j
    BY <1>1, DirOnce
  <2>4. ASSUME NEW i \in P
        PROVE  Dir(mem, i).frame # L3 /\ Dir(mem, i).frame # L2
    <3>1. CASE i \in Upper
      <4>1. Dir(mem, i).frame \in used \cup {0}
        BY <1>1, <3>1, NowIs DEF KInv, TablesMade, Made
      <4>2. \A t \in used : t >= FIRST_FREE /\ t \in Nat
        BY <1>1, NowIs, FramesFit DEF KInv
      <4>3. FIRST_FREE \in Nat /\ FIRST_FREE > 3
        BY Places, FanoutIs
      <4>4. L3 = 2 /\ L2 = 3
        BY DEF L3, L2
      <4>5. QED
        BY <4>1, <4>2, <4>3, <4>4
    <3>2. CASE i \notin Upper
      BY <1>1, <3>2, DirFits, TablePlaces
    <3>3. QED
      BY <3>1, <3>2
  <2>5. QED
    BY <2>1, <2>2, <2>3, <2>4
<1>6. \A d, e \in Links : mem[d[1]][d[2]].frame = mem[e[1]][e[2]].frame => d = e
  BY <1>3, <1>5
<1> HIDE DEF P
<1>7. f \in Surjection(Links, Tables)
  BY DEF Surjection, Tables
<1>8. f \in Injection(Links, Tables)
  BY <1>6, <1>7 DEF Injection, IsInjective, Surjection
<1>9. QED
  BY <1>4, <1>7, <1>8, FS_Surjection

(* Each frame has one use, and none has none: no table hangs from two      *)
(* entries or serves as a page, and of all that pmm_alloc handed out the   *)
(* kernel loses the first page of the program's stack and nothing else.    *)
THEOREM VmmFramesAreAccounted == Spec => []FramesAreAccounted
<1>1. IInv => TypeOK
  <2> SUFFICES ASSUME IInv PROVE TypeOK
    OBVIOUS
  <2>1. KInv(Now, Given) /\ Now.mem = mem /\ Now.used = used /\ Now.tlb = tlb /\ Now.status = status
    BY NowIs DEF IInv
  <2>2. Sizes(Now) /\ Typed(mem) /\ Coherent(mem, tlb)
    BY <2>1 DEF KInv, Shape
  <2>3. \A f \in DOMAIN mem : DOMAIN mem[f] = Index
    BY <2>2 DEF Typed
  <2>4. status \in {"up", "fault", "wild"}
    BY <2>1 DEF KInv, Stopped
  <2>5. testing \in used \cup {0}
    BY <2>1 DEF IInv, Borrowed
  <2>6. boot \in 0..Booted /\ heap_end \in HEAP_START..HEAP_MAX
    BY DEF IInv, Progress
  <2>7. DOMAIN mem \subseteq 0..(frames - 1)
    <3>1. frames \in Nat /\ frames > FIRST_FREE /\ FIRST_FREE \in Nat /\ FIRST_FREE > 0
      BY <2>2, FramesFit, Places, FanoutIs, HeapPlaces, MemoryForBoot DEF Sizes
    <3>2. \A t \in BootTables : t \in Nat /\ t < FIRST_FREE
      BY <2>2, FramesFit, TablePlaces
    <3>3. \A t \in BootTables : t \in 0..(frames - 1)
      BY <3>1, <3>2
    <3>4. 0 \in 0..(frames - 1) /\ \A t \in FIRST_FREE..(frames - 1) : t \in 0..(frames - 1)
      BY <3>1
    <3>5. QED
      BY <2>1, <2>2, <3>3, <3>4 DEF Sizes
  <2>8. QED
    BY <2>1, <2>2, <2>3, <2>4, <2>5, <2>6, <2>7 DEF TypeOK, Sizes, Coherent
<1>2. IInv => TablesArePrivate
  BY LinksOnce, TablesApart DEF TablesArePrivate
<1>3. IInv /\ Opens => NoFrameLost
  <2> SUFFICES ASSUME IInv, Opens, status = "up", TablesInReach
               PROVE  Cardinality(used \ (Tables \cup Serving \cup {testing}))
                        = IF boot > StackMapped THEN 1 ELSE 0
    BY DEF NoFrameLost
  <2>1. KInv(Now, Given) /\ Now.mem = mem /\ Now.used = used /\ Now.status = "up"
    BY NowIs DEF IInv
  <2>2. InReach(mem)
    BY ReachIs
  <2>3. PICK x : Loose(Now, Given) = {y \in {x} : boot > StackMapped}
    BY <2>1, <2>2 DEF IInv, Lost, Accounts
  <2>4. used \ (Tables \cup Serving \cup {testing}) = Loose(Now, Given)
    <3>1. Tables \cap used = Made(mem) \cap used
      <4>1. Tables \subseteq BootTables \cup Made(mem) /\ Made(mem) \subseteq Tables
        BY <2>1, TablesApart, LinksAre DEF BootTables, KInv
      <4>2. \A t \in BootTables : t < FIRST_FREE /\ t \in Nat
        BY <2>1, FramesFit, TablePlaces DEF KInv
      <4>3. \A t \in used : t >= FIRST_FREE
        BY <2>1, FramesFit DEF KInv
      <4>4. \A t \in BootTables : t \notin used
        BY <4>2, <4>3, Places
      <4>5. QED
        BY <4>1, <4>4
    <3>2. used \cap (Serving \cup {testing}) = used \cap Held(mem, Given)
      <4>1. \A t \in used : t >= FIRST_FREE /\ t # 0
        BY <2>1, FramesFit DEF KInv
      <4>2. -1 \notin used /\ -2 \notin used /\ 0 \notin used
        BY <4>1, Places
      <4>3. testing # 0 => testing \in Held(mem, Given)
        <5> SUFFICES ASSUME testing # 0 PROVE testing \in Held(mem, Given)
          OBVIOUS
        <5>1. MEMTEST \in Given
          BY DEF Given, Asked
        <5>2. Low(mem, MEMTEST) = Entry(testing, FALSE)
          BY <2>1 DEF IInv, Borrowed
        <5>3. Serves(mem, MEMTEST)
          BY <2>1, <2>2, <5>1 DEF IInv, Lost, Accounts
        <5>4. Low(mem, MEMTEST).frame = testing
          BY <5>2 DEF Entry
        <5>5. QED
          BY <5>1, <5>3, <5>4 DEF Held
      <4>4. QED
        BY <2>2, <4>2, <4>3, ServingIs, HeldServes
    <3>3. QED
      BY <2>1, <3>1, <3>2 DEF Loose
  <2>5. CASE boot > StackMapped
    <3>1. Loose(Now, Given) = {x}
      BY <2>3, <2>5
    <3>2. QED
      BY <2>4, <2>5, <3>1, FS_Singleton
  <2>6. CASE ~(boot > StackMapped)
    <3>1. Loose(Now, Given) = {}
      BY <2>3, <2>6
    <3>2. QED
      BY <2>4, <2>6, <3>1, FS_EmptySet
  <2>7. QED
    BY <2>5, <2>6
<1>4. QED
  BY <1>1, <1>2, <1>3, VmmOpens, PTL DEF FramesAreAccounted
-----------------------------------------------------------------------------
(* The mapper implements the address space that its callers rely on.       *)

(* No step changes how much memory the machine has.                        *)
LEMMA FramesStay ==
  ASSUME [Next]_vars
  PROVE  frames' = frames
<1>1. CASE Next
  <2>1. CASE HeapInit
    BY <2>1 DEF HeapInit, Become
  <2>2. CASE MapUserCode
    BY <2>2 DEF MapUserCode, Become
  <2>3. CASE MapUserStack
    BY <2>3 DEF MapUserStack, Become
  <2>4. CASE MapStackPage
    BY <2>4 DEF MapStackPage, Become
  <2>5. ASSUME NEW m \in 1..2, KmallocExtend(m)
        PROVE  frames' = frames
    BY <2>5 DEF KmallocExtend, Become
  <2>6. CASE MemtestBegin
    BY <2>6 DEF MemtestBegin, Become
  <2>7. CASE MemtestEnd
    BY <2>7 DEF MemtestEnd, Become
  <2>8. ASSUME NEW page \in Cached, Keep(page)
        PROVE  frames' = frames
    BY <2>8 DEF Keep
  <2>9. QED
    BY <1>1, <2>1, <2>2, <2>3, <2>4, <2>5, <2>6, <2>7, <2>8 DEF Next
<1>2. CASE UNCHANGED vars
  BY <1>2 DEF vars
<1>3. QED
  BY <1>1, <1>2

(* The tables of boot map what they should.                                *)
LEMMA BootWalks ==
  ASSUME Init, NEW page \in Pages
  PROVE  Walk(mem, page) = AtBoot(page)
<1>1. Shape(mem)
  BY InitKeeps, NowIs DEF IInv, KInv
<1>2. \A f \in BootTables, i \in Index : mem[f][i] = BootEntry(f, i)
  BY DEF Init, BootTables
<1>3. page \in Reach /\ page \in Nat /\ Hi(page) \in Index /\ Lo(page) \in Index
  BY Places, Indexes, HiLo
<1>4. CASE page \in Identity
  <2>1. Hi(page) \in Nat /\ Hi(page) < BOOT_L1 /\ page = FANOUT * Hi(page) + Lo(page)
    BY <1>3, <1>4, Places, HiLo
  <2>2. Hi(page) \in 0..(BOOT_L1 - 1)
    BY <2>1, FanoutIs
  <2>3. Hi(page) * FANOUT + Lo(page) = page
    <3>1. FANOUT * Hi(page) = Hi(page) * FANOUT
      BY <2>1, FanoutIs
    <3>2. QED
      BY <2>1, <3>1
  <2>4. mem[L1(Hi(page))][Lo(page)] = Entry(page, FALSE)
    <3>1. mem[L1(Hi(page))][Lo(page)] = BootEntry(L1(Hi(page)), Lo(page))
      BY <1>2, <1>3, <2>2, TablePlaces
    <3>2. QED
      BY <1>3, <2>2, <2>3, <3>1, BootCells
  <2>5. Dir(mem, Hi(page)).present /\ Dir(mem, Hi(page)).frame = L1(Hi(page)) /\ L1(Hi(page)) \in DOMAIN mem
    BY <1>1, <2>2, TablePlaces DEF Shape
  <2>6. Low(mem, page) = Entry(page, FALSE)
    BY <2>4, <2>5 DEF Low, Cell
  <2>7. Low(mem, page).present /\ Low(mem, page).frame = page /\ Low(mem, page).user = FALSE
    BY <2>6 DEF Entry
  <2>8. (Opened(mem, page) /\ Low(mem, page).user) = FALSE
    BY <2>7, Zenon
  <2>9. QED
    BY <1>1, <1>3, <1>4, <2>5, <2>7, <2>8, WalkIs DEF AtBoot
<1>5. CASE page \notin Identity
  <2>1. Hi(page) \in Upper
    BY <1>3, <1>5, Places, FanoutIs DEF Index, Upper
  <2>2. L2 \in BootTables
    BY DEF BootTables
  <2>3. Dir(mem, Hi(page)) = Zero
    BY <1>2, <1>3, <2>1, <2>2, BootCells DEF Dir
  <2>4. QED
    BY <1>1, <1>3, <1>5, <2>3, CellKinds, WalkIs DEF AtBoot
<1>6. QED
  BY <1>4, <1>5

(* The pages that differ after a step.                                     *)
Differ == {p \in Pages : Walk(mem', p) # Walk(mem, p)}

(* While the mapper finds its tables, the system runs.                     *)
Runs == TablesInReach => status = "up" /\ InReach(mem)

(* A page other than at its own address is one that was given a frame.     *)
LEMMA SpaceServing ==
  ASSUME IInv, InReach(mem)
  PROVE  Space!Serving(SpaceNow) \subseteq Held(mem, Given)
<1>1. KInv(Now, Given) /\ Now.mem = mem /\ Now.used = used
  BY NowIs DEF IInv
<1> SUFFICES ASSUME NEW q \in Pages, Walk(mem, q) # Unmapped, Walk(mem, q).frame # q
             PROVE  Walk(mem, q).frame \in Held(mem, Given)
  BY DEF Space!Serving, Space!None, SpaceNow, Unmapped
<1>2. q \in Reach /\ q \in Nat /\ q < FANOUT * FANOUT * FANOUT * FANOUT
  BY <1>1, Places, FramesFit DEF KInv
<1>3. Serves(mem, q) /\ Leads(Walk(mem, q)) /\ Walk(mem, q).frame = Low(mem, q).frame
  BY <1>1, <1>2, Resolved
<1>4. q \in Given
  BY <1>1, <1>2, <1>3, WhereTo
<1>5. QED
  BY <1>3, <1>4 DEF Held

(* A step that gives pages memory does so in the address space.            *)
LEMMA GetsMemory ==
  ASSUME IInv, KInv(Now', Given'), InReach(mem'), NEW E, NEW user,
         Gets(Now, Now', Given, E, user), E \subseteq Given'
  PROVE  Differ \subseteq E /\ Space!GetMemory(SpaceNow, SpaceNow', Differ, user)
<1>1. KInv(Now, Given) /\ Now.mem = mem /\ Now'.mem = mem' /\ Now.used = used
  BY NowIs DEF IInv, Now
<1>2. /\ InReach(mem)
      /\ \A p \in E : /\ Serves(mem', p) /\ Walk(mem', p).user = user
                      /\ Walk(mem', p).frame \notin Held(mem, Given)
      /\ \A q \in Reach \ E :
           /\ Serves(mem', q) = Serves(mem, q)
           /\ Leads(Walk(mem, q)) => Walk(mem', q) = Walk(mem, q)
  BY <1>1 DEF Gets
<1>3. \A q \in Reach : \/ Serves(mem, q) /\ Leads(Walk(mem, q))
                       \/ ~Serves(mem, q) /\ Walk(mem, q) = Unmapped
  BY <1>1, <1>2, Resolved
<1>4. \A q \in Reach :
        \/ Serves(mem', q) /\ Leads(Walk(mem', q)) /\ Walk(mem', q).frame = Low(mem', q).frame
        \/ ~Serves(mem', q) /\ Walk(mem', q) = Unmapped
  BY <1>1, Resolved
<1>5. Pages \subseteq Reach
  BY Places
<1>6. Differ \subseteq E
  BY <1>2, <1>3, <1>4, <1>5 DEF Differ
<1>7. /\ \A p \in Pages : SpaceNow[p] = Walk(mem, p) /\ SpaceNow'[p] = Walk(mem', p)
      /\ Differ \subseteq Pages
  BY DEF SpaceNow, Differ
<1>8. \A p \in Differ : Walk(mem', p) # Unmapped /\ Walk(mem', p).user = user
  <2>1. ~Leads(Unmapped)
    BY DEF Leads, Unmapped
  <2>2. QED
    BY <1>2, <1>4, <1>5, <1>6, <1>7, <2>1
<1>9. \A p \in Differ : Walk(mem', p).frame \notin Space!Serving(SpaceNow)
  BY <1>2, <1>6, SpaceServing
<1>10. \A p, q \in Differ : p # q => Walk(mem', p).frame # Walk(mem', q).frame
  <2>1. HeldOnce(mem', Given')
    BY <1>1 DEF KInv
  <2>2. \A p \in Differ : p \in Given' /\ Serves(mem', p) /\ Walk(mem', p).frame = Low(mem', p).frame
    BY <1>2, <1>4, <1>5, <1>6, <1>7
  <2>3. QED
    BY <2>1, <2>2 DEF HeldOnce
<1>11. Unmapped = Space!None
  BY DEF Unmapped, Space!None
<1>12. QED
  BY <1>6, <1>7, <1>8, <1>9, <1>10, <1>11 DEF Space!GetMemory
(* The four steps that the callers take, in the address space.             *)
SpaceMoves == Differ # {} => Space!Step(SpaceNow, SpaceNow', Differ)

(* The heap grows at its end: what it gets was not mapped, and no page     *)
(* before it is left out.                                                  *)
LEMMA SpaceGrows ==
  ASSUME IInv, IInv', KInv(Now', Given'), status' = "up", InReach(mem'),
         Gets(Now, Now', Given, heap_end..(heap_end' - 1), FALSE),
         Given' = Given \cup heap_end..(heap_end' - 1)
  PROVE  SpaceMoves
<1> DEFINE E == heap_end..(heap_end' - 1)
<1>1. /\ KInv(Now, Given) /\ Now.mem = mem /\ Now'.mem = mem' /\ Now'.status = status'
      /\ Progress(boot, heap_end) /\ Progress(boot, heap_end)' /\ Lost(Now, Given, boot)'
  BY NowIs DEF IInv, Now
<1>2. /\ heap_end \in Nat /\ heap_end' \in Nat /\ HEAP_START \in Nat
      /\ HEAP_START <= heap_end /\ heap_end <= HEAP_MAX /\ heap_end' <= HEAP_MAX
  BY <1>1, HeapPlaces DEF Progress
<1>3. Differ \subseteq E /\ Space!GetMemory(SpaceNow, SpaceNow', Differ, FALSE)
  <2>1. E \subseteq Given'
    BY Zenon
  <2>2. QED
    BY <1>1, <2>1, GetsMemory
<1>4. InReach(mem)
  BY <1>1 DEF Gets
<1>5. \A p \in Pages : SpaceNow[p] = Walk(mem, p) /\ SpaceNow'[p] = Walk(mem', p)
  BY DEF SpaceNow
<1>6. \A q \in Given' : Serves(mem', q)
  BY <1>1 DEF Lost, Accounts
<1>7. \A p \in HEAP_START..(heap_end' - 1) : p \in Pages /\ p \in Given' /\ Walk(mem', p) # Unmapped
  <2> SUFFICES ASSUME NEW p \in HEAP_START..(heap_end' - 1)
               PROVE  p \in Pages /\ p \in Given' /\ Walk(mem', p) # Unmapped
    OBVIOUS
  <2>1. p \in Pages
    <3>1. \A x, h, z \in Nat : \A q \in x..(h - 1) : h <= z => q \in 0..(z - 1)
      OBVIOUS
    <3>2. HEAP_MAX \in Nat
      BY HeapPlaces
    <3>3. QED
      BY <1>2, <3>1, <3>2, Zenon DEF Pages
  <2>2. p \in Given'
    BY <1>2 DEF Given, Asked
  <2>3. p \in Reach
    BY <2>1, Places
  <2>4. Serves(mem', p) /\ ~Leads(Unmapped)
    BY <1>6, <2>2 DEF Leads, Unmapped
  <2>5. QED
    BY <1>1, <2>1, <2>2, <2>3, <2>4, Resolved
<1>8. \A p \in Differ : p \in Pages /\ p >= HEAP_START /\ p < heap_end' /\ p \in Nat /\ Walk(mem, p) = Unmapped
  <2> SUFFICES ASSUME NEW p \in Differ
               PROVE  p \in Pages /\ p >= HEAP_START /\ p < heap_end' /\ p \in Nat /\ Walk(mem, p) = Unmapped
    OBVIOUS
  <2>1. p \in E /\ p \in Pages
    BY <1>3 DEF Differ
  <2>2. p \in Nat /\ p >= heap_end /\ p < heap_end' /\ p >= HEAP_START
    <3>1. \A x, h, z \in Nat : \A q \in x..(h - 1) : z <= x => q \in Nat /\ q >= x /\ q < h /\ q >= z
      OBVIOUS
    <3>2. QED
      BY <1>2, <2>1, <3>1, Zenon
  <2>3. p \notin Given
    <3>1. MEMTEST < USER_STACK /\ USER_CODE < USER_STACK /\ MEMTEST \in Nat /\ USER_CODE \in Nat
      BY HeapPlaces, Places DEF Taken
    <3>2. boot \in Nat /\ boot <= StackMapped + STACK_PAGES /\ StackMapped = 3
      BY <1>1, HeapPlaces DEF Progress, Booted, StackMapped
    <3>3. QED
      BY <1>2, <2>2, <3>1, <3>2, HeapPlaces DEF Given, Asked
  <2>4. p \in Movable \ Taken /\ p \notin Identity /\ p \in Reach
    BY <1>2, <2>1, <2>2, HeapPlaces, Places DEF Pages
  <2>5. ~Leads(Walk(mem, p))
    <3>1. p < FANOUT * FANOUT * FANOUT * FANOUT
      BY <1>1, <2>4, FramesFit DEF KInv
    <3>2. QED
      BY <1>1, <2>2, <2>3, <2>4, <3>1, WhereTo
  <2>6. QED
    BY <1>1, <1>4, <2>1, <2>2, <2>4, <2>5, Resolved
<1>9. Unmapped = Space!None
  BY DEF Unmapped, Space!None
<1>10. \A p \in Differ : \A q \in HEAP_START..p : SpaceNow'[q] # Space!None
  BY <1>2, <1>5, <1>7, <1>8, <1>9
<1>11. Space!GrowHeap(SpaceNow, SpaceNow', Differ)
  BY <1>3, <1>5, <1>8, <1>9, <1>10 DEF Space!GrowHeap
<1>12. QED
  BY <1>11 DEF SpaceMoves, Space!Step

(* So does a page of the program, and the page of memtest.                 *)
LEMMA SpaceGives ==
  ASSUME IInv, KInv(Now', Given'), InReach(mem'), NEW page, NEW user,
         Gets(Now, Now', Given, {page}, user), Given' = Given \cup {page},
         (page \in UserPages /\ user = TRUE) \/ (page = MEMTEST /\ user = FALSE)
  PROVE  SpaceMoves
<1>1. Differ \subseteq {page} /\ Space!GetMemory(SpaceNow, SpaceNow', Differ, user)
  <2>1. {page} \subseteq Given'
    BY Zenon
  <2>2. QED
    BY <2>1, GetsMemory
<1>2. Differ # {} => Differ = {page}
  BY <1>1
<1>3. page \in UserPages => page \in {USER_CODE} \cup USER_STACK..(USER_STACK + STACK_PAGES - 1)
  BY DEF UserPages
<1>4. QED
  BY <1>1, <1>2, <1>3 DEF SpaceMoves, Space!Step, Space!GivePage, Space!Borrow

(* The page of memtest is taken back.                                      *)
LEMMA SpaceReturns ==
  ASSUME IInv, Walk(mem', MEMTEST) = Unmapped,
         \A q \in Nat : q # MEMTEST /\ q < FANOUT * FANOUT * FANOUT * FANOUT =>
           Walk(mem', q) = Walk(mem, q)
  PROVE  SpaceMoves
<1>1. MEMTEST \in Pages
  BY MemtestPlace, HeapPlaces, Places DEF Pages
<1>2. \A q \in Pages : q \in Nat /\ q < FANOUT * FANOUT * FANOUT * FANOUT
  BY NowIs, Places, FramesFit DEF IInv, KInv
<1>3. Differ \subseteq {MEMTEST}
  BY <1>2 DEF Differ
<1>4. SpaceNow'[MEMTEST] = Space!None
  BY <1>1 DEF SpaceNow, Unmapped, Space!None
<1>5. Differ # {} => Space!Return(SpaceNow', Differ)
  BY <1>3, <1>4 DEF Space!Return
<1>6. QED
  BY <1>5 DEF SpaceMoves, Space!Step
(* A step, as long as the tables are in reach.                             *)
LEMMA SpaceFollows ==
  ASSUME IInv, IInv', Runs', TablesInReach', Follows, frames' = frames
  PROVE  SpaceMoves
<1>1. status' = "up" /\ InReach(mem')
  BY DEF Runs
<1>2. Moves
  BY <1>1 DEF Follows
<1>3. KInv(Now', Given')
  BY DEF IInv, KInv, Sizes, Free, Stopped
<1>4. CASE /\ Gets(Now, Now', Given, heap_end..(heap_end' - 1), FALSE)
           /\ Given' = Given \cup heap_end..(heap_end' - 1)
  BY <1>1, <1>3, <1>4, SpaceGrows
<1>5. ASSUME NEW page \in UserPages, Gets(Now, Now', Given, {page}, TRUE), Given' = Given \cup {page}
      PROVE  SpaceMoves
  <2>1. (page \in UserPages /\ TRUE = TRUE) \/ (page = MEMTEST /\ TRUE = FALSE)
    BY <1>5, Zenon
  <2>2. QED
    BY <1>1, <1>3, <1>5, <2>1, SpaceGives, Zenon
<1>6. CASE Gets(Now, Now', Given, {MEMTEST}, FALSE) /\ Given' = Given \cup {MEMTEST}
  BY <1>1, <1>3, <1>6, SpaceGives
<1>7. CASE /\ Walk(mem', MEMTEST) = Unmapped
           /\ \A q \in Nat : q # MEMTEST /\ q < FANOUT * FANOUT * FANOUT * FANOUT =>
                Walk(mem', q) = Walk(mem, q)
  BY <1>7, SpaceReturns
<1>8. QED
  BY <1>2, <1>4, <1>5, <1>6, <1>7 DEF Moves

(* So is any step of the system, or it changes no mapping.                 *)
LEMMA SpaceStep ==
  ASSUME IInv, Runs', TablesInReach', [Next]_vars
  PROVE  [Space!Next]_SpaceNow
<1>1. /\ IInv' /\ frames' = frames
      /\ Follows \/ mem' = mem
  BY StepKeeps, FramesStay
<1>2. CASE mem' = mem
  BY <1>2 DEF SpaceNow
<1>3. CASE Follows
  <2>1. SpaceMoves
    BY <1>1, <1>3, SpaceFollows
  <2>2. CASE Differ = {}
    <3>1. \A p \in Pages : Walk(mem', p) = Walk(mem, p)
      BY <2>2 DEF Differ
    <3>2. QED
      BY <3>1 DEF SpaceNow
  <2>3. CASE Differ # {}
    <3>1. {p \in Pages : SpaceNow'[p] # SpaceNow[p]} = Differ
      BY DEF SpaceNow, Differ
    <3>2. QED
      BY <2>1, <2>3, <3>1 DEF SpaceMoves, Space!Next
  <2>4. QED
    BY <2>2, <2>3
<1>4. QED
  BY <1>1, <1>2, <1>3

(* As long as the tables are in reach, the mapper implements the address   *)
(* space: vmm_map and vmm_unmap change the page they are asked for and no  *)
(* other, each page gets memory that nobody had, and the tables that       *)
(* vmm_map makes on the way are not seen.                                  *)
THEOREM VmmMapsAsAsked == Spec => MapsAsAsked
<1>1. Init => Space!Init
  <2> SUFFICES ASSUME Init
               PROVE  Space!Init
    OBVIOUS
  <2>1. \A p \in Pages : Walk(mem, p) = AtBoot(p)
    BY BootWalks
  <2>2. QED
    BY <2>1 DEF Space!Init, SpaceNow, AtBoot, Unmapped, Space!None
<1>2. IInv => Runs
  BY ReachIs, StopsIs DEF Runs, StopsOnlyForATable
<1>3. IInv /\ Runs' /\ [Next]_vars => (TablesInReach /\ TablesInReach' => [Space!Next]_SpaceNow)
  BY SpaceStep
<1>4. QED
  BY <1>1, <1>2, <1>3, VmmInvariant, PTL DEF Spec, MapsAsAsked
=============================================================================
