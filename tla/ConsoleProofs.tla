---------------------------- MODULE ConsoleProofs ----------------------------
(***************************************************************************)
(* Theorems about Console, for a screen of any size and any texts that are *)
(* typed, recalled and printed on it.                                      *)
(*                                                                         *)
(* Sound says of a screen what every way of printing keeps: the next       *)
(* character goes behind all that is shown, in its row or at most a line's *)
(* length before it, and the hardware cursor is there.  PrintCharFacts and *)
(* ClearFacts say what one character more or less does to it, and to the   *)
(* line that it shows; ShownFacts and ErasedFacts carry that along a text. *)
(* ConsoleInv adds that the line is shown, unless it was split, and that a *)
(* column below zero leaves room for the line: erasing cannot take it so   *)
(* far that an index into the text memory wraps round into it.             *)
(* Reach and Rises count by how many rows a text moves the screen up.      *)
(***************************************************************************)
EXTENDS Console, SequenceTheorems, FiniteSetTheorems, WellFoundedInduction, TLAPS

-----------------------------------------------------------------------------
(* Facts about numbers.                                                    *)

(* A set of natural numbers has a first one.                               *)
LEMMA Least ==
  ASSUME NEW S \in SUBSET Nat, S # {}
  PROVE  \E m \in S : \A k \in S : m <= k
<1>1. PICK m \in S : \A k \in S : <<k, m>> \notin OpToRel(<, Nat)
  BY NatLessThanWellFounded, WFMin, Zenon
<1>2. \A k \in S : ~(k < m)
  BY <1>1, Zenon DEF OpToRel
<1> QED
  BY <1>2

(* Induction, for a set of numbers instead of a property of them.          *)
LEMMA AllNumbers ==
  ASSUME NEW T \in SUBSET Nat, 0 \in T, \A n \in T : n + 1 \in T
  PROVE  T = Nat
<1> SUFFICES ASSUME Nat \ T # {} PROVE FALSE
  OBVIOUS
<1>1. PICK m \in Nat \ T : \A k \in Nat \ T : m <= k
  BY Least, Zenon
<1>2. m # 0 /\ m - 1 \in Nat /\ m - 1 \notin Nat \ T
  BY <1>1
<1>3. (m - 1) + 1 \in T
  BY <1>2
<1> QED
  BY <1>1, <1>3

-----------------------------------------------------------------------------
(* One character.                                                          *)

N == NUM_COLS * NUM_ROWS

(* Reading aids: the parts of the invariant, said of any screen.           *)
InRow(s) == s.col <= NUM_COLS \/ s.col >= WORD - MaxLine
BlankBehind(s) == \A i \in Cells : i >= Place(s) => s.cells[i] = Blank
Shows(s, l) ==
  \A i \in 1..Len(l) : LET cell == Place(s) - Len(l) + i - 1
                       IN cell \in Cells /\ s.cells[cell] = l[i]

Sound(s) ==
  /\ s \in Screen /\ InRow(s) /\ BlankBehind(s) /\ s.cursor = Place(s) % WORD

(* What the constants are, without products.                               *)
LEMMA Numbers ==
  /\ NUM_COLS \in Nat /\ NUM_COLS >= 1 /\ NUM_ROWS \in Nat /\ NUM_ROWS >= 2
  /\ N \in Nat /\ WORD \in Nat /\ MaxLine \in Nat
  /\ WORD > 2 * N + MaxLine /\ MaxLine <= N - NUM_COLS
  /\ Cells = 0..(N - 1)
<1>1. /\ NUM_COLS \in Nat /\ NUM_COLS >= 1 /\ NUM_ROWS \in Nat /\ NUM_ROWS >= 2
      /\ WORD \in Nat /\ WORD > 2 * NUM_COLS * NUM_ROWS + MaxLine
      /\ MaxLine \in 0..(NUM_COLS * (NUM_ROWS - 1))
  BY ConsoleAssumption
<1>2. N \in Nat /\ 2 * NUM_COLS * NUM_ROWS = 2 * N /\ NUM_COLS * (NUM_ROWS - 1) = N - NUM_COLS
  BY <1>1 DEF N
<1>3. Cells = 0..(N - 1)
  BY DEF Cells, N
<1> HIDE DEF N
<1>4. MaxLine \in Nat /\ MaxLine <= N - NUM_COLS /\ WORD > 2 * N + MaxLine
  BY <1>1, <1>2
<1> QED
  BY <1>1, <1>2, <1>3, <1>4

(* Where a row starts.                                                     *)
LEMMA RowFacts ==
  ASSUME NEW r \in 0..(NUM_ROWS - 1)
  PROVE  /\ r * NUM_COLS \in Nat /\ NUM_COLS * r = r * NUM_COLS
         /\ r * NUM_COLS <= N - NUM_COLS
         /\ r = NUM_ROWS - 1 => r * NUM_COLS = N - NUM_COLS
         /\ r < NUM_ROWS - 1 => (r + 1) * NUM_COLS = r * NUM_COLS + NUM_COLS
<1>1. NUM_COLS \in Nat /\ NUM_ROWS \in Nat /\ r \in Nat /\ r <= NUM_ROWS - 1
  BY Numbers
<1>2. r * NUM_COLS \in Nat /\ NUM_COLS * r = r * NUM_COLS
  BY <1>1
<1>3. (NUM_ROWS - 1) * NUM_COLS = N - NUM_COLS
  BY <1>1 DEF N
<1>4. r * NUM_COLS <= (NUM_ROWS - 1) * NUM_COLS
  <2> DEFINE d == (NUM_ROWS - 1) - r
  <2>1. d \in Nat /\ NUM_ROWS - 1 = r + d
    BY <1>1
  <2> HIDE DEF d
  <2>2. (r + d) * NUM_COLS = r * NUM_COLS + d * NUM_COLS /\ d * NUM_COLS \in Nat
    BY <1>1, <2>1
  <2> QED
    BY <1>2, <2>1, <2>2
<1>5. (r + 1) * NUM_COLS = r * NUM_COLS + NUM_COLS
  BY <1>1
<1> QED
  BY <1>2, <1>3, <1>4, <1>5

(* Near its range, % adds or takes away one round at most.                 *)
LEMMA ModFacts ==
  ASSUME NEW w \in Nat, w > 0, NEW a \in Int
  PROVE  /\ 0 <= a /\ a < w => a % w = a
         /\ w <= a /\ a < 2 * w => a % w = a - w
         /\ -w <= a /\ a < 0 => a % w = a + w
<1> DEFINE q == a \div w
           m == a % w
<1>1. q \in Int /\ m \in 0..(w - 1) /\ a = w * q + m
  OBVIOUS
<1> HIDE DEF q, m
<1>2. ASSUME NEW k \in Int, k * w <= a, a < k * w + w
      PROVE  m = a - k * w
  <2>1. q <= k
    <3>1. SUFFICES ASSUME q >= k + 1 PROVE FALSE
      BY <1>1
    <3> DEFINE d == q - (k + 1)
    <3>2. d \in Nat /\ q = k + 1 + d
      BY <1>1, <3>1
    <3> HIDE DEF d
    <3>3. w * (k + 1 + d) = k * w + w + w * d /\ w * d \in Nat /\ k * w \in Int
      BY <3>2
    <3> QED
      BY <1>1, <1>2, <3>2, <3>3
  <2>2. q >= k
    <3>1. SUFFICES ASSUME q <= k - 1 PROVE FALSE
      BY <1>1
    <3> DEFINE d == (k - 1) - q
    <3>2. d \in Nat /\ q = k - 1 - d
      BY <1>1, <3>1
    <3> HIDE DEF d
    <3>3. w * (k - 1 - d) = k * w - w - w * d /\ w * d \in Nat /\ k * w \in Int
      BY <3>2
    <3> QED
      BY <1>1, <1>2, <3>2, <3>3
  <2>3. q = k /\ w * k = k * w /\ k * w \in Int
    BY <1>1, <2>1, <2>2
  <2> QED
    BY <1>1, <2>3
<1>3. 0 <= a /\ a < w => m = a
  BY <1>2
<1>4. w <= a /\ a < 2 * w => m = a - w
  <2> SUFFICES ASSUME w <= a, a < 2 * w PROVE m = a - w
    OBVIOUS
  <2>1. 1 \in Int /\ 1 * w = w /\ 1 * w <= a /\ a < 1 * w + w
    OBVIOUS
  <2>2. m = a - 1 * w
    BY <1>2, <2>1
  <2> QED
    BY <2>1, <2>2
<1>5. -w <= a /\ a < 0 => m = a + w
  <2>1. (-1) * w = -w
    OBVIOUS
  <2> QED
    BY <1>2, <2>1
<1> QED
  BY <1>3, <1>4, <1>5 DEF m

(* Where the next character goes.                                          *)
LEMMA PlaceFacts ==
  ASSUME NEW s \in Screen, InRow(s)
  PROVE  /\ Col(s) \in Int /\ -MaxLine <= Col(s) /\ Col(s) <= NUM_COLS
         /\ s.row \in 0..(NUM_ROWS - 1)
         /\ Place(s) \in Int /\ Place(s) = s.row * NUM_COLS + Col(s)
         /\ Place(s) <= N /\ -MaxLine <= Place(s)
         /\ (s.row * NUM_COLS + s.col) % WORD = Place(s) % WORD
         /\ (s.col + NUM_COLS * s.row) % WORD = Place(s) % WORD
         /\ Place(s) >= 0 => Place(s) % WORD = Place(s)
         /\ Place(s) < 0 => Place(s) % WORD \notin Cells
         /\ s.col <= NUM_COLS <=> Col(s) >= 0
         /\ Col(s) >= 0 => s.col = Col(s)
         /\ Col(s) < 0 => s.col = Col(s) + WORD
<1> DEFINE p == Place(s)
           b == s.row * NUM_COLS
<1>1. /\ NUM_COLS \in Nat /\ NUM_COLS >= 1 /\ N \in Nat /\ WORD \in Nat /\ MaxLine \in Nat
      /\ WORD > 2 * N + MaxLine /\ MaxLine <= N - NUM_COLS /\ Cells = 0..(N - 1)
  BY Numbers
<1>2. s.row \in 0..(NUM_ROWS - 1) /\ s.col \in 0..(WORD - 1)
  BY Zenon DEF Screen
<1>3. b \in Nat /\ NUM_COLS * s.row = b /\ b <= N - NUM_COLS
  BY <1>2, RowFacts
<1>4. /\ Col(s) \in Int /\ -MaxLine <= Col(s) /\ Col(s) <= NUM_COLS
      /\ s.col <= NUM_COLS <=> Col(s) >= 0
      /\ Col(s) >= 0 => s.col = Col(s)
      /\ Col(s) < 0 => s.col = Col(s) + WORD
  BY <1>1, <1>2 DEF Col, InRow
<1>5. p = b + Col(s)
  BY DEF Place
<1> HIDE DEF p, b
<1>6. p \in Int /\ p <= N /\ -MaxLine <= p
  BY <1>1, <1>3, <1>4, <1>5
<1>7. p >= 0 => p % WORD = p
  BY <1>1, <1>6, ModFacts
<1>8. p < 0 => p % WORD = p + WORD
  BY <1>1, <1>6, ModFacts
<1>9. (b + s.col) % WORD = p % WORD
  <2>1. CASE Col(s) >= 0
    BY <1>4, <1>5, <2>1
  <2>2. CASE Col(s) < 0
    <3> DEFINE a == b + s.col
    <3>1. a \in Int /\ a = p + WORD
      BY <1>1, <1>2, <1>3, <1>4, <1>5, <1>6, <2>2, SMTT(30)
    <3> HIDE DEF a
    <3>2. CASE p >= 0
      <4>1. WORD <= a /\ a < 2 * WORD
        BY <1>1, <1>6, <3>1, <3>2
      <4>2. a % WORD = a - WORD
        BY <1>1, <3>1, <4>1, ModFacts
      <4> QED
        BY <1>1, <1>6, <1>7, <3>1, <3>2, <4>2 DEF a
    <3>3. CASE p < 0
      <4>1. a % WORD = a
        BY <1>1, <1>6, <3>1, <3>3, ModFacts
      <4> QED
        BY <1>8, <3>1, <3>3, <4>1 DEF a
    <3> QED
      BY <1>6, <3>2, <3>3
  <2> QED
    BY <1>4, <2>1, <2>2
<1>10. s.col + NUM_COLS * s.row = b + s.col
  BY <1>2, <1>3
<1>11. p < 0 => p % WORD \notin Cells
  BY <1>1, <1>6, <1>8
<1> QED
  BY <1>2, <1>4, <1>5, <1>6, <1>7, <1>9, <1>10, <1>11 DEF p, b

(* The screen after a change of some of its fields.                        *)
Looks(r, cells, row, col, stray) ==
  r \in Screen /\ r.cells = cells /\ r.row = row /\ r.col = col /\ r.stray = stray

(* What the screen is after each kind of update.                           *)
LEMMA Updates ==
  ASSUME NEW s \in Screen
  PROVE  /\ \A a \in 0..(NUM_ROWS - 1), b \in 0..(WORD - 1) :
               Looks([s EXCEPT !.row = a, !.col = b], s.cells, a, b, s.stray)
         /\ \A cs \in [Cells -> Characters], b \in 0..(WORD - 1) :
               Looks([s EXCEPT !.cells = cs, !.col = b], cs, s.row, b, s.stray)
         /\ \A b \in 0..(WORD - 1) : Looks([s EXCEPT !.col = b], s.cells, s.row, b, s.stray)
         /\ \A i \in Cells, c \in Characters :
               Looks([s EXCEPT !.cells[i] = c], [s.cells EXCEPT ![i] = c], s.row, s.col, s.stray)
         /\ Looks([s EXCEPT !.stray = TRUE], s.cells, s.row, s.col, TRUE)
BY DEF Looks, Screen

(* Moving the hardware cursor changes nothing else.                        *)
LEMMA CursorFacts ==
  ASSUME NEW s \in Screen
  PROVE  /\ Looks(UpdateCursor(s), s.cells, s.row, s.col, s.stray)
         /\ UpdateCursor(s).cursor = (s.row * NUM_COLS + s.col) % WORD
         /\ InRow(s) => InRow(UpdateCursor(s)) /\ Place(UpdateCursor(s)) = Place(s)
                         /\ UpdateCursor(s).cursor = Place(s) % WORD
<1> DEFINE cur == (s.row * NUM_COLS + s.col) % WORD
           r == UpdateCursor(s)
<1>1. cur \in 0..(WORD - 1)
  <2> DEFINE a == s.row * NUM_COLS + s.col
  <2>1. s.row \in 0..(NUM_ROWS - 1) /\ s.col \in Nat
    BY Numbers DEF Screen
  <2>2. a \in Nat
    BY <2>1, RowFacts
  <2>3. WORD \in Nat /\ WORD > 0
    BY Numbers
  <2> HIDE DEF a
  <2>4. a % WORD \in 0..(WORD - 1)
    BY <2>2, <2>3
  <2> QED
    BY <2>4 DEF a
<1>2. r = [s EXCEPT !.cursor = cur]
  BY DEF UpdateCursor
<1> HIDE DEF cur, r
<1>3. Looks(r, s.cells, s.row, s.col, s.stray) /\ r.cursor = cur
  BY <1>1, <1>2 DEF Looks, Screen
<1>4. InRow(s) => InRow(r) /\ Place(r) = Place(s)
  BY <1>3 DEF Looks, InRow, Place, Col
<1>5. InRow(s) => cur = Place(s) % WORD
  BY PlaceFacts DEF cur
<1> QED
  BY <1>3, <1>4, <1>5 DEF r, cur

(* A line that fills its row is still shown after the next row began.      *)
LEMMA NewlineFacts ==
  ASSUME NEW s, Sound(s)
  PROVE  /\ Sound(PrintNewline(s))
         /\ PrintNewline(s).col = 0 /\ PrintNewline(s).stray = s.stray
         /\ \A l : /\ Len(l) \in Nat /\ Len(l) <= MaxLine /\ Shows(s, l) /\ s.col = NUM_COLS
                   => Shows(PrintNewline(s), l)
<1> DEFINE r == PrintNewline(s)
           new == IF s.row < NUM_ROWS - 1 THEN s.cells ELSE Scrolled(s)
           row == IF s.row < NUM_ROWS - 1 THEN s.row + 1 ELSE s.row
<1>1. /\ NUM_COLS \in Nat /\ NUM_COLS >= 1 /\ N \in Nat /\ WORD \in Nat /\ MaxLine \in Nat
      /\ WORD > 2 * N + MaxLine /\ MaxLine <= N - NUM_COLS /\ Cells = 0..(N - 1)
      /\ NUM_ROWS \in Nat /\ NUM_ROWS >= 2
  BY Numbers
<1>2. s \in Screen /\ InRow(s) /\ BlankBehind(s)
  BY DEF Sound
<1>3. /\ s.cells \in [Cells -> Characters] /\ s.row \in 0..(NUM_ROWS - 1)
      /\ s.stray \in BOOLEAN
      /\ s = [cells |-> s.cells, row |-> s.row, col |-> s.col, cursor |-> s.cursor,
              stray |-> s.stray]
  BY <1>2 DEF Screen
<1>4. new \in [Cells -> Characters]
  <2>1. Blank \in Characters
    BY ConsoleAssumption
  <2> QED
    BY <1>3, <2>1 DEF Scrolled
<1>5. row \in 0..(NUM_ROWS - 1)
  BY <1>1, <1>3
<1>6. row * NUM_COLS \in Nat /\ row * NUM_COLS <= N - NUM_COLS
      /\ s.row * NUM_COLS \in Nat
      /\ (s.row < NUM_ROWS - 1 => row * NUM_COLS = s.row * NUM_COLS + NUM_COLS)
      /\ (~(s.row < NUM_ROWS - 1) => row * NUM_COLS = N - NUM_COLS /\ s.row * NUM_COLS = N - NUM_COLS)
  BY <1>1, <1>3, <1>5, RowFacts
<1> DEFINE q == IF s.row < NUM_ROWS - 1
                THEN [s EXCEPT !.row = @ + 1, !.col = 0]
                ELSE [s EXCEPT !.cells = Scrolled(s), !.col = 0]
<1>7. Looks(q, new, row, 0, s.stray)
  <2>1. 0 \in 0..(WORD - 1)
    BY <1>1
  <2>2. \A c \in [Cells -> Characters] : Looks([s EXCEPT !.cells = c, !.col = 0], c, s.row, 0, s.stray)
    BY <1>2, <2>1, Updates
  <2>3. \A a \in 0..(NUM_ROWS - 1) : Looks([s EXCEPT !.row = a, !.col = 0], s.cells, a, 0, s.stray)
    BY <1>2, <2>1, Updates
  <2>4. CASE s.row < NUM_ROWS - 1
    BY <1>5, <2>3, <2>4
  <2>5. CASE ~(s.row < NUM_ROWS - 1)
    BY <1>4, <2>2, <2>5
  <2> QED
    BY <2>4, <2>5
<1>8. r = UpdateCursor(q)
  BY DEF PrintNewline
<1> HIDE DEF r, new, row, q
<1>9. q \in Screen /\ InRow(q)
  BY <1>1, <1>7 DEF Looks, InRow
<1>10. /\ r \in Screen /\ r.col = 0 /\ r.stray = s.stray /\ r.cells = new /\ r.row = row
      /\ InRow(r) /\ r.cursor = Place(r) % WORD
  BY <1>7, <1>8, <1>9, CursorFacts DEF Looks
<1>11. Place(r) = row * NUM_COLS /\ Place(r) \in Int
  BY <1>1, <1>6, <1>10 DEF Place, Col
<1>12. Place(s) \in Int /\ Place(s) = s.row * NUM_COLS + Col(s) /\ Col(s) \in Int /\ Col(s) <= NUM_COLS
       /\ (s.col = NUM_COLS => Col(s) = NUM_COLS)
  BY <1>1, <1>2, PlaceFacts DEF Col
<1>13. CASE s.row < NUM_ROWS - 1
  <2>1. new = s.cells /\ Place(r) >= Place(s) /\ (s.col = NUM_COLS => Place(r) = Place(s))
    <3> DEFINE b == s.row * NUM_COLS
               b2 == row * NUM_COLS
    <3>1. b \in Nat /\ b2 = b + NUM_COLS /\ Place(r) = b2 /\ Place(s) = b + Col(s)
      BY <1>6, <1>11, <1>12, <1>13
    <3> HIDE DEF b, b2
    <3>2. Place(r) >= Place(s) /\ (s.col = NUM_COLS => Place(r) = Place(s))
      BY <1>1, <1>12, <3>1
    <3> QED
      BY <1>13, <3>2 DEF new
  <2>2. BlankBehind(r)
    BY <1>1, <1>2, <1>10, <1>11, <1>12, <2>1 DEF BlankBehind
  <2>3. \A l : Shows(s, l) /\ s.col = NUM_COLS => Shows(r, l)
    BY <1>10, <2>1 DEF Shows
  <2> QED
    BY <1>10, <2>2, <2>3 DEF Sound, r
<1>14. CASE ~(s.row < NUM_ROWS - 1)
  <2>1. new = Scrolled(s) /\ Place(r) = N - NUM_COLS
        /\ (s.col = NUM_COLS => Place(s) = N)
    BY <1>1, <1>6, <1>11, <1>12, <1>14 DEF new
  <2>2. \A i \in Cells : new[i] = IF i + NUM_COLS \in Cells THEN s.cells[i + NUM_COLS] ELSE Blank
    BY <2>1 DEF Scrolled
  <2>3. BlankBehind(r)
    BY <1>1, <1>10, <2>1, <2>2 DEF BlankBehind
  <2>4. ASSUME NEW l, Len(l) \in Nat, Len(l) <= MaxLine, Shows(s, l), s.col = NUM_COLS,
               NEW i \in 1..Len(l)
        PROVE  LET cell == Place(r) - Len(l) + i - 1
               IN cell \in Cells /\ r.cells[cell] = l[i]
    <3> DEFINE cell == Place(r) - Len(l) + i - 1
    <3>1. cell \in Cells /\ cell \in Int /\ cell + NUM_COLS = Place(s) - Len(l) + i - 1
      BY <1>1, <2>1, <2>4
    <3> HIDE DEF cell
    <3>2. cell + NUM_COLS \in Cells /\ s.cells[cell + NUM_COLS] = l[i]
      BY <2>4, <3>1 DEF Shows
    <3>3. r.cells[cell] = l[i]
      BY <1>10, <2>2, <3>1, <3>2
    <3> QED
      BY <3>1, <3>3 DEF cell
  <2>5. \A l : Len(l) \in Nat /\ Len(l) <= MaxLine /\ Shows(s, l) /\ s.col = NUM_COLS => Shows(r, l)
    BY <2>4 DEF Shows
  <2> QED
    BY <1>10, <2>3, <2>5 DEF Sound, r
<1> QED
  BY <1>13, <1>14

(* A store changes the cell at the place, or nothing when it is no cell.   *)
LEMMA PutFacts ==
  ASSUME NEW s \in Screen, InRow(s), NEW c \in Characters
  PROVE  /\ Place(s) \in Cells =>
               Looks(Put(s, c), [s.cells EXCEPT ![Place(s)] = c], s.row, s.col, s.stray)
         /\ Place(s) \notin Cells => Looks(Put(s, c), s.cells, s.row, s.col, TRUE)
<1> DEFINE i == (s.col + NUM_COLS * s.row) % WORD
<1>1. Cells = 0..(N - 1) /\ N \in Nat
  BY Numbers
<1>2. /\ Place(s) \in Int /\ i = Place(s) % WORD
      /\ Place(s) >= 0 => Place(s) % WORD = Place(s)
      /\ Place(s) < 0 => Place(s) % WORD \notin Cells
  BY PlaceFacts
<1>3. Put(s, c) = IF i \in Cells THEN [s EXCEPT !.cells[i] = c] ELSE [s EXCEPT !.stray = TRUE]
  BY DEF Put
<1> HIDE DEF i
<1>4. CASE Place(s) \in Cells
  <2>1. i = Place(s) /\ i \in Cells
    BY <1>1, <1>2, <1>4
  <2> QED
    BY <1>3, <1>4, <2>1, Updates
<1>5. CASE Place(s) \notin Cells
  <2>1. i \notin Cells
    BY <1>1, <1>2, <1>5
  <2> QED
    BY <1>3, <1>5, <2>1, Updates
<1> QED
  BY <1>4, <1>5

(* A character more on the screen, and at the end of the line.             *)
LEMMA PrintCharFacts ==
  ASSUME NEW s, Sound(s), NEW c \in Characters
  PROVE  /\ Sound(PrintChar(s, c))
         /\ PrintChar(s, c).stray = s.stray /\ PrintChar(s, c).col <= NUM_COLS
         /\ c # Newline =>
              \A l \in Seq(Characters) :
                 Len(l) < MaxLine /\ Shows(s, l) /\ (Col(s) < 0 => l = <<>>)
                 => Shows(PrintChar(s, c), Append(l, c))
<1>1. /\ NUM_COLS \in Nat /\ NUM_COLS >= 1 /\ N \in Nat /\ WORD \in Nat /\ MaxLine \in Nat
      /\ WORD > 2 * N + MaxLine /\ MaxLine <= N - NUM_COLS /\ Cells = 0..(N - 1)
  BY Numbers
<1>2. /\ Sound(PrintNewline(s)) /\ PrintNewline(s).col = 0 /\ PrintNewline(s).stray = s.stray
      /\ \A l : /\ Len(l) \in Nat /\ Len(l) <= MaxLine /\ Shows(s, l) /\ s.col = NUM_COLS
                => Shows(PrintNewline(s), l)
  BY NewlineFacts
<1>3. CASE c = Newline
  BY <1>1, <1>2, <1>3 DEF PrintChar
<1>4. CASE c # Newline
  <2> DEFINE f == IF s.col >= NUM_COLS THEN PrintNewline(s) ELSE s
             p == Put(f, c)
             q == [p EXCEPT !.col = (@ + 1) % WORD]
             r == PrintChar(s, c)
  <2>1. r = UpdateCursor(q)
    BY <1>4 DEF PrintChar
  <2>2. s \in Screen /\ InRow(s)
    BY DEF Sound
  <2>3. s.col \in 0..(WORD - 1)
    BY <2>2 DEF Screen
  <2>4. Sound(f) /\ f.stray = s.stray /\ f.col < NUM_COLS
    BY <1>1, <1>2, <2>3
  <2>5. \A l \in Seq(Characters) :
          Len(l) < MaxLine /\ Shows(s, l) /\ (Col(s) < 0 => l = <<>>) => Shows(f, l)
    <3> SUFFICES ASSUME NEW l \in Seq(Characters), Len(l) < MaxLine, Shows(s, l), Col(s) < 0 => l = <<>>
                 PROVE  Shows(f, l)
      OBVIOUS
    <3>1. CASE s.col >= NUM_COLS
      <4>1. f = PrintNewline(s)
        BY <3>1
      <4> HIDE DEF f
      <4>2. CASE s.col = NUM_COLS
        BY <1>1, <1>2, <4>1, <4>2
      <4>3. CASE s.col # NUM_COLS
        <5>1. Col(s) < 0
          BY <1>1, <2>2, <2>3, <3>1, <4>3, PlaceFacts
        <5>2. l = <<>>
          BY <5>1
        <5> QED
          BY <5>2 DEF Shows
      <4> QED
        BY <4>2, <4>3
    <3>2. CASE ~(s.col >= NUM_COLS)
      BY <3>2
    <3> QED
      BY <3>1, <3>2
  <2> HIDE DEF f, r
  <2>6. f \in Screen /\ InRow(f) /\ BlankBehind(f)
    BY <2>4 DEF Sound
  <2>7. f.col \in 0..(WORD - 1) /\ f.row \in 0..(NUM_ROWS - 1) /\ f.cells \in [Cells -> Characters]
    BY <2>6 DEF Screen
  <2> DEFINE b == f.row * NUM_COLS
  <2>8. b \in Nat /\ b <= N - NUM_COLS
    BY <2>7, RowFacts
  <2>9. Place(f) = b + f.col
    BY <1>1, <2>4, <2>7 DEF Place, Col
  <2> HIDE DEF b
  <2>10. Place(f) \in Cells /\ Place(f) \in Int
    BY <1>1, <2>4, <2>7, <2>8, <2>9
  <2> DEFINE cs == [f.cells EXCEPT ![Place(f)] = c]
  <2>11. Looks(p, cs, f.row, f.col, s.stray)
    BY <2>4, <2>6, <2>10, PutFacts
  <2>12. cs \in [Cells -> Characters] /\ cs[Place(f)] = c
         /\ \A i \in Cells : i # Place(f) => cs[i] = f.cells[i]
    BY <2>7, <2>10
  <2> HIDE DEF cs, p
  <2>13. (p.col + 1) % WORD = f.col + 1 /\ f.col + 1 \in 0..(WORD - 1)
    <3> DEFINE a == f.col + 1
    <3>1. a \in Nat /\ a < WORD /\ WORD > 0
      BY <1>1, <2>4, <2>7
    <3> HIDE DEF a
    <3>2. a % WORD = a
      BY <1>1, <3>1, ModFacts
    <3>3. p.col = f.col
      BY <2>11 DEF Looks
    <3>4. a \in 0..(WORD - 1)
      BY <1>1, <3>1
    <3> QED
      BY <3>2, <3>3, <3>4 DEF a
  <2>14. Looks(q, cs, f.row, f.col + 1, s.stray)
    <3> DEFINE k == (p.col + 1) % WORD
    <3>1. q = [p EXCEPT !.col = k] /\ k \in 0..(WORD - 1) /\ k = f.col + 1
      BY <2>13
    <3>2. p \in Screen
      BY <2>11 DEF Looks
    <3> HIDE DEF k, q
    <3>3. Looks(q, p.cells, p.row, k, p.stray)
      BY <3>1, <3>2, Updates
    <3> QED
      BY <2>11, <3>1, <3>3 DEF Looks
  <2> HIDE DEF q
  <2>15. q \in Screen /\ InRow(q) /\ Place(q) = Place(f) + 1
    <3>1. q \in Screen /\ q.col = f.col + 1 /\ q.row = f.row
      BY <2>14 DEF Looks
    <3>2. Place(q) = b + (f.col + 1)
      BY <1>1, <2>4, <2>7, <3>1 DEF Place, Col, b
    <3> QED
      BY <1>1, <2>4, <2>7, <2>8, <2>9, <3>1, <3>2 DEF InRow
  <2>16. /\ Looks(r, cs, f.row, f.col + 1, s.stray)
         /\ r \in Screen /\ InRow(r) /\ Place(r) = Place(f) + 1 /\ r.cursor = Place(r) % WORD
    BY <2>1, <2>14, <2>15, CursorFacts DEF Looks
  <2>17. r.cells = cs /\ r.stray = s.stray /\ r.col <= NUM_COLS
    BY <1>1, <2>4, <2>7, <2>16 DEF Looks
  <2>18. BlankBehind(r)
    BY <1>1, <2>6, <2>10, <2>12, <2>16, <2>17 DEF BlankBehind
  <2>19. ASSUME NEW l \in Seq(Characters), Shows(f, l), NEW i \in 1..Len(Append(l, c))
         PROVE  LET cell == Place(r) - Len(Append(l, c)) + i - 1
                IN cell \in Cells /\ r.cells[cell] = Append(l, c)[i]
    <3> DEFINE cell == Place(r) - Len(Append(l, c)) + i - 1
    <3>1. /\ Len(Append(l, c)) = Len(l) + 1 /\ Len(l) \in Nat
          /\ \A k \in 1..Len(l) : Append(l, c)[k] = l[k]
          /\ Append(l, c)[Len(l) + 1] = c
      OBVIOUS
    <3>2. cell = Place(f) - Len(l) + i - 1 /\ cell \in Int
      BY <2>10, <2>16, <3>1
    <3> HIDE DEF cell
    <3>3. CASE i = Len(l) + 1
      <4>1. cell = Place(f)
        BY <2>10, <3>1, <3>2, <3>3
      <4> QED
        BY <2>10, <2>12, <2>17, <3>1, <3>3, <4>1 DEF cell
    <3>4. CASE i # Len(l) + 1
      <4>1. i \in 1..Len(l) /\ cell # Place(f)
        BY <2>10, <2>19, <3>1, <3>2, <3>4
      <4>2. cell \in Cells /\ f.cells[cell] = l[i]
        BY <2>19, <3>2, <4>1 DEF Shows
      <4> QED
        BY <2>12, <2>17, <3>1, <4>1, <4>2 DEF cell
    <3> QED
      BY <3>3, <3>4
  <2>20. \A l \in Seq(Characters) : Shows(f, l) => Shows(r, Append(l, c))
    BY <2>19 DEF Shows
  <2> QED
    BY <2>5, <2>16, <2>17, <2>18, <2>20 DEF Sound, r
<1> QED
  BY <1>3, <1>4

(* A character less; only before the first cell does a store go astray.    *)
LEMMA ClearFacts ==
  ASSUME NEW s, Sound(s), Col(s) > -MaxLine
  PROVE  LET r == PrintClearChar(s)
         IN  /\ Sound(r) /\ Col(r) = Col(s) - 1 /\ Place(r) = Place(s) - 1
             /\ Place(s) >= 1 => r.stray = s.stray
             /\ \A i \in Cells : i # Place(s) - 1 => r.cells[i] = s.cells[i]
<1>1. /\ NUM_COLS \in Nat /\ NUM_COLS >= 1 /\ N \in Nat /\ WORD \in Nat /\ MaxLine \in Nat
      /\ WORD > 2 * N + MaxLine /\ MaxLine <= N - NUM_COLS /\ Cells = 0..(N - 1)
      /\ Blank \in Characters
  BY Numbers, ConsoleAssumption
<1>2. s \in Screen /\ InRow(s) /\ BlankBehind(s)
  BY DEF Sound
<1>3. /\ s.col \in 0..(WORD - 1) /\ s.row \in 0..(NUM_ROWS - 1) /\ s.cells \in [Cells -> Characters]
      /\ s.stray \in BOOLEAN
  BY <1>2 DEF Screen
<1>4. /\ Col(s) \in Int /\ Col(s) <= NUM_COLS /\ Place(s) \in Int /\ Place(s) <= N
      /\ Place(s) = s.row * NUM_COLS + Col(s) /\ s.row * NUM_COLS \in Nat
      /\ Col(s) >= 0 => s.col = Col(s)
      /\ Col(s) < 0 => s.col = Col(s) + WORD
  BY <1>2, <1>3, PlaceFacts, RowFacts
<1> DEFINE k == (s.col - 1) % WORD
           q == [s EXCEPT !.col = (@ - 1) % WORD]
           r == PrintClearChar(s)
<1>5. /\ s.col >= 1 => k = s.col - 1
      /\ s.col = 0 => k = WORD - 1
  <2> DEFINE a == s.col - 1
  <2>1. a \in Int /\ a < WORD /\ WORD > 0 /\ (s.col >= 1 => a >= 0) /\ (s.col = 0 => a = -1)
    BY <1>1, <1>3
  <2>2. (a >= 0 => a % WORD = a) /\ (a = -1 => a % WORD = a + WORD)
    BY <1>1, <2>1, ModFacts
  <2> HIDE DEF a
  <2>3. (s.col >= 1 => a % WORD = a) /\ (s.col = 0 => a % WORD = WORD - 1)
    BY <1>1, <2>1, <2>2
  <2> QED
    BY <2>3 DEF a
<1>6. q = [s EXCEPT !.col = k]
  OBVIOUS
<1> HIDE DEF k
<1>7. k \in 0..(WORD - 1)
  BY <1>1, <1>3, <1>5
<1> HIDE DEF q
<1>8. Looks(q, s.cells, s.row, k, s.stray)
  BY <1>2, <1>6, <1>7, Updates
<1>9. q \in Screen /\ q.cells = s.cells /\ q.row = s.row /\ q.col = k /\ q.stray = s.stray
  BY <1>8 DEF Looks
<1>10. InRow(q) /\ Col(q) = Col(s) - 1
  <2> DEFINE x == Col(s)
  <2>1. /\ x \in Int /\ x > -MaxLine /\ x <= NUM_COLS /\ N >= NUM_COLS
        /\ (x >= 0 => s.col = x) /\ (x < 0 => s.col = x + WORD)
    BY <1>1, <1>4
  <2> HIDE DEF x
  <2>2. Col(q) = (IF k > NUM_COLS THEN k - WORD ELSE k) /\ k \in Nat
    BY <1>1, <1>7, <1>9 DEF Col
  <2>3. CASE x >= 1
    <3>1. k = x - 1
      BY <1>1, <1>5, <2>1, <2>3
    <3> QED
      BY <1>1, <1>9, <2>1, <2>2, <2>3, <3>1 DEF InRow, x
  <2>4. CASE x < 1
    <3>1. k = WORD + x - 1
      BY <1>1, <1>5, <2>1, <2>4
    <3>2. k > NUM_COLS /\ k >= WORD - MaxLine
      BY <1>1, <2>1, <2>4, <3>1
    <3> QED
      BY <1>1, <1>9, <2>1, <2>2, <2>4, <3>1, <3>2 DEF InRow, x
  <2> QED
    BY <2>1, <2>3, <2>4
<1>11. Place(q) = Place(s) - 1
  BY <1>4, <1>9, <1>10 DEF Place
<1> DEFINE p == Put(q, Blank)
           cs == IF Place(q) \in Cells THEN [s.cells EXCEPT ![Place(q)] = Blank] ELSE s.cells
<1>12. Looks(p, cs, s.row, k, IF Place(q) \in Cells THEN s.stray ELSE TRUE)
  BY <1>1, <1>9, <1>10, PutFacts
<1>13. /\ \A i \in Cells : i # Place(q) => cs[i] = s.cells[i]
       /\ Place(q) \in Cells => cs[Place(q)] = Blank
  BY <1>3
<1>14. r = UpdateCursor(p)
  BY DEF PrintClearChar, q
<1> HIDE DEF p, cs, r
<1>15. p \in Screen /\ InRow(p) /\ Place(p) = Place(q) /\ Col(p) = Col(q)
  BY <1>9, <1>10, <1>12 DEF Looks, InRow, Place, Col
<1>16. Looks(r, p.cells, p.row, p.col, p.stray) /\ InRow(r) /\ Place(r) = Place(p)
       /\ r.cursor = Place(r) % WORD
  BY <1>14, <1>15, CursorFacts
<1>17. r \in Screen /\ r.cells = cs /\ Col(r) = Col(s) - 1 /\ Place(r) = Place(s) - 1
       /\ (Place(q) \in Cells => r.stray = s.stray)
  BY <1>10, <1>11, <1>12, <1>15, <1>16 DEF Looks, Col
<1>18. BlankBehind(r)
  BY <1>1, <1>2, <1>4, <1>11, <1>13, <1>17, SMTT(30) DEF BlankBehind
<1>19. Place(s) >= 1 => r.stray = s.stray
  BY <1>1, <1>4, <1>11, <1>17
<1>20. \A i \in Cells : i # Place(s) - 1 => r.cells[i] = s.cells[i]
  BY <1>11, <1>13, <1>17
<1> QED
  BY <1>16, <1>17, <1>18, <1>19, <1>20 DEF Sound, r

-----------------------------------------------------------------------------
(* Text of any length.                                                     *)

(* Recursion along a sequence, for steps that stay in a set.               *)
Stepwise(f, S, b, g, L) ==
  f \in [0..L -> S] /\ f = [k \in 0..L |-> IF k = 0 THEN b ELSE g[<<f[k - 1], k>>]]

Stays(g, S, L) == \A x \in S, k \in 1..L : g[<<x, k>>] \in S

(* There is such a function.                                               *)
LEMMA StepsExist ==
  ASSUME NEW S, NEW b \in S, NEW g, NEW L \in Nat, Stays(g, S, L)
  PROVE  \E f : Stepwise(f, S, b, g, L)
<1> DEFINE Are(f, l) == f \in [0..l -> S] /\ f[0] = b /\ \A k \in 1..l : f[k] = g[<<f[k - 1], k>>]
           T == {l \in Nat : l <= L => \E f : Are(f, l)}
<1>1. 0 \in T
  <2> DEFINE f == [k \in 0..0 |-> b]
  <2>1. Are(f, 0)
    OBVIOUS
  <2> HIDE DEF Are
  <2> QED
    BY <2>1
<1>2. ASSUME NEW l \in T PROVE l + 1 \in T
  <2> SUFFICES ASSUME l + 1 <= L PROVE \E f : Are(f, l + 1)
    OBVIOUS
  <2>1. l \in Nat /\ l <= L /\ l + 1 \in 1..L
    OBVIOUS
  <2>2. PICK h : Are(h, l)
    BY <2>1
  <2> DEFINE f == [k \in 0..(l + 1) |-> IF k = l + 1 THEN g[<<h[l], l + 1>>] ELSE h[k]]
  <2>3. h[l] \in S
    BY <2>1, <2>2
  <2>4. g[<<h[l], l + 1>>] \in S
    BY <2>1, <2>3 DEF Stays
  <2>5. f \in [0..(l + 1) -> S] /\ f[0] = b
    BY <2>1, <2>2, <2>4
  <2>6. ASSUME NEW k \in 1..(l + 1) PROVE f[k] = g[<<f[k - 1], k>>]
    <3>1. k - 1 \in 0..(l + 1) /\ k - 1 # l + 1 /\ k \in 0..(l + 1)
      BY <2>1
    <3>2. f[k - 1] = h[k - 1]
      BY <3>1
    <3>3. CASE k = l + 1
      <4>1. k - 1 = l /\ f[k] = g[<<h[l], l + 1>>]
        BY <2>1, <3>1, <3>3
      <4> QED
        BY <3>2, <3>3, <4>1
    <3>4. CASE k # l + 1
      <4>1. k \in 1..l /\ f[k] = h[k]
        BY <2>1, <3>1, <3>4
      <4>2. h[k] = g[<<h[k - 1], k>>]
        BY <2>2, <4>1
      <4> QED
        BY <3>2, <4>1, <4>2
    <3> QED
      BY <3>3, <3>4
  <2>7. Are(f, l + 1)
    BY <2>5, <2>6
  <2> HIDE DEF Are, f
  <2> QED
    BY <2>7
<1>3. T = Nat
  <2>1. T \in SUBSET Nat
    OBVIOUS
  <2> HIDE DEF T
  <2> QED
    BY <1>1, <1>2, <2>1, AllNumbers, Zenon
<1>4. PICK f : Are(f, L)
  <2>1. L \in T
    <3> HIDE DEF T
    <3> QED
      BY <1>3
  <2> HIDE DEF Are
  <2> QED
    BY <2>1
<1>5. \A k \in 0..L : f[k] = IF k = 0 THEN b ELSE g[<<f[k - 1], k>>]
  BY <1>4
<1>6. f \in [0..L -> S] /\ f = [k \in 0..L |-> f[k]]
  BY <1>4
<1>7. [k \in 0..L |-> f[k]] = [k \in 0..L |-> IF k = 0 THEN b ELSE g[<<f[k - 1], k>>]]
  BY <1>5
<1> QED
  BY <1>6, <1>7 DEF Stepwise

(* The steps of PrintStr.                                                  *)
ShownBy(f, s, text) ==
  f = [k \in 0..Len(text) |-> IF k = 0 THEN s ELSE PrintChar(f[k - 1], text[k])]

(* PrintStr prints its characters one after the other.                     *)
LEMMA ShownFacts ==
  ASSUME NEW s, Sound(s), NEW text \in Seq(Characters)
  PROVE  \E f : /\ PrintStr(s, text) = f[Len(text)]
                /\ f[0] = s
                /\ \A k \in 0..Len(text) : Sound(f[k])
                /\ \A k \in 1..Len(text) : f[k] = PrintChar(f[k - 1], text[k])
<1> DEFINE S == {x \in Screen : Sound(x)}
           L == Len(text)
           g == [y \in S \X (1..L) |-> PrintChar(y[1], text[y[2]])]
<1>1. L \in Nat /\ \A k \in 1..L : text[k] \in Characters
  OBVIOUS
<1>2. \A x \in S, k \in 1..L : g[<<x, k>>] = PrintChar(x, text[k])
  OBVIOUS
<1>3. \A x \in S, k \in 1..L : PrintChar(x, text[k]) \in S
  BY <1>1, PrintCharFacts DEF Sound
<1>4. s \in S
  BY DEF Sound
<1> HIDE DEF S, g
<1>5. PICK f : Stepwise(f, S, s, g, L)
  <2>1. Stays(g, S, L)
    BY <1>2, <1>3 DEF Stays
  <2> HIDE DEF L
  <2> QED
    BY <1>1, <1>4, <2>1, StepsExist
<1>6. \A k \in 0..L : f[k] = IF k = 0 THEN s ELSE PrintChar(f[k - 1], text[k])
  <2> SUFFICES ASSUME NEW k \in 0..L PROVE f[k] = IF k = 0 THEN s ELSE PrintChar(f[k - 1], text[k])
    OBVIOUS
  <2>1. f[k] = IF k = 0 THEN s ELSE g[<<f[k - 1], k>>]
    BY <1>5 DEF Stepwise
  <2>2. k # 0 => k \in 1..L /\ k - 1 \in 0..L
    BY <1>1
  <2>3. \A j \in 0..L : f[j] \in S
    BY <1>5 DEF Stepwise
  <2>4. k # 0 => g[<<f[k - 1], k>>] = PrintChar(f[k - 1], text[k])
    BY <1>2, <2>2, <2>3
  <2> QED
    BY <2>1, <2>4
<1>7. \E h : ShownBy(h, s, text)
  <2>1. f = [k \in 0..L |-> f[k]]
    BY <1>5 DEF Stepwise
  <2>2. [k \in 0..L |-> f[k]] = [k \in 0..L |-> IF k = 0 THEN s ELSE PrintChar(f[k - 1], text[k])]
    BY <1>6
  <2>3. ShownBy(f, s, text)
    BY <2>1, <2>2 DEF ShownBy
  <2> QED
    BY <2>3
<1> DEFINE to == CHOOSE h : ShownBy(h, s, text)
<1>8. ShownBy(to, s, text)
  BY <1>7, Zenon
<1>9. PrintStr(s, text) = to[L]
  BY DEF PrintStr, ShownBy
<1> HIDE DEF to, L
<1>10. \A k \in 0..L : to[k] = IF k = 0 THEN s ELSE PrintChar(to[k - 1], text[k])
  BY <1>8 DEF ShownBy, L
<1>11. to[0] = s /\ \A k \in 1..L : to[k] = PrintChar(to[k - 1], text[k])
  BY <1>1, <1>10
<1>12. \A k \in 0..L : Sound(to[k])
  <2> DEFINE T == {k \in Nat : k <= L => to[k] \in S}
  <2>1. 0 \in T
    BY <1>4, <1>11
  <2>2. ASSUME NEW k \in T PROVE k + 1 \in T
    <3> SUFFICES ASSUME k + 1 <= L PROVE to[k + 1] \in S
      OBVIOUS
    <3>1. k + 1 \in 1..L /\ (k + 1) - 1 = k /\ to[k] \in S
      BY <1>1
    <3>2. to[k + 1] = PrintChar(to[k], text[k + 1])
      BY <1>11, <3>1
    <3> QED
      BY <1>3, <3>1, <3>2
  <2>3. T = Nat
    <3>1. T \in SUBSET Nat
      OBVIOUS
    <3> HIDE DEF T
    <3> QED
      BY <2>1, <2>2, <3>1, AllNumbers, Zenon
  <2>4. \A k \in 0..L : to[k] \in S
    BY <1>1, <2>3
  <2> QED
    BY <2>4 DEF S
<1> QED
  BY <1>9, <1>11, <1>12 DEF L

(* Text of any length.                                                     *)
LEMMA PrintStrFacts ==
  ASSUME NEW s, Sound(s), NEW text \in Seq(Characters)
  PROVE  /\ Sound(PrintStr(s, text)) /\ PrintStr(s, text).stray = s.stray
         /\ text = <<>> => PrintStr(s, text) = s
         /\ text # <<>> \/ s.col <= NUM_COLS => PrintStr(s, text).col <= NUM_COLS
<1> DEFINE L == Len(text)
<1>1. PICK f : /\ PrintStr(s, text) = f[L]
               /\ f[0] = s
               /\ \A k \in 0..L : Sound(f[k])
               /\ \A k \in 1..L : f[k] = PrintChar(f[k - 1], text[k])
  BY ShownFacts
<1>2. L \in Nat /\ (L = 0 <=> text = <<>>) /\ \A k \in 1..L : text[k] \in Characters
  OBVIOUS
<1> HIDE DEF L
<1>3. \A k \in 1..L : f[k].stray = f[k - 1].stray /\ f[k].col <= NUM_COLS
  <2> SUFFICES ASSUME NEW k \in 1..L PROVE f[k].stray = f[k - 1].stray /\ f[k].col <= NUM_COLS
    OBVIOUS
  <2>1. k - 1 \in 0..L
    BY <1>2
  <2> QED
    BY <1>1, <1>2, <2>1, PrintCharFacts
<1> DEFINE T == {k \in Nat : k <= L => f[k].stray = s.stray}
<1>4. T = Nat
  <2>1. 0 \in T
    BY <1>1
  <2>2. ASSUME NEW k \in T PROVE k + 1 \in T
    <3>1. k + 1 <= L => k + 1 \in 1..L /\ (k + 1) - 1 = k /\ k <= L
      BY <1>2
    <3>2. k + 1 <= L => f[k + 1].stray = f[k].stray
      BY <1>3, <3>1
    <3> QED
      BY <3>1, <3>2
  <2>3. T \in SUBSET Nat
    OBVIOUS
  <2> HIDE DEF T
  <2> QED
    BY <2>1, <2>2, <2>3, AllNumbers, Zenon
<1>5. Sound(f[L]) /\ f[L].stray = s.stray
  BY <1>1, <1>2, <1>4
<1>6. L # 0 => f[L].col <= NUM_COLS
  BY <1>2, <1>3
<1> QED
  BY <1>1, <1>2, <1>5, <1>6

(* A line, which has no newline in it and fits on the screen.              *)
LEMMA PrintedIsShown ==
  ASSUME NEW s, Sound(s), NEW text \in Seq(Characters \ {Newline}), Len(text) <= MaxLine
  PROVE  Shows(PrintStr(s, text), text)
<1> DEFINE L == Len(text)
           Part(k) == SubSeq(text, 1, k)
<1>1. text \in Seq(Characters)
  OBVIOUS
<1>2. PICK f : /\ PrintStr(s, text) = f[L]
               /\ f[0] = s
               /\ \A k \in 0..L : Sound(f[k])
               /\ \A k \in 1..L : f[k] = PrintChar(f[k - 1], text[k])
  BY <1>1, ShownFacts
<1>3. L \in Nat /\ L <= MaxLine /\ \A k \in 1..L : text[k] \in Characters /\ text[k] # Newline
  OBVIOUS
<1>4. \A k \in 0..L : Part(k) \in Seq(Characters) /\ Len(Part(k)) = k
  BY <1>1, <1>3
<1>5. \A k \in 1..L : Part(k) = Append(Part(k - 1), text[k])
  BY <1>1, <1>3
<1>6. Part(0) = <<>> /\ Part(L) = text
  BY <1>1, <1>3
<1> HIDE DEF L, Part
<1> DEFINE T == {k \in Nat : k <= L => Shows(f[k], Part(k)) /\ (Col(f[k]) < 0 => Part(k) = <<>>)}
<1>7. 0 \in T
  BY <1>6 DEF Shows
<1>8. ASSUME NEW k \in T PROVE k + 1 \in T
  <2> SUFFICES ASSUME k + 1 <= L
               PROVE  Shows(f[k + 1], Part(k + 1)) /\ ~(Col(f[k + 1]) < 0)
    OBVIOUS
  <2>1. k + 1 \in 1..L /\ (k + 1) - 1 = k /\ k \in 0..L /\ k + 1 \in 0..L /\ k < MaxLine
    BY <1>3, Numbers
  <2>2. Sound(f[k]) /\ Sound(f[k + 1]) /\ f[k + 1] = PrintChar(f[k], text[k + 1])
    BY <1>2, <2>1
  <2>3. Shows(f[k], Part(k)) /\ (Col(f[k]) < 0 => Part(k) = <<>>)
    BY <2>1
  <2>4. Shows(f[k + 1], Append(Part(k), text[k + 1])) /\ f[k + 1].col <= NUM_COLS
    <3>1. /\ Part(k) \in Seq(Characters) /\ Len(Part(k)) < MaxLine
          /\ text[k + 1] \in Characters /\ text[k + 1] # Newline
      BY <1>3, <1>4, <2>1
    <3> QED
      BY <2>2, <2>3, <3>1, PrintCharFacts
  <2>5. Col(f[k + 1]) >= 0 /\ Col(f[k + 1]) \in Int
    BY <2>2, <2>4, PlaceFacts DEF Sound
  <2>6. Part(k + 1) = Append(Part(k), text[k + 1])
    BY <1>5, <2>1
  <2>7. ~(Col(f[k + 1]) < 0)
    BY <2>5
  <2> QED
    BY <2>4, <2>6, <2>7, Zenon
<1>9. T = Nat
  <2>1. T \in SUBSET Nat
    OBVIOUS
  <2> HIDE DEF T
  <2> QED
    BY <1>7, <1>8, <2>1, AllNumbers, Zenon
<1>10. Shows(f[L], Part(L))
  BY <1>3, <1>9
<1> QED
  BY <1>2, <1>6, <1>10

(* The steps of Erased.                                                    *)
LeftBy(f, s, n) == f = [k \in 0..n |-> IF k = 0 THEN s ELSE PrintClearChar(f[k - 1])]

(* Erasing keeps the screen one, wherever the column is.                   *)
LEMMA ClearStays ==
  ASSUME NEW s \in Screen
  PROVE  PrintClearChar(s) \in Screen
<1> DEFINE k == (s.col - 1) % WORD
           q == [s EXCEPT !.col = (@ - 1) % WORD]
           i == (q.col + NUM_COLS * q.row) % WORD
<1>1. Blank \in Characters /\ WORD \in Nat /\ WORD > 0
  BY Numbers, ConsoleAssumption
<1>2. k \in 0..(WORD - 1)
  <2> DEFINE a == s.col - 1
  <2>1. a \in Int
    BY Numbers DEF Screen
  <2> HIDE DEF a
  <2>2. a % WORD \in 0..(WORD - 1)
    BY <1>1, <2>1
  <2> QED
    BY <2>2 DEF a
<1>3. q = [s EXCEPT !.col = k]
  OBVIOUS
<1> HIDE DEF k, q
<1>4. q \in Screen
  BY <1>2, <1>3, Updates DEF Looks
<1>5. Put(q, Blank) = IF i \in Cells THEN [q EXCEPT !.cells[i] = Blank] ELSE [q EXCEPT !.stray = TRUE]
  BY DEF Put
<1> HIDE DEF i
<1>6. Put(q, Blank) \in Screen
  <2>1. CASE i \in Cells
    <3>1. Looks([q EXCEPT !.cells[i] = Blank], [q.cells EXCEPT ![i] = Blank], q.row, q.col, q.stray)
      BY <1>1, <1>4, <2>1, Updates
    <3> QED
      BY <1>5, <2>1, <3>1 DEF Looks
  <2>2. CASE i \notin Cells
    <3>1. Looks([q EXCEPT !.stray = TRUE], q.cells, q.row, q.col, TRUE)
      BY <1>4, Updates
    <3> QED
      BY <1>5, <2>2, <3>1 DEF Looks
  <2> QED
    BY <2>1, <2>2
<1>7. PrintClearChar(s) = UpdateCursor(Put(q, Blank))
  BY DEF PrintClearChar, q
<1> QED
  BY <1>6, <1>7, CursorFacts DEF Looks

(* Erasing n characters; the stores stay inside when n were before it.     *)
LEMMA ErasedFacts ==
  ASSUME NEW s, Sound(s), NEW n \in Nat, Col(s) - n >= -MaxLine
  PROVE  /\ Sound(Erased(s, n))
         /\ Col(Erased(s, n)) = Col(s) - n /\ Place(Erased(s, n)) = Place(s) - n
         /\ Place(s) >= n \/ n = 0 => Erased(s, n).stray = s.stray
         /\ \A i \in Cells : i < Place(s) - n => Erased(s, n).cells[i] = s.cells[i]
<1> DEFINE g == [y \in Screen \X (1..n) |-> PrintClearChar(y[1])]
<1>1. \A x \in Screen, k \in 1..n : g[<<x, k>>] = PrintClearChar(x)
  OBVIOUS
<1> HIDE DEF g
<1>2. s \in Screen /\ Col(s) \in Int /\ Place(s) \in Int /\ MaxLine \in Nat
  BY PlaceFacts, Numbers DEF Sound
<1>3. PICK f : Stepwise(f, Screen, s, g, n)
  <2>1. Stays(g, Screen, n)
    BY <1>1, ClearStays DEF Stays
  <2> QED
    BY <1>2, <2>1, StepsExist
<1>4. \A k \in 0..n : f[k] = IF k = 0 THEN s ELSE PrintClearChar(f[k - 1])
  <2> SUFFICES ASSUME NEW k \in 0..n PROVE f[k] = IF k = 0 THEN s ELSE PrintClearChar(f[k - 1])
    OBVIOUS
  <2>1. f[k] = IF k = 0 THEN s ELSE g[<<f[k - 1], k>>]
    BY <1>3 DEF Stepwise
  <2>2. k # 0 => k \in 1..n /\ k - 1 \in 0..n
    OBVIOUS
  <2>3. \A j \in 0..n : f[j] \in Screen
    BY <1>3 DEF Stepwise
  <2>4. k # 0 => g[<<f[k - 1], k>>] = PrintClearChar(f[k - 1])
    BY <1>1, <2>2, <2>3
  <2> QED
    BY <2>1, <2>4
<1>5. \E h : LeftBy(h, s, n)
  <2>1. f = [k \in 0..n |-> f[k]]
    BY <1>3 DEF Stepwise
  <2>2. [k \in 0..n |-> f[k]] = [k \in 0..n |-> IF k = 0 THEN s ELSE PrintClearChar(f[k - 1])]
    BY <1>4
  <2>3. LeftBy(f, s, n)
    BY <2>1, <2>2 DEF LeftBy
  <2> QED
    BY <2>3
<1> DEFINE to == CHOOSE h : LeftBy(h, s, n)
<1>6. LeftBy(to, s, n)
  BY <1>5, Zenon
<1>7. Erased(s, n) = to[n]
  BY DEF Erased, LeftBy
<1> HIDE DEF to
<1>8. to[0] = s /\ \A k \in 1..n : to[k] = PrintClearChar(to[k - 1])
  <2>1. \A k \in 0..n : to[k] = IF k = 0 THEN s ELSE PrintClearChar(to[k - 1])
    BY <1>6 DEF LeftBy
  <2> QED
    BY <2>1
<1> DEFINE OK(k) == /\ Sound(to[k])
                    /\ Col(to[k]) = Col(s) - k /\ Place(to[k]) = Place(s) - k
                    /\ Place(s) >= k \/ k = 0 => to[k].stray = s.stray
                    /\ \A i \in Cells : i < Place(s) - k => to[k].cells[i] = s.cells[i]
           T == {k \in Nat : k <= n => OK(k)}
<1>9. 0 \in T
  BY <1>2, <1>8
<1>10. ASSUME NEW k \in T PROVE k + 1 \in T
  <2> SUFFICES ASSUME k + 1 <= n PROVE OK(k + 1)
    OBVIOUS
  <2>1. k \in Nat /\ k + 1 \in 1..n /\ (k + 1) - 1 = k /\ OK(k)
    OBVIOUS
  <2>2. to[k + 1] = PrintClearChar(to[k])
    BY <1>8, <2>1
  <2>3. Sound(to[k]) /\ Col(to[k]) > -MaxLine
    BY <1>2, <2>1
  <2>4. LET r == PrintClearChar(to[k])
        IN  /\ Sound(r) /\ Col(r) = Col(to[k]) - 1 /\ Place(r) = Place(to[k]) - 1
            /\ Place(to[k]) >= 1 => r.stray = to[k].stray
            /\ \A i \in Cells : i # Place(to[k]) - 1 => r.cells[i] = to[k].cells[i]
    BY <2>3, ClearFacts
  <2>5. \A i \in Cells : i \in Int
    BY Numbers
  <2>6. \A i \in Cells : i < Place(s) - (k + 1) => to[k + 1].cells[i] = s.cells[i]
    BY <1>2, <2>1, <2>2, <2>4, <2>5
  <2>7. /\ Sound(to[k + 1])
        /\ Col(to[k + 1]) = Col(s) - (k + 1) /\ Place(to[k + 1]) = Place(s) - (k + 1)
        /\ Place(s) >= k + 1 \/ k + 1 = 0 => to[k + 1].stray = s.stray
    BY <1>2, <2>1, <2>2, <2>4
  <2> QED
    BY <2>6, <2>7
<1>11. T = Nat
  <2>1. T \in SUBSET Nat
    OBVIOUS
  <2> HIDE DEF T
  <2> QED
    BY <1>9, <1>10, <2>1, AllNumbers, Zenon
<1>12. OK(n)
  BY <1>11
<1> QED
  BY <1>7, <1>12

-----------------------------------------------------------------------------
(* The invariant.                                                          *)
ConsoleInv ==
  /\ TypeOK /\ Sound(t)
  /\ ~split => Shows(t, line)
  /\ Col(t) < 0 => Len(line) - Col(t) <= MaxLine /\ (split \/ line = <<>>)

(* A step that leaves the screen sound, with the next character in its row.*)
LEMMA PrintedInv ==
  ASSUME Sound(t'), t'.col <= NUM_COLS, line' \in Seq(Characters \ {Newline}), Len(line') <= MaxLine,
         waiting' \in Seq(Seq(Characters)), split' \in BOOLEAN,
         ~split' => Shows(t', line')
  PROVE  ConsoleInv'
<1>1. Col(t') >= 0 /\ Col(t') \in Int
  BY PlaceFacts DEF Sound
<1>2. TypeOK'
  BY DEF TypeOK, Sound
<1>3. ~(Col(t') < 0)
  BY <1>1
<1>4. Sound(t)' /\ Col(t)' = Col(t') /\ (Shows(t', line') => Shows(t, line)')
  BY DEF Sound, Col, Shows, InRow, BlankBehind, Place
<1> QED
  BY <1>2, <1>3, <1>4 DEF ConsoleInv

(* The first prompt.                                                       *)
LEMMA ConsoleInitInv == Init => ConsoleInv
<1> SUFFICES ASSUME Init PROVE ConsoleInv
  OBVIOUS
<1> DEFINE z == [cells |-> Empty, row |-> 0, col |-> 0, cursor |-> 0, stray |-> FALSE]
<1>1. PICK p \in Prompts : t = PrintStr(z, p)
  BY DEF Init
<1>2. p \in Seq(Characters)
  BY ConsoleAssumption
<1>3. /\ NUM_COLS \in Nat /\ NUM_COLS >= 1 /\ WORD \in Nat /\ WORD > 0 /\ NUM_ROWS \in Nat
      /\ NUM_ROWS >= 2 /\ Blank \in Characters
  BY Numbers, ConsoleAssumption
<1>4. Empty \in [Cells -> Characters]
  BY <1>3 DEF Empty
<1>5. z \in Screen
  BY <1>3, <1>4 DEF Screen
<1>6. z.cells = Empty /\ z.row = 0 /\ z.col = 0 /\ z.cursor = 0 /\ z.stray = FALSE
  OBVIOUS
<1> HIDE DEF z
<1>7. Place(z) = 0
  BY <1>3, <1>6 DEF Place, Col
<1>8. 0 % WORD = 0
  BY <1>3, ModFacts
<1>9. Sound(z)
  BY <1>3, <1>5, <1>6, <1>7, <1>8 DEF Sound, InRow, BlankBehind, Empty
<1>10. Sound(t) /\ t.col <= NUM_COLS
  BY <1>1, <1>2, <1>3, <1>6, <1>9, PrintStrFacts
<1>11. Col(t) >= 0 /\ Col(t) \in Int
  BY <1>10, PlaceFacts DEF Sound
<1>12. line = <<>> /\ waiting = Foreground /\ split = FALSE
  BY DEF Init
<1>13. TypeOK
  <2>1. line \in Seq(Characters \ {Newline}) /\ Len(line) <= MaxLine
    BY <1>12, Numbers
  <2> QED
    BY <1>10, <1>12, <2>1, ConsoleAssumption DEF TypeOK, Sound
<1>14. Shows(t, line)
  BY <1>12 DEF Shows
<1> QED
  BY <1>10, <1>11, <1>13, <1>14 DEF ConsoleInv

(* What the invariant says of the line.                                    *)
LEMMA InvFacts ==
  ASSUME ConsoleInv
  PROVE  /\ Sound(t) /\ line \in Seq(Characters \ {Newline}) /\ line \in Seq(Characters)
         /\ Len(line) \in Nat /\ Len(line) <= MaxLine /\ MaxLine \in Nat
         /\ waiting \in Seq(Seq(Characters)) /\ split \in BOOLEAN
         /\ Col(t) \in Int /\ Place(t) \in Int
         /\ Col(t) - Len(line) >= -MaxLine
         /\ ~split => Shows(t, line) /\ (line # <<>> => Place(t) >= Len(line) /\ Col(t) >= 0)
<1>1. /\ Sound(t) /\ line \in Seq(Characters \ {Newline}) /\ Len(line) <= MaxLine /\ MaxLine \in Nat
      /\ waiting \in Seq(Seq(Characters)) /\ split \in BOOLEAN
  BY Numbers DEF ConsoleInv, TypeOK
<1>2. line \in Seq(Characters) /\ Len(line) \in Nat
  BY <1>1
<1>3. Col(t) \in Int /\ Place(t) \in Int
  BY <1>1, PlaceFacts DEF Sound
<1>4. Col(t) - Len(line) >= -MaxLine
  BY <1>1, <1>2, <1>3 DEF ConsoleInv
<1>5. ASSUME ~split, line # <<>> PROVE Place(t) >= Len(line) /\ Col(t) >= 0
  <2>1. 1 \in 1..Len(line)
    BY <1>1, <1>5
  <2>2. Place(t) - Len(line) + 1 - 1 \in Cells
    BY <1>5, <2>1 DEF ConsoleInv, Shows
  <2>3. Place(t) >= Len(line)
    BY <1>2, <1>3, <2>2, Numbers
  <2> QED
    BY <1>3, <1>5, <2>3 DEF ConsoleInv
<1> QED
  BY <1>1, <1>2, <1>3, <1>4, <1>5 DEF ConsoleInv

(* Clearing the screen.                                                    *)
LEMMA EmptyFacts ==
  ASSUME NEW s, Sound(s)
  PROVE  /\ Sound(PrintClear(s)) /\ PrintClear(s).col = 0 /\ PrintClear(s).stray = s.stray
<1> DEFINE q == [s EXCEPT !.cells = Empty, !.row = 0, !.col = 0]
           r == PrintClear(s)
<1>1. /\ NUM_COLS \in Nat /\ WORD \in Nat /\ WORD > 0 /\ NUM_ROWS \in Nat
      /\ NUM_ROWS >= 2 /\ Blank \in Characters
  BY Numbers, ConsoleAssumption
<1>2. Empty \in [Cells -> Characters]
  BY <1>1 DEF Empty
<1>3. 0 \in 0..(NUM_ROWS - 1) /\ 0 \in 0..(WORD - 1)
  BY <1>1
<1>4. s \in Screen
  BY DEF Sound
<1>5. Looks(q, Empty, 0, 0, s.stray)
  BY <1>2, <1>3, <1>4 DEF Looks, Screen
<1>6. r = UpdateCursor(q)
  BY DEF PrintClear
<1> HIDE DEF q, r
<1>7. q \in Screen /\ InRow(q)
  BY <1>1, <1>5 DEF Looks, InRow
<1>8. /\ Looks(r, Empty, 0, 0, s.stray) /\ InRow(r) /\ r.cursor = Place(r) % WORD
  BY <1>5, <1>6, <1>7, CursorFacts DEF Looks
<1>9. Sound(r) /\ r.col = 0 /\ r.stray = s.stray
  BY <1>8 DEF Looks, Sound, BlankBehind, Empty
<1> QED
  BY <1>9 DEF r

(* A character is typed.                                                   *)
LEMMA TypeKeeps ==
  ASSUME ConsoleInv, NEW c \in Letters, Type(c)
  PROVE  ConsoleInv' /\ t'.stray = t.stray
<1>1. /\ Sound(t) /\ line \in Seq(Characters \ {Newline}) /\ line \in Seq(Characters)
      /\ Len(line) \in Nat /\ Len(line) <= MaxLine /\ MaxLine \in Nat
      /\ waiting \in Seq(Seq(Characters)) /\ split \in BOOLEAN
      /\ Col(t) \in Int
      /\ ~split => Shows(t, line) /\ (line # <<>> => Col(t) >= 0)
  BY InvFacts
<1>2. /\ Len(line) < MaxLine /\ line' = Append(line, c) /\ t' = PrintChar(t, c)
      /\ waiting' = waiting /\ split' = split
  BY DEF Type
<1>3. c \in Characters /\ c # Newline
  BY ConsoleAssumption
<1>4. Sound(t') /\ t'.stray = t.stray /\ t'.col <= NUM_COLS
  BY <1>1, <1>2, <1>3, PrintCharFacts
<1>5. ~split' => Shows(t', line')
  <2> SUFFICES ASSUME ~split PROVE Shows(t', line')
    BY <1>2
  <2>1. Shows(t, line) /\ (Col(t) < 0 => line = <<>>)
    BY <1>1
  <2> QED
    BY <1>1, <1>2, <1>3, <2>1, PrintCharFacts
<1>6. line' \in Seq(Characters \ {Newline}) /\ Len(line') <= MaxLine
  BY <1>1, <1>2, <1>3
<1> QED
  BY <1>1, <1>2, <1>4, <1>5, <1>6, PrintedInv

(* The last character of the line is erased.                               *)
LEMMA BackspaceKeeps ==
  ASSUME ConsoleInv, Backspace
  PROVE  ConsoleInv' /\ (~split => t'.stray = t.stray)
<1>1. /\ Sound(t) /\ line \in Seq(Characters \ {Newline}) /\ line \in Seq(Characters)
      /\ Len(line) \in Nat /\ Len(line) <= MaxLine /\ MaxLine \in Nat
      /\ waiting \in Seq(Seq(Characters)) /\ split \in BOOLEAN
      /\ Col(t) \in Int /\ Place(t) \in Int
      /\ Col(t) - Len(line) >= -MaxLine
      /\ ~split => Shows(t, line) /\ (line # <<>> => Place(t) >= Len(line) /\ Col(t) >= 0)
  BY InvFacts
<1>2. /\ line # <<>> /\ line' = Front(line) /\ t' = PrintClearChar(t) /\ waiting' = waiting
      /\ split' = (line' # <<>> /\ (split \/ AtRowStart(t)))
  BY DEF Backspace
<1>3. /\ Len(line) >= 1 /\ line' \in Seq(Characters \ {Newline}) /\ Len(line') = Len(line) - 1
      /\ \A i \in 1..(Len(line) - 1) : line'[i] = line[i]
  <2>1. Len(line) >= 1
    BY <1>1, <1>2
  <2>2. line' = SubSeq(line, 1, Len(line) - 1)
    BY <1>2 DEF Front
  <2>3. 1 \in Int /\ Len(line) - 1 \in Int
        /\ \A i \in 1..(Len(line) - 1) : line[i] \in Characters \ {Newline}
    BY <1>1
  <2>4. /\ line' \in Seq(Characters \ {Newline}) /\ Len(line') = Len(line) - 1
        /\ \A i \in 1..(Len(line) - 1) : line'[i] = line[i]
    <3> DEFINE n == Len(line) - 1
    <3>1. n \in Nat
      BY <1>1, <2>1
    <3> HIDE DEF n
    <3>2. /\ SubSeq(line, 1, n) \in Seq(Characters \ {Newline})
          /\ Len(SubSeq(line, 1, n)) = IF 1 <= n THEN n - 1 + 1 ELSE 0
          /\ \A i \in 1..(n - 1 + 1) : SubSeq(line, 1, n)[i] = line[1 + i - 1]
      BY <2>3, <3>1, SubSeqProperties DEF n
    <3>3. line' = SubSeq(line, 1, n)
      BY <2>2 DEF n
    <3>4. Len(line') = n /\ \A i \in 1..n : line'[i] = line[i]
      <4>1. n - 1 + 1 = n /\ \A i \in 1..n : 1 + i - 1 = i
        BY <3>1
      <4> QED
        BY <3>1, <3>2, <3>3, <4>1
    <3> QED
      BY <3>2, <3>3, <3>4 DEF n
  <2> QED
    BY <2>1, <2>4
<1>4. Col(t) > -MaxLine
  BY <1>1, <1>3
<1>5. /\ Sound(t') /\ Col(t') = Col(t) - 1 /\ Place(t') = Place(t) - 1
      /\ Place(t) >= 1 => t'.stray = t.stray
      /\ \A i \in Cells : i # Place(t) - 1 => t'.cells[i] = t.cells[i]
  BY <1>1, <1>2, <1>4, ClearFacts
<1>6. ~split => t'.stray = t.stray
  BY <1>1, <1>2, <1>3, <1>5
<1>7. ~split' => Shows(t', line')
  <2>1. CASE line' = <<>>
    BY <2>1 DEF Shows
  <2>2. CASE line' # <<>>
    <3> SUFFICES ASSUME ~split PROVE Shows(t', line')
      BY <1>2, <2>2
    <3> SUFFICES ASSUME NEW i \in 1..Len(line')
                 PROVE  LET cell == Place(t') - Len(line') + i - 1
                        IN cell \in Cells /\ t'.cells[cell] = line'[i]
      BY DEF Shows
    <3> DEFINE cell == Place(t') - Len(line') + i - 1
    <3>1. i \in 1..Len(line) /\ i \in 1..(Len(line) - 1)
          /\ cell = Place(t) - Len(line) + i - 1 /\ cell \in Int /\ cell # Place(t) - 1
      BY <1>1, <1>3, <1>5, SMTT(30)
    <3> HIDE DEF cell
    <3>2. cell \in Cells /\ t.cells[cell] = line[i]
      BY <1>1, <3>1 DEF Shows
    <3>3. t'.cells[cell] = line'[i]
      BY <1>3, <1>5, <3>1, <3>2
    <3> QED
      BY <3>2, <3>3 DEF cell
  <2> QED
    BY <2>1, <2>2
<1>8. Col(t') < 0 => Len(line') - Col(t') <= MaxLine /\ (split' \/ line' = <<>>)
  <2> SUFFICES ASSUME Col(t') < 0
               PROVE  Len(line') - Col(t') <= MaxLine /\ (split' \/ line' = <<>>)
    OBVIOUS
  <2> DEFINE l == Len(line)
             c == Col(t)
  <2>1. l \in Nat /\ c \in Int /\ Len(line') = l - 1 /\ Col(t') = c - 1
    BY <1>1, <1>3, <1>5
  <2> HIDE DEF l, c
  <2>2. Len(line') - Col(t') = l - c /\ c <= 0
    BY <2>1
  <2>3. Len(line') - Col(t') = Len(line) - Col(t) /\ Col(t) <= 0
    BY <2>2 DEF l, c
  <2>4. Len(line') - Col(t') <= MaxLine
    BY <1>1, <2>3
  <2>5. AtRowStart(t)
    <3>1. t.col \in 0..(WORD - 1) /\ NUM_COLS \in Nat
      BY <1>1, Numbers DEF Sound, Screen
    <3> QED
      BY <2>3, <3>1 DEF AtRowStart, Col
  <2> QED
    BY <1>2, <2>4, <2>5
<1>9. TypeOK'
  <2>1. split' \in BOOLEAN
    BY <1>2
  <2>2. t' \in Screen
    BY <1>5 DEF Sound
  <2>3. Len(line') <= MaxLine
    BY <1>1, <1>3
  <2>4. waiting' \in Seq(Seq(Characters))
    BY <1>1, <1>2
  <2> QED
    BY <1>3, <2>1, <2>2, <2>3, <2>4 DEF TypeOK
<1>10. Sound(t)' /\ Col(t)' = Col(t') /\ (Shows(t', line') => Shows(t, line)')
  BY <1>5 DEF Sound, Col, Shows, InRow, BlankBehind, Place
<1> QED
  BY <1>6, <1>7, <1>8, <1>9, <1>10 DEF ConsoleInv

(* An arrow replaces the line.                                             *)
LEMMA RecallKeeps ==
  ASSUME ConsoleInv, NEW text \in Recalled, Recall(text)
  PROVE  ConsoleInv' /\ (~split => t'.stray = t.stray)
<1>1. /\ Sound(t) /\ line \in Seq(Characters)
      /\ Len(line) \in Nat /\ Len(line) <= MaxLine /\ MaxLine \in Nat
      /\ waiting \in Seq(Seq(Characters)) /\ split \in BOOLEAN
      /\ Col(t) \in Int /\ Place(t) \in Int
      /\ Col(t) - Len(line) >= -MaxLine
      /\ ~split => (line # <<>> => Place(t) >= Len(line))
  BY InvFacts
<1>2. /\ line' = text /\ t' = PrintStr(Erased(t, Len(line)), text)
      /\ split' = FALSE /\ waiting' = waiting
  BY DEF Recall
<1>3. text \in Seq(Characters \ {Newline}) /\ text \in Seq(Characters) /\ Len(text) <= MaxLine
  BY ConsoleAssumption
<1> DEFINE r == Erased(t, Len(line))
<1>4. /\ Sound(r) /\ Col(r) = Col(t) - Len(line)
      /\ Place(t) >= Len(line) \/ Len(line) = 0 => r.stray = t.stray
  BY <1>1, ErasedFacts
<1> HIDE DEF r
<1>5. t' = PrintStr(r, text)
  BY <1>2 DEF r
<1>6. /\ Sound(t') /\ t'.stray = r.stray /\ (text = <<>> => t' = r)
      /\ text # <<>> => t'.col <= NUM_COLS
  BY <1>3, <1>4, <1>5, PrintStrFacts
<1>7. Shows(t', line')
  BY <1>2, <1>3, <1>4, <1>5, PrintedIsShown
<1>8. ~split => t'.stray = t.stray
  <2>1. Len(line) = 0 \/ line # <<>>
    BY <1>1
  <2> QED
    BY <1>1, <1>4, <1>6, <2>1
<1>9. CASE text # <<>>
  BY <1>1, <1>2, <1>3, <1>6, <1>7, <1>8, <1>9, PrintedInv
<1>10. CASE text = <<>>
  <2>1. Col(t') = Col(t) - Len(line) /\ Len(line') = 0 /\ line' = <<>>
    BY <1>2, <1>4, <1>6, <1>10
  <2>2. Len(line') - Col(t') <= MaxLine
    BY <1>1, <2>1
  <2>3. TypeOK'
    <3>1. t' \in Screen
      BY <1>6 DEF Sound
    <3>2. line' \in Seq(Characters \ {Newline}) /\ Len(line') <= MaxLine
      BY <1>2, <1>3
    <3> QED
      BY <1>1, <1>2, <3>1, <3>2 DEF TypeOK
  <2>4. Sound(t)' /\ Col(t)' = Col(t') /\ (Shows(t', line') => Shows(t, line)')
    BY <1>6 DEF Sound, Col, Shows, InRow, BlankBehind, Place
  <2> QED
    BY <1>7, <1>8, <2>1, <2>2, <2>3, <2>4 DEF ConsoleInv
<1> QED
  BY <1>9, <1>10

(* A step after which the line is empty or the screen no longer shows it.  *)
LEMMA StartsAnew ==
  ASSUME ConsoleInv, NEW s, Sound(s), s.stray = t.stray, NEW text \in Seq(Characters),
         text # <<>> \/ s.col <= NUM_COLS,
         t' = PrintStr(s, text),
         \/ line' = <<>> /\ split' = FALSE
         \/ line' = line /\ split' = (line # <<>>),
         waiting' \in Seq(Seq(Characters))
  PROVE  ConsoleInv' /\ t'.stray = t.stray
<1>1. line \in Seq(Characters \ {Newline}) /\ Len(line) <= MaxLine /\ MaxLine \in Nat
  BY InvFacts
<1>2. Sound(t') /\ t'.stray = s.stray /\ t'.col <= NUM_COLS
  BY PrintStrFacts
<1>3. line' \in Seq(Characters \ {Newline}) /\ Len(line') <= MaxLine
  <2>1. CASE line' = line
    BY <1>1, <2>1
  <2>2. CASE line' = <<>>
    <3>1. line' \in Seq(Characters \ {Newline}) /\ Len(line') = 0
      BY <2>2
    <3> QED
      BY <1>1, <3>1
  <2> QED
    BY <2>1, <2>2
<1>4. split' \in BOOLEAN /\ (~split' => line' = <<>>)
  OBVIOUS
<1>5. ~split' => Shows(t', line')
  BY <1>4 DEF Shows
<1> QED
  BY <1>2, <1>3, <1>4, <1>5, PrintedInv

(* Every step; nothing goes astray unless the line had been split.         *)
LEMMA ConsoleNextInv ==
  ASSUME ConsoleInv, [Next]_vars
  PROVE  ConsoleInv' /\ (~split => t'.stray = t.stray)
<1>1. /\ Sound(t) /\ waiting \in Seq(Seq(Characters)) /\ split \in BOOLEAN
      /\ NUM_COLS \in Nat /\ NUM_COLS >= 0
  BY InvFacts, Numbers
<1>2. /\ Newline \in Characters /\ "^" \in Characters /\ "C" \in Characters
      /\ \A p \in Prompts : p \in Seq(Characters)
      /\ \A out \in Outputs : out \in Seq(Characters)
  BY ConsoleAssumption
<1> DEFINE n == PrintChar(t, Newline)
<1>3. Sound(n) /\ n.stray = t.stray /\ n.col <= NUM_COLS
  BY <1>1, <1>2, PrintCharFacts
<1> HIDE DEF n
<1>4. CASE \E c \in Letters : Type(c)
  BY <1>4, TypeKeeps
<1>5. CASE Backspace
  BY <1>5, BackspaceKeeps
<1>6. CASE \E text \in Recalled : Recall(text)
  BY <1>6, RecallKeeps
<1>7. ASSUME NEW p \in Prompts, NEW out \in Outputs, Enter(out, p)
      PROVE  ConsoleInv' /\ t'.stray = t.stray
  <2>1. out \o p \in Seq(Characters)
    BY <1>2, ConcatProperties
  <2>2. t' = PrintStr(n, out \o p) /\ line' = <<>> /\ split' = FALSE /\ waiting' = waiting
    BY <1>7 DEF Enter, n
  <2> QED
    BY <1>1, <1>3, <2>1, <2>2, StartsAnew
<1>8. ASSUME NEW p \in Prompts, EnterClear(p)
      PROVE  ConsoleInv' /\ t'.stray = t.stray
  <2> DEFINE e == PrintClear(n)
  <2>1. Sound(e) /\ e.col = 0 /\ e.stray = n.stray
    BY <1>3, EmptyFacts
  <2>2. t' = PrintStr(e, p) /\ line' = <<>> /\ split' = FALSE /\ waiting' = waiting
    BY <1>8 DEF EnterClear, n
  <2> HIDE DEF e
  <2>3. e.stray = t.stray /\ e.col <= NUM_COLS
    BY <1>1, <1>3, <2>1
  <2> QED
    BY <1>1, <1>2, <2>1, <2>2, <2>3, StartsAnew
<1>9. ASSUME NEW p \in Prompts, ControlC(p)
      PROVE  ConsoleInv' /\ t'.stray = t.stray
  <2> DEFINE mark == <<"^", "C", Newline>>
  <2>1. mark \in Seq(Characters) /\ Len(mark) = 3
    BY <1>2
  <2>2. t' = PrintStr(t, mark \o p) /\ line' = <<>> /\ split' = FALSE /\ waiting' = waiting
    BY <1>9 DEF ControlC
  <2> HIDE DEF mark
  <2>3. mark \o p \in Seq(Characters) /\ Len(mark \o p) = 3 + Len(p) /\ Len(p) \in Nat
    <3>1. p \in Seq(Characters) /\ Len(p) \in Nat
      BY <1>2
    <3>2. mark \o p \in Seq(Characters) /\ Len(mark \o p) = Len(mark) + Len(p)
      BY <2>1, <3>1, ConcatProperties
    <3> QED
      BY <2>1, <3>1, <3>2
  <2>4. mark \o p # <<>>
    BY <2>3
  <2> QED
    BY <1>1, <2>2, <2>3, <2>4, StartsAnew
<1>10. ASSUME NEW p \in Prompts, ControlL(p)
       PROVE  ConsoleInv' /\ t'.stray = t.stray
  <2> DEFINE e == PrintClear(t)
  <2>1. Sound(e) /\ e.col = 0 /\ e.stray = t.stray
    BY <1>1, EmptyFacts
  <2>2. t' = PrintStr(e, p) /\ line' = line /\ split' = (line # <<>>) /\ waiting' = waiting
    BY <1>10 DEF ControlL
  <2> HIDE DEF e
  <2>3. e.col <= NUM_COLS
    BY <1>1, <2>1
  <2> QED
    BY <1>1, <1>2, <2>1, <2>2, <2>3, StartsAnew
<1>11. CASE ForegroundPrints
  <2>1. /\ waiting # <<>> /\ t' = PrintStr(t, Head(waiting)) /\ waiting' = Tail(waiting)
        /\ split' = (line # <<>>) /\ line' = line
    BY <1>11 DEF ForegroundPrints
  <2>2. Head(waiting) \in Seq(Characters) /\ waiting' \in Seq(Seq(Characters))
    BY <1>1, <2>1
  <2>3. CASE Head(waiting) # <<>> \/ t.col <= NUM_COLS
    BY <1>1, <2>1, <2>2, <2>3, StartsAnew
  <2>4. CASE ~(Head(waiting) # <<>> \/ t.col <= NUM_COLS)
    <3>1. t' = t
      BY <1>1, <2>1, <2>2, <2>4, PrintStrFacts
    <3>2. Len(line) \in Nat /\ line \in Seq(Characters \ {Newline}) /\ Len(line) <= MaxLine
      BY InvFacts
    <3>3. TypeOK'
      BY <1>1, <2>1, <2>2, <3>1, <3>2 DEF TypeOK, Sound
    <3>4. Sound(t)' /\ Col(t)' = Col(t)
      BY <1>1, <3>1 DEF Sound, Col, InRow, BlankBehind, Place
    <3>5. (~split => Shows(t, line))'
      <4>1. ~split' => line' = <<>>
        BY <2>1
      <4>2. line' = <<>> => Shows(t, line)'
        BY DEF Shows
      <4> QED
        BY <4>1, <4>2
    <3>6. (Col(t) < 0 => Len(line) - Col(t) <= MaxLine /\ (split \/ line = <<>>))'
      BY <2>1, <3>1, <3>4 DEF ConsoleInv
    <3> QED
      BY <3>1, <3>3, <3>4, <3>5, <3>6 DEF ConsoleInv
  <2> QED
    BY <2>3, <2>4
<1>12. CASE UNCHANGED vars
  BY <1>12 DEF ConsoleInv, vars, TypeOK, Sound, Col, Shows, InRow, BlankBehind, Place
<1> QED
  BY <1>4, <1>5, <1>6, <1>7, <1>8, <1>9, <1>10, <1>11, <1>12 DEF Next

(* The screen is sound, and it shows the line unless something was printed *)
(* behind it or the erasing went past the start of a row.                  *)
THEOREM ConsoleInvariant == Spec => []ConsoleInv
<1>1. Init => ConsoleInv
  BY ConsoleInitInv
<1>2. ConsoleInv /\ [Next]_vars => ConsoleInv'
  BY ConsoleNextInv
<1> QED
  BY <1>1, <1>2, PTL DEF Spec

(* What the user sees behind the prompt is what Enter runs, whatever was   *)
(* typed, erased, recalled or printed, and however often the screen moved  *)
(* up: the handler never looks at the screen to find out.                  *)
THEOREM ScreenShowsTheLine == Spec => []ScreenEndsWithLine
<1>1. ConsoleInv => ScreenEndsWithLine
  BY DEF ConsoleInv, Sound, BlankBehind, Shows, ScreenEndsWithLine, ShowsLine, NothingBehind,
         CursorFollows
<1> QED
  BY <1>1, ConsoleInvariant, PTL

(* print.c compares no index with the size of the text memory; still no    *)
(* step stores outside it while the line is in one piece.                  *)
THEOREM NothingIsStoredOutside == Spec => NoStray
<1>1. ConsoleInv /\ [Next]_vars => [t'.stray => t.stray \/ split]_vars
  BY ConsoleNextInv
<1> QED
  BY <1>1, ConsoleInvariant, PTL DEF Spec, NoStray

-----------------------------------------------------------------------------
(* What was on the screen stays there, or moves up.                        *)

(* Where the next character really goes; what is before e stands k rows    *)
(* higher, which it does only after the bottom row was reached.            *)
Reach(s) == s.row * NUM_COLS + (IF Col(s) < 0 THEN NUM_COLS ELSE Col(s))
Rises(s, r, k, e) ==
  /\ k \in Nat /\ s.row <= r.row /\ (k = 0 \/ r.row = NUM_ROWS - 1)
  /\ \A i \in (k * NUM_COLS)..(e - 1) : r.cells[i - k * NUM_COLS] = s.cells[i]

LEMMA ReachFacts ==
  ASSUME NEW s, Sound(s)
  PROVE  /\ Reach(s) \in Int /\ Reach(s) <= N /\ Place(s) \in Int /\ Place(s) <= Reach(s)
         /\ s.row \in 0..(NUM_ROWS - 1) /\ s.row * NUM_COLS \in Nat
         /\ s.row * NUM_COLS <= Reach(s) /\ Reach(s) <= s.row * NUM_COLS + NUM_COLS
         /\ s.col <= NUM_COLS => Reach(s) = Place(s) /\ Col(s) = s.col
         /\ s.col >= NUM_COLS => Reach(s) = s.row * NUM_COLS + NUM_COLS
         /\ s.row = NUM_ROWS - 1 => Reach(s) >= N - NUM_COLS
<1>1. NUM_COLS \in Nat /\ NUM_COLS >= 1 /\ N \in Nat
  BY Numbers
<1>2. s \in Screen /\ InRow(s)
  BY DEF Sound
<1> DEFINE b == s.row * NUM_COLS
<1>3. /\ s.row \in 0..(NUM_ROWS - 1) /\ Col(s) \in Int /\ Col(s) <= NUM_COLS
      /\ Place(s) = b + Col(s)
      /\ s.col <= NUM_COLS <=> Col(s) >= 0
      /\ Col(s) >= 0 => s.col = Col(s)
  BY <1>2, PlaceFacts
<1>4. b \in Nat /\ b <= N - NUM_COLS /\ (s.row = NUM_ROWS - 1 => b = N - NUM_COLS)
  BY <1>3, RowFacts
<1>5. Reach(s) = b + (IF Col(s) < 0 THEN NUM_COLS ELSE Col(s))
  BY DEF Reach
<1>6. s.col \in Nat
  BY <1>2, Numbers DEF Screen
<1> HIDE DEF b
<1>7. /\ Reach(s) \in Int /\ Reach(s) <= N /\ Place(s) \in Int /\ Place(s) <= Reach(s)
      /\ b <= Reach(s) /\ Reach(s) <= b + NUM_COLS
      /\ s.col <= NUM_COLS => Reach(s) = Place(s) /\ Col(s) = s.col
      /\ s.col >= NUM_COLS => Reach(s) = b + NUM_COLS
      /\ s.row = NUM_ROWS - 1 => Reach(s) >= N - NUM_COLS
  BY <1>1, <1>3, <1>4, <1>5, <1>6
<1> QED
  BY <1>3, <1>4, <1>7 DEF b

(* Moving on: the rows add up.                                             *)
LEMMA RisesOn ==
  ASSUME NEW s, NEW r, NEW u, NEW k \in Nat, NEW j \in Nat, NEW e \in Int, NEW d \in Int,
         Rises(s, r, k, e), Rises(r, u, j, d), e <= d + k * NUM_COLS,
         s.row \in Nat, r.row \in Nat, u.row \in 0..(NUM_ROWS - 1)
  PROVE  Rises(s, u, k + j, e)
<1>1. k \in Nat /\ j \in Nat /\ s.row <= r.row /\ r.row <= u.row
      /\ (k = 0 \/ r.row = NUM_ROWS - 1) /\ (j = 0 \/ u.row = NUM_ROWS - 1)
  BY DEF Rises
<1>2. NUM_COLS \in Nat /\ NUM_ROWS \in Nat
  BY Numbers
<1> DEFINE kc == k * NUM_COLS
           jc == j * NUM_COLS
<1>3. kc \in Nat /\ jc \in Nat /\ (k + j) * NUM_COLS = kc + jc
  BY <1>1, <1>2
<1>4. ASSUME NEW i \in (kc + jc)..(e - 1) PROVE u.cells[i - (kc + jc)] = s.cells[i]
  <2>1. /\ \A x \in kc..(e - 1) : r.cells[x - kc] = s.cells[x]
        /\ \A x \in jc..(d - 1) : u.cells[x - jc] = r.cells[x]
    BY DEF Rises
  <2> HIDE DEF kc, jc
  <2>2. i \in Int /\ i \in kc..(e - 1) /\ i - kc \in jc..(d - 1) /\ (i - kc) - jc = i - (kc + jc)
    BY <1>3, <1>4 DEF kc
  <2> QED
    BY <2>1, <2>2
<1>5. k + j \in Nat /\ s.row <= u.row /\ (k + j = 0 \/ u.row = NUM_ROWS - 1)
  BY <1>1, <1>2
<1> QED
  BY <1>3, <1>4, <1>5 DEF Rises

(* A newline: by one row if it is the last one.                            *)
LEMMA NewlineRises ==
  ASSUME NEW s, Sound(s)
  PROVE  \E k \in Nat : /\ Rises(s, PrintNewline(s), k, N)
                        /\ Reach(PrintNewline(s)) + k * NUM_COLS = s.row * NUM_COLS + NUM_COLS
<1> DEFINE r == PrintNewline(s)
<1>1. /\ NUM_COLS \in Nat /\ NUM_COLS >= 1 /\ N \in Nat /\ Cells = 0..(N - 1) /\ WORD \in Nat
      /\ NUM_ROWS \in Nat /\ NUM_ROWS >= 2 /\ WORD > N
  BY Numbers
<1>2. s \in Screen /\ s.row \in 0..(NUM_ROWS - 1) /\ s.cells \in [Cells -> Characters]
  BY DEF Sound, Screen
<1>3. /\ s.row * NUM_COLS \in Nat
      /\ s.row = NUM_ROWS - 1 => s.row * NUM_COLS = N - NUM_COLS
      /\ s.row < NUM_ROWS - 1 => (s.row + 1) * NUM_COLS = s.row * NUM_COLS + NUM_COLS
  BY <1>2, RowFacts
<1>4. 0 \in 0..(WORD - 1) /\ Blank \in Characters
  BY <1>1, ConsoleAssumption
<1>5. Sound(r) /\ r.col = 0
  BY NewlineFacts
<1>6. Reach(r) = r.row * NUM_COLS
  <2>1. Reach(r) = Place(r) /\ Col(r) = 0
    BY <1>1, <1>5, ReachFacts
  <2>2. r.row * NUM_COLS \in Nat
    BY <1>5, ReachFacts
  <2> QED
    BY <2>1, <2>2 DEF Place
<1>7. CASE s.row < NUM_ROWS - 1
  <2> DEFINE q == [s EXCEPT !.row = s.row + 1, !.col = 0]
  <2>1. r = UpdateCursor(q)
    BY <1>7 DEF PrintNewline
  <2>2. Looks(q, s.cells, s.row + 1, 0, s.stray)
    <3>1. s.row + 1 \in 0..(NUM_ROWS - 1)
      BY <1>1, <1>2, <1>7
    <3> QED
      BY <1>2, <1>4, <3>1, Updates
  <2> HIDE DEF q, r
  <2>3. r.cells = s.cells /\ r.row = s.row + 1
    BY <2>1, <2>2, CursorFacts DEF Looks
  <2>4. 0 * NUM_COLS = 0
    BY <1>1
  <2>5. Rises(s, r, 0, N)
    <3>1. \A i \in 0..(N - 1) : i - 0 = i
      BY <1>1
    <3> QED
      BY <1>2, <2>3, <2>4, <3>1 DEF Rises
  <2>6. Reach(r) + 0 * NUM_COLS = s.row * NUM_COLS + NUM_COLS
    <3>1. Reach(r) = (s.row + 1) * NUM_COLS
      BY <1>6, <2>3
    <3>2. (s.row + 1) * NUM_COLS = s.row * NUM_COLS + NUM_COLS
      BY <1>3, <1>7
    <3> DEFINE b == s.row * NUM_COLS
    <3>3. b \in Nat /\ Reach(r) = b + NUM_COLS
      BY <1>3, <3>1, <3>2
    <3> HIDE DEF b
    <3>4. Reach(r) + 0 * NUM_COLS = b + NUM_COLS
      BY <1>1, <2>4, <3>3
    <3> QED
      BY <3>4 DEF b
  <2> QED
    BY <2>5, <2>6 DEF r
<1>8. CASE ~(s.row < NUM_ROWS - 1)
  <2> DEFINE q == [s EXCEPT !.cells = Scrolled(s), !.col = 0]
  <2>1. r = UpdateCursor(q)
    BY <1>8 DEF PrintNewline
  <2>2. Looks(q, Scrolled(s), s.row, 0, s.stray)
    <3>1. Scrolled(s) \in [Cells -> Characters]
      BY <1>2, <1>4 DEF Scrolled
    <3> QED
      BY <1>2, <1>4, <3>1, Updates
  <2> HIDE DEF q, r
  <2>3. r.cells = Scrolled(s) /\ r.row = s.row
    BY <2>1, <2>2, CursorFacts DEF Looks
  <2>4. 1 * NUM_COLS = NUM_COLS /\ s.row = NUM_ROWS - 1
    BY <1>1, <1>2, <1>8
  <2>5. Rises(s, r, 1, N)
    <3>1. ASSUME NEW i \in NUM_COLS..(N - 1) PROVE r.cells[i - NUM_COLS] = s.cells[i]
      <4>1. i - NUM_COLS \in Cells /\ (i - NUM_COLS) + NUM_COLS = i /\ i \in Cells
        BY <1>1
      <4> QED
        BY <2>3, <4>1 DEF Scrolled
    <3> QED
      BY <1>2, <2>3, <2>4, <3>1 DEF Rises
  <2>6. Reach(r) + 1 * NUM_COLS = s.row * NUM_COLS + NUM_COLS
    BY <1>6, <2>3, <2>4
  <2> QED
    BY <2>5, <2>6 DEF r
<1> QED
  BY <1>7, <1>8

(* A character: it goes to the next place, what was behind it stays.       *)
LEMMA CharRises ==
  ASSUME NEW s, Sound(s), NEW c \in Characters
  PROVE  \E k \in Nat :
           LET r == PrintChar(s, c)
               goes == Reach(r) + k * NUM_COLS
           IN  /\ Rises(s, r, k, Place(s))
               /\ k * NUM_COLS \in Nat
               /\ Place(s) <= Place(r) + k * NUM_COLS
               /\ c # Newline => goes = Reach(s) + 1
               /\ goes <= Reach(s) + NUM_COLS
<1>1. /\ NUM_COLS \in Nat /\ NUM_COLS >= 1 /\ N \in Nat /\ WORD \in Nat /\ WORD > N
      /\ Cells = 0..(N - 1) /\ NUM_ROWS \in Nat
  BY Numbers
<1>2. /\ Reach(s) \in Int /\ Place(s) \in Int /\ Place(s) <= Reach(s) /\ Reach(s) <= N
      /\ s.row \in 0..(NUM_ROWS - 1)
      /\ s.row * NUM_COLS \in Nat /\ s.row * NUM_COLS <= Reach(s)
      /\ Reach(s) <= s.row * NUM_COLS + NUM_COLS
      /\ s.col <= NUM_COLS => Reach(s) = Place(s) /\ Col(s) = s.col
      /\ s.col >= NUM_COLS => Reach(s) = s.row * NUM_COLS + NUM_COLS
  BY ReachFacts
<1>3. PICK k1 \in Nat : /\ Rises(s, PrintNewline(s), k1, N)
                        /\ Reach(PrintNewline(s)) + k1 * NUM_COLS = s.row * NUM_COLS + NUM_COLS
  BY NewlineRises
<1>4. k1 * NUM_COLS \in Nat
  BY <1>1
<1>5. Sound(PrintNewline(s)) /\ PrintNewline(s).col = 0
  BY NewlineFacts
<1>6. \A i \in (k1 * NUM_COLS)..(Place(s) - 1) : i \in (k1 * NUM_COLS)..(N - 1)
  BY <1>1, <1>2, <1>4
<1>7. Rises(s, PrintNewline(s), k1, Place(s))
  BY <1>3, <1>6 DEF Rises
<1>8. /\ Reach(PrintNewline(s)) = Place(PrintNewline(s)) /\ Reach(PrintNewline(s)) \in Int
      /\ PrintNewline(s).row \in 0..(NUM_ROWS - 1)
  BY <1>1, <1>5, ReachFacts
<1>9. CASE c = Newline
  <2>1. PrintChar(s, c) = PrintNewline(s)
    BY <1>9 DEF PrintChar
  <2>2. /\ Place(s) <= Place(PrintNewline(s)) + k1 * NUM_COLS
        /\ Reach(PrintNewline(s)) + k1 * NUM_COLS <= Reach(s) + NUM_COLS
    <3> DEFINE p == Place(s)
               e == Reach(s)
               b == s.row * NUM_COLS
               w == Reach(PrintNewline(s))
               kc == k1 * NUM_COLS
    <3>1. /\ p \in Int /\ e \in Int /\ b \in Nat /\ w \in Int /\ kc \in Nat /\ NUM_COLS \in Nat
          /\ p <= e /\ b <= e /\ e <= b + NUM_COLS
      BY <1>1, <1>2, <1>4, <1>8
    <3>2. w + kc = b + NUM_COLS /\ Place(PrintNewline(s)) = w
      BY <1>3, <1>8
    <3> HIDE DEF p, e, b, w, kc
    <3>3. p <= w + kc /\ w + kc <= e + NUM_COLS
      BY <3>1, <3>2
    <3> QED
      BY <3>2, <3>3 DEF p, e, w, kc
  <2> QED
    BY <1>4, <1>7, <1>9, <2>1, <2>2
<1>10. CASE c # Newline
  <2> DEFINE f == IF s.col >= NUM_COLS THEN PrintNewline(s) ELSE s
             p == Put(f, c)
             q == [p EXCEPT !.col = (@ + 1) % WORD]
             r == PrintChar(s, c)
  <2>1. r = UpdateCursor(q)
    BY <1>10 DEF PrintChar
  <2>2. s.col \in Nat /\ s.row \in Nat
    BY Numbers DEF Sound, Screen
  <2>3. PICK k \in Nat : /\ Rises(s, f, k, Place(s)) /\ k * NUM_COLS \in Nat
                         /\ Place(f) + k * NUM_COLS = Reach(s)
    <3>1. CASE s.col >= NUM_COLS
      <4>1. f = PrintNewline(s)
        BY <3>1
      <4> HIDE DEF f
      <4>2. Place(f) + k1 * NUM_COLS = Reach(s)
        BY <1>2, <1>3, <1>8, <3>1, <4>1
      <4> QED
        BY <1>4, <1>7, <4>1, <4>2
    <3>2. CASE ~(s.col >= NUM_COLS)
      <4>1. f = s /\ Reach(s) = Place(s) /\ 0 * NUM_COLS = 0
        BY <1>1, <1>2, <2>2, <3>2
      <4> HIDE DEF f
      <4>2. \A i \in 0..(Place(s) - 1) : i - 0 = i
        OBVIOUS
      <4>3. Rises(s, s, 0, Place(s))
        BY <2>2, <4>1, <4>2 DEF Rises
      <4> QED
        BY <1>2, <4>1, <4>3
    <3> QED
      BY <3>1, <3>2
  <2>4. Sound(f) /\ f.col < NUM_COLS
    BY <1>1, <1>5, <2>2
  <2> HIDE DEF f, r
  <2>5. f \in Screen /\ InRow(f) /\ f.col \in 0..(WORD - 1) /\ f.cells \in [Cells -> Characters]
    BY <2>4 DEF Sound, Screen
  <2>6. f.row \in 0..(NUM_ROWS - 1) /\ Place(f) \in Int
    BY <2>4, ReachFacts
  <2>7. Place(f) \in Cells
    <3>1. f.row * NUM_COLS \in Nat /\ f.row * NUM_COLS <= N - NUM_COLS
      BY <2>6, RowFacts
    <3>2. Place(f) = f.row * NUM_COLS + f.col
      BY <1>1, <2>4, <2>5 DEF Place, Col
    <3> QED
      BY <1>1, <2>4, <2>5, <3>1, <3>2
  <2> DEFINE cs == [f.cells EXCEPT ![Place(f)] = c]
             m == (p.col + 1) % WORD
  <2>8. Looks(p, cs, f.row, f.col, f.stray)
    BY <2>5, <2>7, PutFacts
  <2>9. \A i \in Cells : i # Place(f) => cs[i] = f.cells[i]
    BY <2>5, <2>7
  <2> HIDE DEF cs, p
  <2>10. m = f.col + 1 /\ m \in 0..(WORD - 1)
    <3> DEFINE a == f.col + 1
    <3>1. a \in Nat /\ a < WORD /\ WORD > 0 /\ a \in 0..(WORD - 1)
      <4>1. NUM_COLS <= N
        BY Numbers
      <4> QED
        BY <1>1, <2>4, <2>5, <4>1
    <3> HIDE DEF a
    <3>2. a % WORD = a
      BY <1>1, <3>1, ModFacts
    <3>3. p.col = f.col
      BY <2>8 DEF Looks
    <3> QED
      BY <3>1, <3>2, <3>3 DEF a
  <2>11. q = [p EXCEPT !.col = m]
    OBVIOUS
  <2> HIDE DEF q, m
  <2>12. Looks(q, cs, f.row, m, f.stray)
    <3>1. p \in Screen /\ p.cells = cs /\ p.row = f.row /\ p.stray = f.stray
      BY <2>8 DEF Looks
    <3>2. m \in 0..(WORD - 1)
      BY <2>10
    <3>3. Looks([p EXCEPT !.col = m], p.cells, p.row, m, p.stray)
      BY <3>1, <3>2, Updates, Zenon
    <3> QED
      BY <2>11, <3>1, <3>3
  <2>13. r.cells = cs /\ r.row = f.row /\ r.col = f.col + 1
    BY <2>1, <2>10, <2>12, CursorFacts DEF Looks
  <2>14. Sound(r)
    BY PrintCharFacts DEF r
  <2>15. Place(r) = Place(f) + 1 /\ Reach(r) = Place(r)
    <3>1. r.col <= NUM_COLS /\ f.row * NUM_COLS \in Nat
      BY <1>1, <2>4, <2>5, <2>6, <2>13, RowFacts
    <3>2. Reach(r) = Place(r) /\ Col(r) = f.col + 1
      <4>1. Reach(r) = Place(r) /\ Col(r) = r.col
        BY <2>14, <3>1, ReachFacts
      <4> QED
        BY <2>13, <4>1
    <3>3. Col(f) = f.col
      BY <1>1, <2>4, <2>5 DEF Col
    <3> QED
      BY <2>5, <2>13, <3>1, <3>2, <3>3 DEF Place
  <2>16. Rises(s, r, k, Place(s))
    <3> DEFINE kc == k * NUM_COLS
    <3> SUFFICES ASSUME NEW i \in kc..(Place(s) - 1) PROVE r.cells[i - kc] = s.cells[i]
      BY <2>3, <2>13 DEF Rises
    <3>1. f.cells[i - kc] = s.cells[i]
      BY <2>3 DEF Rises
    <3>2. kc \in Nat /\ Place(f) + kc = Reach(s)
      BY <2>3
    <3> HIDE DEF kc
    <3>3. i - kc \in Cells /\ i - kc # Place(f)
      BY <1>1, <1>2, <2>6, <3>2
    <3> QED
      BY <2>9, <2>13, <3>1, <3>3
  <2> DEFINE kc == k * NUM_COLS
  <2>17. kc \in Nat /\ Place(f) + kc = Reach(s)
    BY <2>3
  <2> HIDE DEF kc
  <2>18. /\ Place(s) <= Place(r) + kc /\ Reach(r) + kc = Reach(s) + 1
         /\ Reach(r) + kc <= Reach(s) + NUM_COLS
    <3> DEFINE e == Reach(s)
               g == Place(f)
    <3>1. e \in Int /\ g \in Int /\ Place(s) \in Int /\ Place(s) <= e /\ NUM_COLS \in Nat /\ NUM_COLS >= 1
      BY <1>1, <1>2, <2>6
    <3>2. g + kc = e /\ Place(r) = g + 1 /\ Reach(r) = g + 1
      BY <2>15, <2>17
    <3> HIDE DEF e, g
    <3> QED
      BY <2>17, <3>1, <3>2 DEF e
  <2> QED
    BY <2>3, <2>16, <2>18 DEF kc, r
<1> QED
  BY <1>9, <1>10

(* How many newlines the beginning of a text has.                          *)
LEMMA CountFacts ==
  ASSUME NEW text \in Seq(Characters), NEW j \in Nat, j + 1 <= Len(text)
  PROVE  LET count(x) == Cardinality({i \in 1..x : text[i] = Newline})
         IN  /\ count(j) \in Nat /\ count(0) = 0
             /\ count(j + 1) = IF text[j + 1] = Newline THEN count(j) + 1 ELSE count(j)
<1> DEFINE S(x) == {i \in 1..x : text[i] = Newline}
<1>1. IsFiniteSet(S(j)) /\ Cardinality(S(j)) \in Nat
  <2>1. IsFiniteSet(1..j)
    BY FS_Interval
  <2>2. S(j) \subseteq 1..j
    OBVIOUS
  <2> QED
    BY <2>1, <2>2, FS_Subset, FS_CardinalityType
<1>2. Cardinality(S(0)) = 0
  <2>1. S(0) = {}
    OBVIOUS
  <2> QED
    BY <2>1, FS_EmptySet
<1>3. Cardinality(S(j + 1)) = IF text[j + 1] = Newline THEN Cardinality(S(j)) + 1 ELSE Cardinality(S(j))
  <2>1. CASE text[j + 1] = Newline
    <3>1. S(j + 1) = S(j) \cup {j + 1} /\ j + 1 \notin S(j)
      BY <2>1
    <3>2. Cardinality(S(j) \cup {j + 1}) = Cardinality(S(j)) + 1
      BY <1>1, <3>1, FS_AddElement
    <3> QED
      BY <2>1, <3>1, <3>2
  <2>2. CASE text[j + 1] # Newline
    <3>1. S(j + 1) = S(j)
      BY <2>2
    <3> QED
      BY <2>2, <3>1
  <2> QED
    BY <2>1, <2>2
<1> QED
  BY <1>1, <1>2, <1>3

(* A text.                                                                 *)
LEMMA StrRises ==
  ASSUME NEW s, Sound(s), NEW text \in Seq(Characters)
  PROVE  \E k \in Nat :
           LET r == PrintStr(s, text)
           IN  /\ Rises(s, r, k, Place(s)) /\ k * NUM_COLS \in Nat /\ Newlines(text) \in Nat
               /\ Reach(r) + k * NUM_COLS <= Reach(s) + Len(text) + Newlines(text) * NUM_COLS
               /\ Newlines(text) = 0 => Reach(r) + k * NUM_COLS = Reach(s) + Len(text)
<1> DEFINE L == Len(text)
           count(x) == Cardinality({i \in 1..x : text[i] = Newline})
<1>1. PICK f : /\ PrintStr(s, text) = f[L]
               /\ f[0] = s
               /\ \A k \in 0..L : Sound(f[k])
               /\ \A k \in 1..L : f[k] = PrintChar(f[k - 1], text[k])
  BY ShownFacts
<1>2. L \in Nat /\ \A k \in 1..L : text[k] \in Characters
  OBVIOUS
<1>3. \A j \in Nat : j + 1 <= L =>
        /\ count(j) \in Nat /\ count(0) = 0
        /\ count(j + 1) = IF text[j + 1] = Newline THEN count(j) + 1 ELSE count(j)
  BY CountFacts
<1>4. count(0) = 0
  <2>1. {i \in 1..0 : text[i] = Newline} = {}
    OBVIOUS
  <2> QED
    BY <2>1, FS_EmptySet
<1>5. NUM_COLS \in Nat
  BY Numbers
<1> HIDE DEF L, count
<1> DEFINE So(j, k) ==
             /\ Rises(s, f[j], k, Place(s)) /\ k * NUM_COLS \in Nat /\ count(j) \in Nat
             /\ Place(s) <= Place(f[j]) + k * NUM_COLS
             /\ Reach(f[j]) + k * NUM_COLS <= Reach(s) + j + count(j) * NUM_COLS
             /\ count(j) = 0 => Reach(f[j]) + k * NUM_COLS = Reach(s) + j
           T == {j \in Nat : j <= L => \E k \in Nat : So(j, k)}
<1>6. Place(s) \in Int /\ Reach(s) \in Int /\ s.row \in 0..(NUM_ROWS - 1)
  BY ReachFacts
<1>7. 0 \in T
  <2>1. 0 * NUM_COLS = 0
    BY <1>5
  <2>2. \A i \in 0..(Place(s) - 1) : i - 0 = i
    OBVIOUS
  <2>3. Rises(s, s, 0, Place(s))
    BY <1>6, <2>1, <2>2 DEF Rises
  <2>4. So(0, 0)
    BY <1>1, <1>4, <1>6, <2>1, <2>3
  <2> QED
    BY <2>4
<1>8. ASSUME NEW j \in T PROVE j + 1 \in T
  <2> SUFFICES ASSUME j + 1 <= L PROVE \E k \in Nat : So(j + 1, k)
    OBVIOUS
  <2>1. j \in Nat /\ j <= L /\ j + 1 \in 1..L /\ (j + 1) - 1 = j /\ j \in 0..L /\ j + 1 \in 0..L
    BY <1>2
  <2>2. PICK k \in Nat : So(j, k)
    BY <2>1
  <2> DEFINE c == text[j + 1]
             r == f[j + 1]
  <2>3. Sound(f[j]) /\ Sound(r) /\ r = PrintChar(f[j], c) /\ c \in Characters
    BY <1>1, <1>2, <2>1
  <2> HIDE DEF r, c
  <2>4. PICK d \in Nat : /\ Rises(f[j], r, d, Place(f[j])) /\ d * NUM_COLS \in Nat
                         /\ Place(f[j]) <= Place(r) + d * NUM_COLS
                         /\ c # Newline => Reach(r) + d * NUM_COLS = Reach(f[j]) + 1
                         /\ Reach(r) + d * NUM_COLS <= Reach(f[j]) + NUM_COLS
    BY <2>3, CharRises
  <2>5. /\ Place(f[j]) \in Int /\ Reach(f[j]) \in Int /\ f[j].row \in 0..(NUM_ROWS - 1)
        /\ Place(r) \in Int /\ Reach(r) \in Int /\ r.row \in 0..(NUM_ROWS - 1)
    BY <2>3, ReachFacts
  <2>6. Rises(s, r, k + d, Place(s)) /\ (k + d) * NUM_COLS = k * NUM_COLS + d * NUM_COLS
    <3>1. s.row \in Nat /\ f[j].row \in Nat /\ Rises(s, f[j], k, Place(s))
          /\ Place(s) <= Place(f[j]) + k * NUM_COLS
      BY <1>6, <2>2, <2>5
    <3>2. Place(s) \in Int /\ Place(f[j]) \in Int /\ r.row \in 0..(NUM_ROWS - 1)
      BY <1>6, <2>5
    <3>3. Rises(f[j], r, d, Place(f[j]))
      BY <2>4
    <3> DEFINE a == f[j]
               x == r
               e == Place(s)
               g == Place(a)
    <3>4. Rises(s, a, k, e) /\ Rises(a, x, d, g)
      BY <3>1, <3>3
    <3>5. /\ e <= g + k * NUM_COLS /\ e \in Int /\ g \in Int
          /\ s.row \in Nat /\ a.row \in Nat /\ x.row \in 0..(NUM_ROWS - 1)
      BY <3>1, <3>2
    <3> HIDE DEF a, x, e, g
    <3>6. Rises(s, x, k + d, e)
      BY <3>4, <3>5, RisesOn
    <3>7. (k + d) * NUM_COLS = k * NUM_COLS + d * NUM_COLS
      BY <1>5
    <3> QED
      BY <3>6, <3>7 DEF e, x
  <2>7. /\ count(j) \in Nat
        /\ count(j + 1) = IF c = Newline THEN count(j) + 1 ELSE count(j)
    BY <1>3, <2>1 DEF c
  <2> DEFINE kc == k * NUM_COLS
             dc == d * NUM_COLS
             nc == count(j) * NUM_COLS
             mc == count(j + 1) * NUM_COLS
  <2>8. /\ kc \in Nat /\ dc \in Nat /\ nc \in Nat /\ count(j + 1) \in Nat
        /\ c = Newline => mc = nc + NUM_COLS
        /\ c # Newline => mc = nc
        /\ mc \in Nat
    <3>1. kc \in Nat /\ dc \in Nat
      BY <2>2, <2>4
    <3>2. nc \in Nat /\ (count(j) + 1) * NUM_COLS = nc + NUM_COLS
      BY <1>5, <2>7
    <3>3. count(j + 1) \in Nat
      BY <2>7
    <3>4. CASE c = Newline
      <4>1. mc = (count(j) + 1) * NUM_COLS
        BY <2>7, <3>4
      <4> HIDE DEF nc, mc
      <4> QED
        BY <1>5, <3>1, <3>2, <3>3, <3>4, <4>1
    <3>5. CASE c # Newline
      <4>1. mc = nc
        BY <2>7, <3>5
      <4> HIDE DEF nc, mc
      <4> QED
        BY <3>1, <3>2, <3>3, <3>5, <4>1
    <3> QED
      BY <3>4, <3>5
  <2>9. /\ Place(s) <= Place(f[j]) + kc
        /\ Reach(f[j]) + kc <= Reach(s) + j + nc
        /\ count(j) = 0 => Reach(f[j]) + kc = Reach(s) + j
    BY <2>2
  <2>10. /\ Place(f[j]) <= Place(r) + dc
         /\ c # Newline => Reach(r) + dc = Reach(f[j]) + 1
         /\ Reach(r) + dc <= Reach(f[j]) + NUM_COLS
    BY <2>4
  <2> HIDE DEF kc, dc, nc, mc
  <2>11. Place(s) <= Place(r) + (kc + dc)
    <3> DEFINE a == Place(s)
               b == Place(f[j])
               g == Place(r)
    <3>1. a \in Int /\ b \in Int /\ g \in Int
      BY <1>6, <2>5
    <3>2. a <= b + kc /\ b <= g + dc
      BY <2>9, <2>10
    <3> HIDE DEF a, b, g
    <3>3. a <= g + (kc + dc)
      BY <2>8, <3>1, <3>2
    <3> QED
      BY <3>3 DEF a, g
  <2>12. Reach(r) + (kc + dc) <= Reach(s) + (j + 1) + mc
    <3> DEFINE a == Reach(s)
               b == Reach(f[j])
               g == Reach(r)
    <3>1. a \in Int /\ b \in Int /\ g \in Int /\ j \in Nat
      BY <1>6, <2>1, <2>5
    <3>2. b + kc <= a + j + nc /\ g + dc <= b + NUM_COLS
      BY <2>9, <2>10
    <3>3. c # Newline => g + dc = b + 1
      BY <2>10
    <3> HIDE DEF a, b, g
    <3>4. g + (kc + dc) <= a + (j + 1) + mc
      <4>1. CASE c = Newline
        BY <1>5, <2>8, <3>1, <3>2, <4>1
      <4>2. CASE c # Newline
        BY <1>5, <2>8, <3>1, <3>2, <3>3, <4>2
      <4> QED
        BY <4>1, <4>2
    <3> QED
      BY <3>4 DEF a, g
  <2>13. count(j + 1) = 0 => Reach(r) + (kc + dc) = Reach(s) + (j + 1)
    <3> SUFFICES ASSUME count(j + 1) = 0 PROVE Reach(r) + (kc + dc) = Reach(s) + (j + 1)
      OBVIOUS
    <3>1. c # Newline /\ count(j) = 0
      BY <2>7
    <3> DEFINE a == Reach(s)
               b == Reach(f[j])
               g == Reach(r)
    <3>2. a \in Int /\ b \in Int /\ g \in Int /\ j \in Nat
      BY <1>6, <2>1, <2>5
    <3>3. b + kc = a + j /\ g + dc = b + 1
      BY <2>9, <2>10, <3>1
    <3> HIDE DEF a, b, g
    <3>4. g + (kc + dc) = a + (j + 1)
      BY <2>8, <3>2, <3>3
    <3> QED
      BY <3>4 DEF a, g
  <2>14. So(j + 1, k + d)
    BY <2>6, <2>8, <2>11, <2>12, <2>13 DEF r, kc, dc, mc
  <2> QED
    BY <2>14
<1>9. T = Nat
  <2>1. T \in SUBSET Nat
    OBVIOUS
  <2> HIDE DEF T
  <2> QED
    BY <1>7, <1>8, <2>1, AllNumbers, Zenon
<1>10. PICK k \in Nat : So(L, k)
  BY <1>2, <1>9
<1>11. count(L) = Newlines(text)
  BY DEF count, L, Newlines
<1> QED
  BY <1>1, <1>10, <1>11 DEF L

(* How many rows that is: what is printed comes to no more than so many    *)
(* rows, so that the next place would be that far beyond the bottom row.   *)
LEMMA RowsFacts ==
  ASSUME NEW k \in Nat, NEW m \in Nat, NEW L \in Nat, NEW a \in Int, NEW b \in Int,
         a + k * NUM_COLS <= b + L + m * NUM_COLS, b <= N, a >= N - NUM_COLS
  PROVE  /\ k <= 1 + m + L \div NUM_COLS
         /\ a + k * NUM_COLS = b + L /\ L <= N - NUM_COLS => k <= NUM_ROWS
<1>1. NUM_COLS \in Nat /\ NUM_COLS >= 1 /\ NUM_ROWS \in Nat /\ N \in Nat /\ N = NUM_COLS * NUM_ROWS
  BY Numbers DEF N
<1> DEFINE q == L \div NUM_COLS
           kc == k * NUM_COLS
           mc == m * NUM_COLS
           qc == q * NUM_COLS
<1>2. q \in Int /\ q >= 0 /\ L < qc + NUM_COLS /\ qc \in Int /\ kc \in Int /\ mc \in Int
  <2>1. q \in Nat /\ L % NUM_COLS \in 0..(NUM_COLS - 1) /\ L = NUM_COLS * q + (L % NUM_COLS)
    BY <1>1
  <2> HIDE DEF q
  <2>2. NUM_COLS * q = q * NUM_COLS /\ q * NUM_COLS \in Nat
    BY <1>1, <2>1
  <2> QED
    BY <1>1, <2>1, <2>2
<1> HIDE DEF q
<1>3. k <= 1 + m + q
  <2> SUFFICES ASSUME ~(k <= 1 + m + q) PROVE FALSE
    OBVIOUS
  <2> DEFINE d == k - (2 + m + q)
  <2>1. d \in Nat /\ k = 2 + m + q + d
    BY <1>2
  <2> HIDE DEF d
  <2>2. (2 + m + q + d) * NUM_COLS = 2 * NUM_COLS + mc + qc + d * NUM_COLS /\ d * NUM_COLS \in Nat
    BY <1>1, <1>2, <2>1
  <2>3. kc >= 2 * NUM_COLS + mc + qc
    BY <1>1, <1>2, <2>1, <2>2
  <2>4. a + kc <= b + L + mc
    OBVIOUS
  <2> HIDE DEF kc, mc, qc
  <2> QED
    BY <1>1, <1>2, <2>3, <2>4
<1>4. ASSUME a + kc = b + L, L <= N - NUM_COLS PROVE k <= NUM_ROWS
  <2> SUFFICES ASSUME ~(k <= NUM_ROWS) PROVE FALSE
    OBVIOUS
  <2> DEFINE d == k - (NUM_ROWS + 1)
  <2>1. d \in Nat /\ k = NUM_ROWS + 1 + d
    BY <1>1
  <2> HIDE DEF d
  <2>2. (NUM_ROWS + 1 + d) * NUM_COLS = N + NUM_COLS + d * NUM_COLS /\ d * NUM_COLS \in Nat
    BY <1>1, <2>1
  <2>3. kc >= N + NUM_COLS
    BY <1>1, <1>2, <2>1, <2>2
  <2>4. a + kc = b + L /\ L <= N - NUM_COLS
    BY <1>4
  <2> HIDE DEF kc
  <2> QED
    BY <1>1, <1>2, <2>3, <2>4
<1> QED
  BY <1>3, <1>4 DEF q

(* What is printed on a screen that has the cells of t before the line.    *)
LEMMA PrintedKeeps ==
  ASSUME Sound(t), Len(line) \in Nat,
         NEW s, Sound(s), Start <= Place(s),
         \A i \in Cells : i < Start => s.cells[i] = t.cells[i],
         NEW m \in Nat, NEW L \in Nat, NEW k \in Nat,
         Sound(t'), Rises(s, t', k, Place(s)),
         Reach(t') + k * NUM_COLS <= Reach(s) + L + m * NUM_COLS
  PROVE  /\ k \in MovedUp(1 + m + L \div NUM_COLS) /\ Kept(k)
         /\ Reach(t') + k * NUM_COLS = Reach(s) + L /\ L <= N - NUM_COLS => k \in MovedUp(NUM_ROWS)
<1>1. NUM_COLS \in Nat /\ N \in Nat /\ Cells = 0..(N - 1) /\ NUM_COLS >= 1 /\ NUM_ROWS \in Nat
  BY Numbers
<1> DEFINE a == Reach(t')
           b == Reach(s)
<1>2. /\ Place(t) \in Int /\ Place(t) <= N
      /\ Place(s) \in Int /\ Place(s) <= N /\ b \in Int /\ b <= N
      /\ a \in Int /\ (t'.row = NUM_ROWS - 1 => a >= N - NUM_COLS)
  <2>1. /\ Place(t) \in Int /\ Reach(t) \in Int /\ Place(t) <= Reach(t) /\ Reach(t) <= N
        /\ Place(s) \in Int /\ b \in Int /\ Place(s) <= b /\ b <= N
    BY ReachFacts
  <2>2. a \in Int /\ (t'.row = NUM_ROWS - 1 => a >= N - NUM_COLS)
    BY ReachFacts
  <2> QED
    BY <1>1, <2>1, <2>2, SMTT(30)
<1>3. Start \in Int
  BY <1>2 DEF Start
<1>4. Kept(k)
  <2> DEFINE kc == k * NUM_COLS
  <2>1. kc \in Nat
    BY <1>1
  <2> SUFFICES ASSUME NEW i \in kc..(Start - 1) PROVE t'.cells[i - kc] = t.cells[i]
    BY DEF Kept
  <2>2. \A x \in kc..(Place(s) - 1) : t'.cells[x - kc] = s.cells[x]
    BY DEF Rises
  <2> HIDE DEF kc
  <2>3. i \in kc..(Place(s) - 1) /\ i \in Cells /\ i < Start
    <3> DEFINE e == Start
               g == Place(s)
    <3>1. e \in Int /\ g \in Int /\ e <= g /\ g <= N
      BY <1>2, <1>3
    <3>2. i \in kc..(e - 1)
      OBVIOUS
    <3> HIDE DEF e, g
    <3>3. i \in kc..(g - 1) /\ i \in 0..(N - 1) /\ i < e
      BY <1>1, <2>1, <3>1, <3>2
    <3> QED
      BY <1>1, <3>3 DEF e, g
  <2> QED
    BY <2>2, <2>3
<1>5. k = 0 \/ t'.row = NUM_ROWS - 1
  BY DEF Rises
<1>6. a + k * NUM_COLS <= b + L + m * NUM_COLS
  OBVIOUS
<1> SUFFICES /\ k \in MovedUp(1 + m + L \div NUM_COLS)
             /\ a + k * NUM_COLS = b + L /\ L <= N - NUM_COLS => k \in MovedUp(NUM_ROWS)
  BY <1>4
<1> HIDE DEF a, b
<1>7. CASE t'.row = NUM_ROWS - 1
  <2>1. /\ k <= 1 + m + L \div NUM_COLS
        /\ a + k * NUM_COLS = b + L /\ L <= N - NUM_COLS => k <= NUM_ROWS
    BY <1>2, <1>6, <1>7, RowsFacts
  <2>2. L \div NUM_COLS \in Int
    BY <1>1
  <2>3. k \in 0..(1 + m + L \div NUM_COLS)
    BY <2>1, <2>2
  <2> QED
    BY <1>1, <1>7, <2>1, <2>3 DEF MovedUp
<1>8. CASE t'.row # NUM_ROWS - 1
  BY <1>5, <1>8 DEF MovedUp
<1> QED
  BY <1>7, <1>8

(* The same for a text that is printed there, with its rows counted.       *)
LEMMA TextKeeps ==
  ASSUME Sound(t), Len(line) \in Nat,
         NEW s, Sound(s), Start <= Place(s),
         \A i \in Cells : i < Start => s.cells[i] = t.cells[i],
         NEW text \in Seq(Characters), t' = PrintStr(s, text)
  PROVE  /\ KeptBehind(Rows(text))
         /\ text \in Seq(Characters \ {Newline}) /\ Len(text) <= N - NUM_COLS =>
              \E k \in MovedUp(NUM_ROWS) :
                 Kept(k) /\ k \in Nat /\ Reach(t') + k * NUM_COLS = Reach(s) + Len(text)
<1>1. Sound(t')
  BY PrintStrFacts
<1>2. PICK k \in Nat :
        /\ Rises(s, t', k, Place(s)) /\ k * NUM_COLS \in Nat /\ Newlines(text) \in Nat
        /\ Reach(t') + k * NUM_COLS <= Reach(s) + Len(text) + Newlines(text) * NUM_COLS
        /\ Newlines(text) = 0 => Reach(t') + k * NUM_COLS = Reach(s) + Len(text)
  BY StrRises
<1>3. Len(text) \in Nat
  OBVIOUS
<1>4. /\ k \in MovedUp(1 + Newlines(text) + Len(text) \div NUM_COLS) /\ Kept(k)
      /\ Reach(t') + k * NUM_COLS = Reach(s) + Len(text) /\ Len(text) <= N - NUM_COLS =>
           k \in MovedUp(NUM_ROWS)
  BY <1>1, <1>2, <1>3, PrintedKeeps
<1>5. ASSUME text \in Seq(Characters \ {Newline}) PROVE Newlines(text) = 0
  <2>1. {i \in 1..Len(text) : text[i] = Newline} = {}
    BY <1>5
  <2> QED
    BY <2>1, FS_EmptySet DEF Newlines
<1> QED
  BY <1>2, <1>4, <1>5 DEF KeptBehind, Rows

(* The parts of Start.                                                     *)
LEMMA StartFacts ==
  /\ Start = Place(t) - Len(line)
  /\ Start' = Place(t') - Len(line')
BY DEF Start, Place, Col

(* A character is typed.                                                   *)
LEMMA TypeStaysBehind ==
  ASSUME ConsoleInv, NEW c \in Letters, Type(c)
  PROVE  /\ KeptBehind(Rows(<<c>>))
         /\ Col(t) >= 0 =>
              \E k \in MovedUp(NUM_ROWS) : Kept(k) /\ Start' = Start - k * NUM_COLS
<1>1. /\ Sound(t) /\ line \in Seq(Characters) /\ Len(line) \in Nat /\ MaxLine \in Nat
      /\ Place(t) \in Int /\ NUM_COLS \in Nat /\ N \in Nat /\ MaxLine <= N - NUM_COLS
  BY InvFacts, Numbers
<1>2. c \in Characters /\ c # Newline
  BY ConsoleAssumption
<1>3. Len(line) < MaxLine /\ line' = Append(line, c) /\ t' = PrintChar(t, c)
  BY DEF Type
<1>4. /\ <<c>> \in Seq(Characters \ {Newline}) /\ <<c>> \in Seq(Characters) /\ Len(<<c>>) = 1
      /\ <<c>>[1] = c
  BY <1>2
<1>5. t' = PrintStr(t, <<c>>)
  <2> DEFINE x == <<c>>
  <2>1. x \in Seq(Characters) /\ Len(x) = 1 /\ x[1] = c
    BY <1>4
  <2> HIDE DEF x
  <2>2. PICK f : /\ PrintStr(t, x) = f[Len(x)]
                 /\ f[0] = t
                 /\ \A k \in 1..Len(x) : f[k] = PrintChar(f[k - 1], x[k])
    BY <1>1, <2>1, ShownFacts, SMTT(30)
  <2>3. f[1] = PrintChar(f[1 - 1], x[1]) /\ 1 - 1 = 0
    BY <2>1, <2>2
  <2>4. PrintStr(t, x) = PrintChar(t, c)
    BY <2>1, <2>2, <2>3
  <2> QED
    BY <1>3, <2>4 DEF x
<1>6. Start <= Place(t) /\ Start \in Int
  BY <1>1, StartFacts
<1>7. /\ KeptBehind(Rows(<<c>>))
      /\ \E k \in MovedUp(NUM_ROWS) : Kept(k) /\ k \in Nat /\ Reach(t') + k * NUM_COLS = Reach(t) + 1
  <2>1. 1 <= N - NUM_COLS
    BY <1>1, <1>3
  <2> QED
    BY <1>1, <1>4, <1>5, <1>6, <2>1, TextKeeps
<1>8. ASSUME Col(t) >= 0
      PROVE  \E k \in MovedUp(NUM_ROWS) : Kept(k) /\ Start' = Start - k * NUM_COLS
  <2>1. PICK k \in MovedUp(NUM_ROWS) : Kept(k) /\ k \in Nat /\ Reach(t') + k * NUM_COLS = Reach(t) + 1
    BY <1>7
  <2>2. Sound(t') /\ t'.col <= NUM_COLS
    BY <1>1, <1>2, <1>3, PrintCharFacts
  <2>3. t.col <= NUM_COLS
    BY <1>1, <1>8, PlaceFacts DEF Sound
  <2>4. Reach(t') = Place(t') /\ Reach(t) = Place(t) /\ Place(t') \in Int
    BY <1>1, <2>2, <2>3, ReachFacts
  <2>5. Len(line') = Len(line) + 1
    BY <1>1, <1>3
  <2>6. k * NUM_COLS \in Nat
    BY <1>1, <2>1
  <2>7. Place(t') = Place(t) + 1 - k * NUM_COLS
    BY <1>1, <2>1, <2>4, <2>6
  <2>8. Start' = Start - k * NUM_COLS
    <3> DEFINE kc == k * NUM_COLS
    <3>1. Len(line) \in Nat /\ Place(t) \in Int /\ kc \in Nat
      BY <1>1, <2>6, StartFacts
    <3> HIDE DEF kc
    <3>2. Start = Place(t) - Len(line) /\ Start' = Place(t') - Len(line')
      BY DEF Start
    <3>3. Place(t') = Place(t) + 1 - kc
      BY <2>7 DEF kc
    <3>4. Start' = Start - kc
      BY <2>4, <2>5, <3>1, <3>2, <3>3
    <3> QED
      BY <3>4 DEF kc
  <2> QED
    BY <2>1, <2>8
<1> QED
  BY <1>7, <1>8

(* Nothing before the erased character is disturbed.                       *)
LEMMA BackspaceStaysBehind ==
  ASSUME ConsoleInv, Backspace
  PROVE  /\ KeptBehind(0)
         /\ \E k \in MovedUp(NUM_ROWS) : Kept(k) /\ Start' = Start - k * NUM_COLS
<1>1. /\ Sound(t) /\ line \in Seq(Characters) /\ Len(line) \in Nat /\ MaxLine \in Nat
      /\ Place(t) \in Int /\ Col(t) \in Int /\ Col(t) - Len(line) >= -MaxLine
      /\ NUM_COLS \in Nat /\ NUM_ROWS \in Nat /\ N \in Nat /\ Cells = 0..(N - 1)
  BY InvFacts, Numbers
<1>2. line # <<>> /\ line' = Front(line) /\ t' = PrintClearChar(t)
  BY DEF Backspace
<1>3. Len(line) >= 1 /\ Len(line') = Len(line) - 1
  <2>1. Len(line) >= 1
    BY <1>1, <1>2
  <2> DEFINE n == Len(line) - 1
  <2>2. n \in Nat /\ line' = SubSeq(line, 1, n)
    BY <1>1, <1>2, <2>1 DEF Front
  <2>3. \A i \in 1..n : line[i] \in Characters
    BY <1>1
  <2> HIDE DEF n
  <2>4. Len(SubSeq(line, 1, n)) = IF 1 <= n THEN n - 1 + 1 ELSE 0
    BY <2>2, <2>3, SubSeqProperties
  <2>5. Len(line') = n
    BY <2>2, <2>4
  <2> QED
    BY <2>1, <2>5 DEF n
<1>4. /\ Sound(t') /\ Place(t') = Place(t) - 1
      /\ \A i \in Cells : i # Place(t) - 1 => t'.cells[i] = t.cells[i]
  <2>1. Col(t) > -MaxLine
    BY <1>1, <1>3
  <2> QED
    BY <1>1, <1>2, <2>1, ClearFacts
<1>5. Start \in Int /\ Start <= Place(t) - 1 /\ Start' = Start /\ Place(t) <= N
  <2>1. Place(t) <= N
    BY <1>1, PlaceFacts DEF Sound
  <2> QED
    BY <1>1, <1>3, <1>4, <2>1, StartFacts
<1>6. 0 * NUM_COLS = 0
  BY <1>1
<1>7. Kept(0)
  <2> SUFFICES ASSUME NEW i \in 0..(Start - 1) PROVE t'.cells[i - 0] = t.cells[i]
    BY <1>6 DEF Kept
  <2>1. i \in Cells /\ i # Place(t) - 1 /\ i - 0 = i
    BY <1>1, <1>5
  <2> QED
    BY <1>4, <2>1
<1>8. 0 \in MovedUp(0) /\ 0 \in MovedUp(NUM_ROWS) /\ Start' = Start - 0 * NUM_COLS
  BY <1>1, <1>5, <1>6 DEF MovedUp
<1> QED
  BY <1>7, <1>8 DEF KeptBehind

(* An arrow disturbs nothing before the line it replaces.                  *)
LEMMA RecallStaysBehind ==
  ASSUME ConsoleInv, NEW text \in Recalled, Recall(text)
  PROVE  /\ KeptBehind(Rows(text))
         /\ Len(line) <= Col(t) =>
              \E k \in MovedUp(NUM_ROWS) : Kept(k) /\ Start' = Start - k * NUM_COLS
<1>1. /\ Sound(t) /\ line \in Seq(Characters) /\ Len(line) \in Nat /\ MaxLine \in Nat
      /\ Place(t) \in Int /\ Col(t) \in Int /\ Col(t) - Len(line) >= -MaxLine
      /\ NUM_COLS \in Nat /\ N \in Nat /\ MaxLine <= N - NUM_COLS
  BY InvFacts, Numbers
<1>2. line' = text /\ t' = PrintStr(Erased(t, Len(line)), text)
  BY DEF Recall
<1>3. /\ text \in Seq(Characters \ {Newline}) /\ text \in Seq(Characters)
      /\ Len(text) \in Nat /\ Len(text) <= MaxLine
  BY ConsoleAssumption
<1> DEFINE s == Erased(t, Len(line))
<1>4. /\ Sound(s) /\ Col(s) = Col(t) - Len(line) /\ Place(s) = Place(t) - Len(line)
      /\ \A i \in Cells : i < Place(t) - Len(line) => s.cells[i] = t.cells[i]
  BY <1>1, ErasedFacts
<1> HIDE DEF s
<1>5. t' = PrintStr(s, text)
  BY <1>2 DEF s
<1>6. Start = Place(s) /\ Start <= Place(s) /\ \A i \in Cells : i < Start => s.cells[i] = t.cells[i]
  BY <1>1, <1>4, StartFacts
<1>7. Len(text) <= N - NUM_COLS
  BY <1>1, <1>3
<1>8. /\ KeptBehind(Rows(text))
      /\ \E k \in MovedUp(NUM_ROWS) :
            Kept(k) /\ k \in Nat /\ Reach(t') + k * NUM_COLS = Reach(s) + Len(text)
  BY <1>1, <1>3, <1>4, <1>5, <1>6, <1>7, TextKeeps
<1>9. ASSUME Len(line) <= Col(t)
      PROVE  \E k \in MovedUp(NUM_ROWS) : Kept(k) /\ Start' = Start - k * NUM_COLS
  <2>1. PICK k \in MovedUp(NUM_ROWS) :
          Kept(k) /\ k \in Nat /\ Reach(t') + k * NUM_COLS = Reach(s) + Len(text)
    BY <1>8
  <2>2. s.col <= NUM_COLS
    <3>1. Col(s) >= 0
      BY <1>1, <1>4, <1>9
    <3> QED
      BY <1>4, <3>1, PlaceFacts DEF Sound
  <2>3. Sound(t') /\ t'.col <= NUM_COLS
    BY <1>3, <1>4, <1>5, <2>2, PrintStrFacts
  <2>4. Reach(t') = Place(t') /\ Reach(s) = Place(s) /\ Place(t') \in Int
    BY <1>4, <2>2, <2>3, ReachFacts
  <2>5. k * NUM_COLS \in Nat /\ Len(line') = Len(text)
    BY <1>1, <1>2, <2>1
  <2>6. Start' = Place(t') - Len(text)
    BY <2>5, StartFacts
  <2>7. Start \in Int
    BY <1>1, <1>4, <1>6
  <2> DEFINE p == Place(t')
             q == Start
             kc == k * NUM_COLS
  <2>8. p \in Int /\ q \in Int /\ kc \in Nat /\ p + kc = q + Len(text) /\ Start' = p - Len(text)
    BY <1>6, <2>1, <2>4, <2>5, <2>6, <2>7
  <2> HIDE DEF p, q, kc
  <2>9. Start' = q - kc
    BY <1>3, <2>8
  <2> QED
    BY <2>1, <2>9 DEF q, kc
<1> QED
  BY <1>8, <1>9

(* What is printed behind the line.                                        *)
LEMMA PrintStaysBehind ==
  ASSUME ConsoleInv, NEW text \in Seq(Characters)
  PROVE  /\ t' = PrintStr(t, text) => KeptBehind(Rows(text))
         /\ t' = PrintStr(PrintChar(t, Newline), text) => KeptBehind(1 + Rows(text))
<1>1. /\ Sound(t) /\ Len(line) \in Nat /\ Place(t) \in Int
      /\ NUM_COLS \in Nat /\ Newline \in Characters
  BY InvFacts, Numbers, ConsoleAssumption
<1>2. Start <= Place(t)
  BY <1>1, StartFacts
<1>3. t' = PrintStr(t, text) => KeptBehind(Rows(text))
  BY <1>1, <1>2, TextKeeps
<1>4. ASSUME t' = PrintStr(PrintChar(t, Newline), text) PROVE KeptBehind(1 + Rows(text))
  <2> DEFINE n == PrintChar(t, Newline)
             L == Len(text)
             m == Newlines(text)
  <2>1. Sound(n) /\ Sound(t')
    BY <1>1, <1>4, PrintCharFacts, PrintStrFacts
  <2>2. PICK j \in Nat : /\ Rises(t, n, j, Place(t)) /\ j * NUM_COLS \in Nat
                         /\ Place(t) <= Place(n) + j * NUM_COLS
                         /\ Reach(n) + j * NUM_COLS <= Reach(t) + NUM_COLS
    BY <1>1, CharRises
  <2>3. PICK k \in Nat : /\ Rises(n, t', k, Place(n)) /\ k * NUM_COLS \in Nat /\ m \in Nat
                         /\ Reach(t') + k * NUM_COLS <= Reach(n) + L + m * NUM_COLS
    BY <1>4, <2>1, StrRises
  <2> HIDE DEF n, m
  <2>4. /\ Place(n) \in Int /\ Reach(n) \in Int /\ Reach(t) \in Int /\ Reach(t') \in Int
        /\ t.row \in Nat /\ n.row \in Nat /\ t'.row \in 0..(NUM_ROWS - 1)
    <3>1. /\ Place(n) \in Int /\ Reach(n) \in Int /\ n.row \in 0..(NUM_ROWS - 1)
          /\ Reach(t) \in Int /\ t.row \in 0..(NUM_ROWS - 1)
      BY <1>1, <2>1, ReachFacts
    <3>2. Reach(t') \in Int /\ t'.row \in 0..(NUM_ROWS - 1)
      BY <2>1, ReachFacts
    <3> QED
      BY <3>1, <3>2, Numbers
  <2>5. Rises(t, t', j + k, Place(t))
    <3> DEFINE e == Place(t)
               g == Place(n)
               u == t'
    <3>1. Rises(t, n, j, e) /\ Rises(n, u, k, g)
      BY <2>2, <2>3
    <3>2. /\ e <= g + j * NUM_COLS /\ e \in Int /\ g \in Int
          /\ t.row \in Nat /\ n.row \in Nat /\ u.row \in 0..(NUM_ROWS - 1)
      BY <1>1, <2>2, <2>4
    <3> HIDE DEF e, g, u
    <3>3. Rises(t, u, j + k, e)
      BY <3>1, <3>2, RisesOn
    <3> QED
      BY <3>3 DEF e, u
  <2>6. Reach(t') + (j + k) * NUM_COLS <= Reach(t) + L + (1 + m) * NUM_COLS
    <3>1. /\ (j + k) * NUM_COLS = j * NUM_COLS + k * NUM_COLS
          /\ (1 + m) * NUM_COLS = NUM_COLS + m * NUM_COLS /\ m * NUM_COLS \in Nat /\ L \in Nat
      BY <1>1, <2>3
    <3> DEFINE a == Reach(t')
               b == Reach(n)
               c == Reach(t)
               jc == j * NUM_COLS
               kc == k * NUM_COLS
               mc == m * NUM_COLS
    <3>2. /\ a \in Int /\ b \in Int /\ c \in Int /\ jc \in Nat /\ kc \in Nat /\ mc \in Nat /\ L \in Nat
          /\ b + jc <= c + NUM_COLS /\ a + kc <= b + L + mc
      BY <2>2, <2>3, <2>4, <3>1
    <3> HIDE DEF a, b, c, jc, kc, mc, L
    <3>3. a + (jc + kc) <= c + L + (NUM_COLS + mc)
      BY <1>1, <3>2
    <3> QED
      BY <3>1, <3>3 DEF a, c, jc, kc, mc
  <2>7. j + k \in Nat /\ 1 + m \in Nat /\ L \in Nat
    BY <2>3
  <2>8. j + k \in MovedUp(1 + (1 + m) + L \div NUM_COLS) /\ Kept(j + k)
    BY <1>1, <1>2, <2>1, <2>5, <2>6, <2>7, PrintedKeeps
  <2>9. 1 + (1 + m) + L \div NUM_COLS = 1 + Rows(text)
    <3>1. L \div NUM_COLS \in Int
      BY <2>7, Numbers
    <3> QED
      BY <2>3, <3>1 DEF Rows, m
  <2> QED
    BY <2>8, <2>9 DEF KeptBehind
<1> QED
  BY <1>3, <1>4

(* The handler never reads the screen, and an arrow erases as many         *)
(* characters as the line has; still whatever stood before the line stays, *)
(* or moves up with it by whole rows, and the line stays behind it.        *)
THEOREM WhatWasShownStays == Spec => PastKept
<1>1. ASSUME ConsoleInv, Next PROVE PastStep
  <2>1. \A c \in Letters : Type(c) => KeptBehind(Rows(<<c>>))
    BY <1>1, TypeStaysBehind
  <2>2. Backspace => KeptBehind(0)
    BY <1>1, BackspaceStaysBehind
  <2>3. \A text \in Recalled : Recall(text) => KeptBehind(Rows(text))
    BY <1>1, RecallStaysBehind
  <2>4. Edited => \E k \in MovedUp(NUM_ROWS) : Kept(k) /\ Start' = Start - k * NUM_COLS
    BY <1>1, TypeStaysBehind, BackspaceStaysBehind, RecallStaysBehind DEF Edited
  <2>5. /\ Newline \in Characters /\ "^" \in Characters /\ "C" \in Characters
        /\ \A p \in Prompts : p \in Seq(Characters)
        /\ \A out \in Outputs : out \in Seq(Characters)
        /\ waiting \in Seq(Seq(Characters))
    BY <1>1, InvFacts, ConsoleAssumption
  <2>6. ASSUME NEW p \in Prompts, NEW out \in Outputs, Enter(out, p)
        PROVE  KeptBehind(1 + Rows(out \o p))
    <3>1. out \o p \in Seq(Characters)
      BY <2>5, ConcatProperties
    <3>2. t' = PrintStr(PrintChar(t, Newline), out \o p)
      BY <2>6 DEF Enter
    <3> QED
      BY <1>1, <3>1, <3>2, PrintStaysBehind
  <2>7. ASSUME NEW p \in Prompts, ControlC(p)
        PROVE  KeptBehind(Rows(<<"^", "C", Newline>> \o p))
    <3> DEFINE mark == <<"^", "C", Newline>>
    <3>1. mark \in Seq(Characters)
      BY <2>5
    <3>2. t' = PrintStr(t, mark \o p)
      BY <2>7 DEF ControlC
    <3> HIDE DEF mark
    <3>3. mark \o p \in Seq(Characters)
      BY <2>5, <3>1, ConcatProperties
    <3>4. KeptBehind(Rows(mark \o p))
      BY <1>1, <3>2, <3>3, PrintStaysBehind
    <3> QED
      BY <3>4 DEF mark
  <2>8. ASSUME ForegroundPrints PROVE KeptBehind(Rows(Head(waiting)))
    <3>1. waiting # <<>> /\ t' = PrintStr(t, Head(waiting))
      BY <2>8 DEF ForegroundPrints
    <3>2. Head(waiting) \in Seq(Characters)
      BY <2>5, <3>1
    <3> QED
      BY <1>1, <3>1, <3>2, PrintStaysBehind
  <2> QED
    BY <2>1, <2>2, <2>3, <2>4, <2>6, <2>7, <2>8 DEF PastStep
<1>2. ConsoleInv /\ [Next]_vars => [PastStep]_vars
  BY <1>1
<1> QED
  BY <1>2, ConsoleInvariant, PTL DEF Spec, PastKept
=============================================================================
