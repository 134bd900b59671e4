------------------------------ MODULE Console -------------------------------
(***************************************************************************)
(* The text screen of src/impl/x86_64/print.c, and the command line that   *)
(* interrupt_handler (src/impl/kernel/main.c) edits on it.  The handler    *)
(* keeps the line and tells the screen only what to add or to take away;   *)
(* it never looks at the screen, and others print on it as well.           *)
(*                                                                         *)
(* Which key does what is module Keyboard; what the arrows recall is module*)
(* Shell.  Colours are left out.                                           *)
(***************************************************************************)
EXTENDS Integers, Sequences, SequencesExt

Blank == " "
Newline == "\n"

CONSTANTS NUM_COLS, NUM_ROWS,  \* 80 and 25
          WORD,                \* 2^64, the range of col and of an index
          Characters,          \* what the screen can show, and newline
          Letters,             \* characters that are typed
          Prompts,             \* what print_prompt may print
          Outputs,             \* what a command may print
          Recalled,            \* lines that the history may hold
          Foreground,          \* what kernel_main and the program still print
          MaxLine              \* bound: characters on the line

Cells == 0..(NUM_COLS * NUM_ROWS - 1)

(* The 256 characters of input_buffer leave most of the screen to the rest.*)
ASSUME ConsoleAssumption ==
  /\ NUM_COLS \in Nat \ {0} /\ NUM_ROWS \in Nat \ {0, 1}
  /\ MaxLine \in 0..(NUM_COLS * (NUM_ROWS - 1))
  /\ WORD \in Nat /\ WORD > 2 * NUM_COLS * NUM_ROWS + MaxLine
  /\ {Blank, Newline, "^", "C"} \subseteq Characters
  /\ Letters \subseteq Characters \ {Newline}
  /\ Prompts \cup Outputs \subseteq Seq(Characters)
  /\ Foreground \in Seq(Seq(Characters))
  /\ Recalled \subseteq Seq(Characters \ {Newline})
  /\ \A text \in Recalled : Len(text) <= MaxLine

VARIABLES t,         \* the screen: its cells, row, col, the cursor, and
                     \* whether anything was stored outside its cells
          line,      \* input_buffer[0 .. input_pos - 1]
          waiting,   \* what the foreground has not printed yet
          split      \* what is on the screen is no longer the line in one piece

vars == <<t, line, waiting, split>>

-----------------------------------------------------------------------------
(* print.c                                                                 *)

Empty == [i \in Cells |-> Blank]

(* The 16 bits of update_cursor, as wide as an index here.                 *)
UpdateCursor(s) == [s EXCEPT !.cursor = (s.row * NUM_COLS + s.col) % WORD]

(* A store through the pointer to the text memory.                         *)
Put(s, c) ==
  LET i == (s.col + NUM_COLS * s.row) % WORD
  IN IF i \in Cells THEN [s EXCEPT !.cells[i] = c] ELSE [s EXCEPT !.stray = TRUE]

PrintClear(s) ==
  UpdateCursor([s EXCEPT !.cells = Empty, !.row = 0, !.col = 0])

(* clear_row sets row to 0, print_newline sets it back.                    *)
Scrolled(s) ==
  [i \in Cells |-> IF i + NUM_COLS \in Cells THEN s.cells[i + NUM_COLS] ELSE Blank]

PrintNewline(s) ==
  UpdateCursor(IF s.row < NUM_ROWS - 1
               THEN [s EXCEPT !.row = @ + 1, !.col = 0]
               ELSE [s EXCEPT !.cells = Scrolled(s), !.col = 0])

PrintChar(s, c) ==
  LET r == IF s.col >= NUM_COLS THEN PrintNewline(s) ELSE s
  IN IF c = Newline THEN PrintNewline(s)
     ELSE UpdateCursor([Put(r, c) EXCEPT !.col = (@ + 1) % WORD])

PrintStr(s, text) ==
  LET shown[k \in 0..Len(text)] ==
        IF k = 0 THEN s ELSE PrintChar(shown[k - 1], text[k])
  IN shown[Len(text)]

(* One character back, past the start of the row too.                      *)
PrintClearChar(s) == UpdateCursor(Put([s EXCEPT !.col = (@ - 1) % WORD], Blank))

-----------------------------------------------------------------------------
(* The line.                                                               *)

(* After print_clear and the first prompt of kernel_main.                  *)
Init ==
  /\ \E p \in Prompts :
       t = PrintStr([cells |-> Empty, row |-> 0, col |-> 0, cursor |-> 0,
                     stray |-> FALSE], p)
  /\ line = <<>>
  /\ waiting = Foreground
  /\ split = FALSE

Type(c) ==
  /\ Len(line) < MaxLine
  /\ line' = Append(line, c)
  /\ t' = PrintChar(t, c)
  /\ UNCHANGED <<waiting, split>>

(* Erasing the first character of a row leaves col at that row's start;    *)
(* erasing another one there takes it below zero.                          *)
AtRowStart(s) == s.col = 0 \/ s.col > NUM_COLS

BackspaceUntested ==
  /\ line' = IF line = <<>> THEN line ELSE Front(line)
  /\ t' = PrintClearChar(t)
  /\ split' = (line' # <<>> /\ (split \/ AtRowStart(t)))
  /\ UNCHANGED waiting
Backspace ==
  /\ line # <<>>
  /\ line' = Front(line)
  /\ t' = PrintClearChar(t)
  /\ split' = (line' # <<>> /\ (split \/ AtRowStart(t)))
  /\ UNCHANGED waiting

(* An arrow key: the line is erased character by character.                *)
Erased(s, n) ==
  LET left[k \in 0..n] == IF k = 0 THEN s ELSE PrintClearChar(left[k - 1])
  IN left[n]

RecallOneTooFew(text) ==
  /\ line' = text
  /\ t' = PrintStr(Erased(t, IF line = <<>> THEN 0 ELSE Len(line) - 1), text)
  /\ split' = FALSE
  /\ UNCHANGED waiting
Recall(text) ==
  /\ line' = text
  /\ t' = PrintStr(Erased(t, Len(line)), text)
  /\ split' = FALSE
  /\ UNCHANGED waiting

Enter(out, p) ==
  /\ t' = PrintStr(PrintChar(t, Newline), out \o p)
  /\ line' = <<>> /\ split' = FALSE
  /\ UNCHANGED waiting

(* The command clear.                                                      *)
EnterClear(p) ==
  /\ t' = PrintStr(PrintClear(PrintChar(t, Newline)), p)
  /\ line' = <<>> /\ split' = FALSE
  /\ UNCHANGED waiting

ControlCKeepsLine(p) ==
  /\ t' = PrintStr(t, <<"^", "C", Newline>> \o p)
  /\ UNCHANGED <<line, waiting, split>>
ControlC(p) ==
  /\ t' = PrintStr(t, <<"^", "C", Newline>> \o p)
  /\ line' = <<>> /\ split' = FALSE
  /\ UNCHANGED waiting

(* Control-L shows a prompt and leaves the line as it was.                 *)
ControlL(p) ==
  /\ t' = PrintStr(PrintClear(t), p)
  /\ split' = (line # <<>>)
  /\ UNCHANGED <<line, waiting>>

(* kernel_main prints with interrupts on after its first prompt, one       *)
(* character at a time here; the program's calls to sys_write and sys_exit *)
(* print with interrupts off.  Neither touches the line.                   *)
ForegroundPrints ==
  /\ waiting # <<>>
  /\ t' = PrintStr(t, Head(waiting))
  /\ waiting' = Tail(waiting)
  /\ split' = (line # <<>>)
  /\ UNCHANGED line

Next ==
  \/ \E c \in Letters : Type(c)
  \/ Backspace
  \/ \E text \in Recalled : Recall(text)
  \/ \E p \in Prompts :
       \/ \E out \in Outputs : Enter(out, p)
       \/ EnterClear(p) \/ ControlC(p) \/ ControlL(p)
  \/ ForegroundPrints

Spec == Init /\ [][Next]_vars

-----------------------------------------------------------------------------
(* Every variable has the values it is meant to have.                      *)
Screen == [cells : [Cells -> Characters], row : 0..(NUM_ROWS - 1), col : 0..(WORD - 1),
           cursor : 0..(WORD - 1), stray : BOOLEAN]

TypeOK ==
  /\ t \in Screen
  /\ line \in Seq(Characters \ {Newline}) /\ Len(line) <= MaxLine
  /\ waiting \in Seq(Seq(Characters))
  /\ split \in BOOLEAN

(* The place where the next character would go if its row had room, which  *)
(* is below zero after erasing past the start of the first row.            *)
Col(s) == IF s.col > NUM_COLS THEN s.col - WORD ELSE s.col
Place(s) == s.row * NUM_COLS + Col(s)

(* The line that Enter will run is the last thing on the screen, in one    *)
(* piece, unless something was printed behind it or the erasing went past  *)
(* the start of a row.                                                     *)
ShowsLine ==
  ~split =>
    \A i \in 1..Len(line) :
       LET cell == Place(t) - Len(line) + i - 1
       IN cell \in Cells /\ t.cells[cell] = line[i]

(* Nothing stands behind the place where the next character goes: no rest  *)
(* of an erased or recalled line, and no old row after scrolling.          *)
NothingBehind == \A i \in Cells : i >= Place(t) => t.cells[i] = Blank

(* The hardware cursor is where the next character goes.                   *)
CursorFollows == t.cursor = Place(t) % WORD

(* The screen ends with the line, and the cursor blinks behind it: what    *)
(* the user sees is what Enter runs.                                       *)
ScreenEndsWithLine == TypeOK /\ ShowsLine /\ NothingBehind /\ CursorFollows

(* What stood on the screen before the line stays there, or moves up by    *)
(* whole rows, whatever is typed, erased, recalled and printed: by a row at*)
(* most for each newline and for each row that is filled, and only once the*)
(* bottom row is reached.  And the line stays behind it, in the same place,*)
(* as long as no row start was erased over.                                *)
Start == Place(t) - Len(line)

Kept(k) == \A i \in (k * NUM_COLS)..(Start - 1) : t'.cells[i - k * NUM_COLS] = t.cells[i]

MovedUp(most) == IF t'.row = NUM_ROWS - 1 THEN 0..most ELSE {0}

Edited ==
  \/ Col(t) >= 0 /\ \E c \in Letters : Type(c)
  \/ Backspace
  \/ Len(line) <= Col(t) /\ \E text \in Recalled : Recall(text)

Newlines(text) == Cardinality({i \in 1..Len(text) : text[i] = Newline})
Rows(text) == 1 + Newlines(text) + Len(text) \div NUM_COLS

KeptBehind(rows) == \E k \in MovedUp(rows) : Kept(k)

PastStep ==
  /\ Edited => \E k \in MovedUp(NUM_ROWS) : Kept(k) /\ Start' = Start - k * NUM_COLS
  /\ \A c \in Letters : Type(c) => KeptBehind(Rows(<<c>>))
  /\ Backspace => KeptBehind(0)
  /\ \A text \in Recalled : Recall(text) => KeptBehind(Rows(text))
  /\ \A p \in Prompts :
       /\ \A out \in Outputs : Enter(out, p) => KeptBehind(1 + Rows(out \o p))
       /\ ControlC(p) => KeptBehind(Rows(<<"^", "C", Newline>> \o p))
  /\ ForegroundPrints => KeptBehind(Rows(Head(waiting)))

PastKept == [][PastStep]_vars

(* Nothing is stored outside the text memory as long as the line is in one *)
(* piece.                                                                  *)
NoStray == [][t'.stray => t.stray \/ split]_vars
=============================================================================
