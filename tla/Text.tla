-------------------------------- MODULE Text ----------------------------------
(***************************************************************************)
(* The loops over characters: string.c, the words of a command line and    *)
(* the joining of them in execute (src/impl/kernel/main.c), the two ways   *)
(* vfs.c takes a path apart, the history as text, and the numbers print.c  *)
(* prints.  Shell, CommandLine and Vfs take lines, words and components for*)
(* granted: here they are made of characters, which are their codes, and a *)
(* string is a sequence without its null character.                        *)
(***************************************************************************)
EXTENDS Integers, Sequences, SequencesExt

CONSTANTS SIZE,          \* characters in a buffer, 256
          HISTORY_SIZE,  \* lines in the history array
          Keys,          \* the characters that users type
          MaxLines, MaxRecorded, MaxNumber  \* bounds: lines recorded, their
                         \* length, and the numbers printed

Newline == 10
Space   == 32
Slash   == 47

ASSUME TextAssumption ==
  /\ SIZE \in Nat \ {0} /\ HISTORY_SIZE \in Nat \ {0}
  /\ Keys \subseteq (1..127) \ {Newline}
  /\ MaxLines \in Nat /\ MaxRecorded \in Nat /\ MaxNumber \in Nat

VARIABLES input,   \* the line being typed
          file,    \* the text of the history file
          log,     \* ghost: the lines recorded
          number   \* a number to print

vars == <<input, file, log, number>>

-----------------------------------------------------------------------------
(* string.c.  The null character behind the end compares like any other.   *)
Char(a, i) == IF i <= Len(a) THEN a[i] ELSE 0

Strcmp(a, b) ==
  LET i == CHOOSE i \in 1..(Len(a) + 1) :
             /\ i > Len(a) \/ Char(a, i) # Char(b, i)
             /\ \A j \in 1..(i - 1) : Char(a, j) = Char(b, j)
  IN Char(a, i) - Char(b, i)

Strncmp(a, b, n) ==
  LET stops == {i \in 1..n : Char(a, i) # Char(b, i) \/ Char(a, i) = 0}
      i == CHOOSE i \in stops : \A j \in stops : i <= j
  IN IF stops = {} THEN 0 ELSE Char(a, i) - Char(b, i)

Strncpy(a, n) == SubSeq(a, 1, IF n < Len(a) THEN n ELSE Len(a))

-----------------------------------------------------------------------------
(* execute: the first loop counts the words, the second one takes them.    *)
EndsWord(c) == c \in {Space, 0}

Terminated(s) == Append(s, 0)

CountByBlanks(s) ==
  FoldLeft(LAMBDA count, c : IF EndsWord(c) THEN count + 1 ELSE count, 0, Terminated(s))
Count(s) ==
  LET step(t, c) ==
        IF EndsWord(c)
        THEN [count |-> t.count + (IF t.in_token THEN 1 ELSE 0), in_token |-> FALSE]
        ELSE [t EXCEPT !.in_token = TRUE]
  IN FoldLeft(step, [count |-> 0, in_token |-> FALSE], Terminated(s)).count

(* What lies between start and a character that ends words.                *)
Tokens(s) ==
  LET step(t, c) ==
        IF ~EndsWord(c) THEN [t EXCEPT !.since = Append(@, c)]
        ELSE [tokens |-> IF t.since = <<>> THEN t.tokens ELSE Append(t.tokens, t.since),
              since |-> <<>>]
  IN FoldLeft(step, [tokens |-> <<>>, since |-> <<>>], Terminated(s)).tokens

(* sudo and echo put the words behind the first together again.            *)
Join(tokens) ==
  FlattenSeq([i \in 1..Len(tokens) |-> IF i > 1 THEN <<Space>> \o tokens[i] ELSE tokens[i]])

(* The history: what execute appends to the file, and what history_load_   *)
(* page reads from it into the array, from line number start on.           *)
Entry(s) == Append(s, Newline)

LoadPageOneLate(text, start, array) ==
  LET step(t, c) ==
        IF t.loaded = HISTORY_SIZE THEN t
        ELSE IF c # Newline
        THEN IF t.line > start THEN [t EXCEPT !.read = Append(@, c)] ELSE t
        ELSE IF t.line <= start THEN [t EXCEPT !.line = @ + 1]
        ELSE [line |-> t.line + 1, loaded |-> t.loaded + 1, read |-> <<>>,
              array |-> [t.array EXCEPT ![t.loaded] = t.read]]
  IN FoldLeft(step, [line |-> 0, loaded |-> 0, read |-> <<>>, array |-> array], text).array
LoadPage(text, start, array) ==
  LET step(t, c) ==
        IF t.loaded = HISTORY_SIZE THEN t
        ELSE IF c # Newline
        THEN IF t.line >= start THEN [t EXCEPT !.read = Append(@, c)] ELSE t
        ELSE IF t.line < start THEN [t EXCEPT !.line = @ + 1]
        ELSE [line |-> t.line + 1, loaded |-> t.loaded + 1, read |-> <<>>,
              array |-> [t.array EXCEPT ![t.loaded] = t.read]]
  IN FoldLeft(step, [line |-> 0, loaded |-> 0, read |-> <<>>, array |-> array], text).array

-----------------------------------------------------------------------------
(* vfs_mkdir, vfs_touch and vfs_rm: the path before the last slash, which  *)
(* resolve_path gets, and the name behind it.                              *)
Slashes(p) == {i \in 1..Len(p) : p[i] = Slash}
LastSlash(p) == CHOOSE i \in Slashes(p) : \A j \in Slashes(p) : j <= i

Cut(p) ==
  IF Slashes(p) = {} THEN [dir |-> <<>>, name |-> p]
  ELSE [dir |-> IF LastSlash(p) = 1 THEN <<Slash>> ELSE Strncpy(p, LastSlash(p) - 1),
        name |-> SubSeq(p, LastSlash(p) + 1, Len(p))]

(* resolve_path: the components, without the empty ones; whether it starts *)
(* at root is told by the first character.                                 *)
Components(p) ==
  LET step(t, c) ==
        IF c \notin {Slash, 0} THEN [t EXCEPT !.token = Append(@, c)]
        ELSE [comps |-> IF t.token = <<>> THEN t.comps ELSE Append(t.comps, t.token),
              token |-> <<>>]
  IN FoldLeft(step, [comps |-> <<>>, token |-> <<>>], Terminated(p)).comps

Absolute(p) == Char(p, 1) = Slash

-----------------------------------------------------------------------------
(* print_int with base 10 and print_uint64_as_hex with base 16: the buffer *)
(* is filled from the last digit to the first and printed the other way.   *)
Digits(n, base) ==
  LET buf[k \in 0..n] == IF k = 0 THEN <<>> ELSE <<k % base>> \o buf[k \div base]
  IN buf[n]

PrintedBackwards(n, base) == IF n = 0 THEN <<0>> ELSE Digits(n, base)
Printed(n, base) == IF n = 0 THEN <<0>> ELSE Reverse(Digits(n, base))

(* memmap: a bound of the heap, behind "0x".                               *)
Memmap(addr) == Printed(addr, 10)

-----------------------------------------------------------------------------
Init == input = <<>> /\ file = <<>> /\ log = <<>> /\ number = 0

(* The code has no limit, the user stops where the buffer ends.  Bound:    *)
(* lines and numbers are looked at apart from each other.                  *)
Type(c) ==
  /\ Len(input) < SIZE - 1 /\ number = 0
  /\ input' = Append(input, c)
  /\ UNCHANGED <<file, log, number>>

(* Enter: an empty line is not recorded.                                   *)
Enter ==
  /\ input # <<>> /\ Len(input) <= MaxRecorded /\ Len(log) < MaxLines
  /\ file' = file \o Entry(input)
  /\ log' = Append(log, input)
  /\ input' = <<>>
  /\ UNCHANGED number

(* Time passes, and with it the number that uptime prints.                 *)
Tick ==
  /\ number < MaxNumber /\ input = <<>> /\ log = <<>>
  /\ number' = number + 1
  /\ UNCHANGED <<input, file, log>>

Next == (\E c \in Keys : Type(c)) \/ Enter \/ Tick

Spec == Init /\ [][Next]_vars
-----------------------------------------------------------------------------
(* No null character gets into a text, and no end of line into a line.     *)
TypeOK ==
  /\ input \in Seq(Keys) /\ Len(input) < SIZE
  /\ file \in Seq(Keys \cup {Newline})
  /\ log \in Seq(Seq(Keys)) /\ number \in Nat

(* The array of words is allocated for the number that the first loop has  *)
(* counted, and filled by the second: they agree on every line, and the    *)
(* words are the longest pieces without a blank, in order.                 *)
IsWord(s, i, j) ==
  /\ \A k \in i..j : s[k] # Space
  /\ i = 1 \/ s[i - 1] = Space
  /\ j = Len(s) \/ s[j + 1] = Space

WordsFillTheArray ==
  \E tokens \in {Tokens(input)} :
    /\ Len(tokens) = Count(input)
    /\ FlattenSeq(tokens) = SelectSeq(input, LAMBDA c : c # Space)
    /\ {tokens[k] : k \in 1..Len(tokens)} =
         {SubSeq(input, i, j) : <<i, j>> \in
            {<<i, j>> \in (1..Len(input)) \X (1..Len(input)) : i <= j /\ IsWord(input, i, j)}}

(* The line that sudo runs has the words that were typed behind it, however*)
(* they were spaced; what sudo and echo put together fits where the line   *)
(* itself fitted.                                                          *)
RestKeepsItsWords ==
  \E tokens \in {Tokens(input)} :
    tokens # <<>> =>
      \E rest \in {Join(Tail(tokens))} :
        Tokens(rest) = Tail(tokens) /\ Len(rest) < Len(input)

(* What history_load_page reads are the lines that were recorded, from the *)
(* one asked for; array elements for which there is no line keep what they *)
(* had.  It is the same to Shell, whose file is a sequence of lines.       *)
Old == [i \in 0..(HISTORY_SIZE - 1) |-> <<Space>>]

LoadsWhatWasRecorded ==
  \A start \in 0..(MaxLines + 1) :
    LoadPage(file, start, Old) =
      [i \in 0..(HISTORY_SIZE - 1) |->
         IF start + i < Len(log) THEN log[start + i + 1] ELSE Old[i]]

(* A path taken apart at its last slash leads to the same place as the     *)
(* whole: the components of the directory and then the name, unless it is  *)
(* empty; the directory of an absolute path is absolute, and that of a     *)
(* relative one with a slash is not the empty path, which would be here.   *)
CutsLeadToTheSame ==
  \E cut \in {Cut(input)} :
    /\ Components(input) =
         Components(cut.dir) \o (IF cut.name = <<>> THEN <<>> ELSE <<cut.name>>)
    /\ Slashes(cut.name) = {}
    /\ (cut.dir = <<>>) = (Slashes(input) = {})
    /\ Slashes(input) # {} => Absolute(cut.dir) = Absolute(input)

(* The loops that take a line or a path apart agree with those that count  *)
(* and join its pieces.                                                    *)
PiecesFit == WordsFillTheArray /\ RestKeepsItsWords /\ CutsLeadToTheSame

(* strcmp finds two strings equal if they are, and orders the others;      *)
(* strncmp does the same to their beginnings.                              *)
ComparesTexts ==
  \A other \in BoundedSeq(Keys, 2) :
    /\ (Strcmp(input, other) = 0) = (input = other)
    /\ Strcmp(input, other) = -Strcmp(other, input)
    /\ \A n \in 0..SIZE :
         (Strncmp(input, other, n) = 0) = (Strncpy(input, n) = Strncpy(other, n))

(* What is printed of a number is the number, without leading zeros.       *)
Value(digits, base) == FoldLeft(LAMBDA v, d : base * v + d, 0, digits)

PrintsTheNumber ==
  \A base \in {10, 16} :
    \E digits \in {Printed(number, base)} :
      /\ Value(digits, base) = number
      /\ \A i \in 1..Len(digits) : digits[i] \in 0..(base - 1)
      /\ digits[1] = 0 => number = 0

(* Texts are compared, and numbers printed, as their callers expect.       *)
TextsMeanWhatTheySay == TypeOK /\ ComparesTexts /\ PrintsTheNumber

(* The "0x" that memmap prints says that the number is hexadecimal.        *)
AddressesAreHexadecimal == Value(Memmap(number), 16) = number
=============================================================================
