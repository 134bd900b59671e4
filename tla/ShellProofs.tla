----------------------------- MODULE ShellProofs -----------------------------
(***************************************************************************)
(* Proofs about module Shell: the types of its variables, that sudo mode   *)
(* does not outlive its time, and that the arrow keys recall the commands  *)
(* that were typed, for an array of any size and any sudo lifetime.        *)
(***************************************************************************)
EXTENDS Shell, TLAPS

(* Sudo mode is the time from the last sudo to sudo_expires: the kernel    *)
(* keeps the end only, the ghost granted keeps the beginning.              *)
SudoHasAnEnd ==
  /\ granted <= ticks
  /\ sudo_mode => granted \in Nat /\ sudo_expires = granted + LIFETIME

(* Until the array has been filled once, it holds the commands in the      *)
(* order they came in, and starts with the first one.                      *)
ArrayHoldsLog ==
  history_count <= HISTORY_SIZE =>
    /\ page_start = 0
    /\ \A i \in 0..(history_count - 1) : history[i] = log[i + 1]

IInv == TypeOK /\ SudoHasAnEnd /\ RootExpires /\ ArrayHoldsLog

-----------------------------------------------------------------------------
(* The helpers on the array.                                               *)

(* The array has elements and sudo lasts a while.                          *)
LEMMA SizesArePositive ==
  HISTORY_SIZE \in Nat /\ HISTORY_SIZE > 0 /\ LIFETIME \in Nat /\ LIFETIME > 0
<1>1. HISTORY_SIZE \in Nat \ {0} /\ LIFETIME \in Nat \ {0}
  BY ShellAssumption, Zenon
<1>2. QED
  BY <1>1

(* C's remainder of a number that is not negative.                         *)
LEMMA RemainderRange ==
  ASSUME NEW n \in Nat
  PROVE  n % HISTORY_SIZE \in 0..(HISTORY_SIZE - 1)
BY SizesArePositive

(* Before the array is full, the slot of a command is its number.          *)
LEMMA SlotIsNumber ==
  ASSUME NEW n \in 0..(HISTORY_SIZE - 1)
  PROVE  Slot(n) = n
BY SizesArePositive DEF Slot

(* The slot of a command lies in the array.                                *)
LEMMA SlotInArray ==
  ASSUME NEW n \in Nat
  PROVE  Slot(n) \in 0..(HISTORY_SIZE - 1)
BY SizesArePositive DEF Slot

(* A command line that a user types, the empty one included, is a text.    *)
LEMMA GarbageIsText == Empty \in Text /\ Garbage \in Text /\ Lines \subseteq Text
BY DEF Text

(* Reading a page gives an array of texts.                                 *)
LEMMA PageType ==
  ASSUME TypeOK, NEW start \in Nat
  PROVE  Page(start) \in [0..(HISTORY_SIZE - 1) -> Text]
<1>1. CASE Loads
  <2>1. file \in Seq(Text)
    BY <1>1 DEF Loads, TypeOK
  <2>2. ASSUME NEW i \in 0..(HISTORY_SIZE - 1), start + i < Len(file)
        PROVE  file[start + i + 1] \in Text
    BY <2>1, <2>2
  <2>3. ASSUME NEW i \in 0..(HISTORY_SIZE - 1)
        PROVE  history[i] \in Text
    BY DEF TypeOK
  <2>4. QED
    BY <1>1, <2>2, <2>3 DEF Page
<1>2. CASE ~Loads
  BY <1>2 DEF Page, TypeOK
<1>3. QED
  BY <1>1, <1>2

(* Whatever the position, what is shown is a text.                         *)
LEMMA AtType ==
  ASSUME NEW page \in [0..(HISTORY_SIZE - 1) -> Text], NEW start \in Nat, NEW pos \in Nat
  PROVE  At(page, start, pos) \in Text
<1>1. CASE pos >= start
  <2>1. pos - start \in Nat
    BY <1>1
  <2>2. (pos - start) % HISTORY_SIZE \in 0..(HISTORY_SIZE - 1)
    BY <2>1, RemainderRange, Zenon
  <2>3. QED
    BY <1>1, <2>2 DEF At
<1>2. CASE ~(pos >= start)
  BY <1>2, GarbageIsText, SizesArePositive DEF At
<1>3. QED
  BY <1>1, <1>2

(* Either arrow key, once it moves to a command that was recorded.         *)
LEMMA ShowTypes ==
  ASSUME TypeOK, NEW pos \in 0..history_count, NEW start \in 0..history_count,
         NEW reload \in BOOLEAN, Show(pos, reload, start),
         UNCHANGED <<history_count, file, sudo, ticks, halted, log, last>>
  PROVE  TypeOK'
<1> DEFINE page  == IF reload THEN Page(start) ELSE history
           first == IF reload /\ Loads THEN start ELSE page_start
<1>1. history_count \in Nat /\ page_start \in 0..history_count
  BY DEF TypeOK
<1>2. page \in [0..(HISTORY_SIZE - 1) -> Text]
  BY <1>1, PageType DEF TypeOK
<1>3. first \in 0..history_count /\ first \in Nat /\ pos \in Nat
  BY <1>1
<1>4. At(page, first, pos) \in Text
  <2> HIDE DEF page, first
  <2> QED
    BY <1>2, <1>3, AtType
<1>5. history' = page /\ page_start' = first /\ history_pos' = pos /\ line' = At(page, first, pos)
  BY DEF Show
<1> HIDE DEF page, first
<1>6. QED
  BY <1>2, <1>3, <1>4, <1>5, Zenon DEF TypeOK, sudo

(* The commands of execute.                                                *)
LEMMA ExecuteTypes ==
  ASSUME TypeOK, Execute
  PROVE  TypeOK'
<1> USE SizesArePositive
<1>1. history_count \in Nat /\ line \in Text /\ log \in Seq(Text) /\ Len(log) = history_count
  BY DEF TypeOK
<1>2. /\ history' \in [0..(HISTORY_SIZE - 1) -> Text]
      /\ history_count' \in Nat /\ history_pos' \in 0..history_count'
      /\ page_start' \in 0..history_count'
      /\ log' \in Seq(Text) /\ Len(log') = history_count'
  <2>1. CASE Recorded(line)
    <3>1. /\ history' = [history EXCEPT ![Slot(history_count)] = line]
          /\ history_count' = history_count + 1 /\ history_pos' = history_count + 1
          /\ log' = Append(log, line) /\ page_start' = page_start
      BY <2>1 DEF Execute
    <3>2. history' \in [0..(HISTORY_SIZE - 1) -> Text]
      BY <1>1, <3>1, SlotInArray DEF TypeOK
    <3>3. log' \in Seq(Text) /\ Len(log') = history_count'
      BY <1>1, <3>1
    <3>4. page_start' \in 0..history_count' /\ history_pos' \in 0..history_count'
      BY <1>1, <3>1 DEF TypeOK
    <3>5. QED
      BY <1>1, <3>1, <3>2, <3>3, <3>4
  <2>2. CASE ~Recorded(line)
    BY <2>2 DEF Execute, TypeOK
  <2>3. QED
    BY <2>1, <2>2
<1>3. Written \in Seq(Text)
  BY <1>1 DEF Written, TypeOK
<1>4. file' = Missing \/ file' \in Seq(Text)
  BY <1>3 DEF Execute, Run, TypeOK
<1>5. halted' \in BOOLEAN
  BY DEF Execute, Run
<1>6. sudo_mode' \in BOOLEAN
  BY DEF Execute, TypeOK, Grants
<1>7. sudo_expires' \in Nat /\ granted' \in Int /\ ticks' \in Nat
  BY DEF Execute, TypeOK
<1>8. line' \in Text
  BY GarbageIsText DEF Execute
<1>9. last' \in [line : Text, root : BOOLEAN, at : Nat]
  BY <1>1, <1>6 DEF Execute, TypeOK
<1>10. QED
  BY <1>2, <1>4, <1>5, <1>6, <1>7, <1>8, <1>9 DEF TypeOK

-----------------------------------------------------------------------------
(* The types.                                                              *)

(* The types hold when the shell starts.                                   *)
LEMMA InitTypes == Init => TypeOK
<1> SUFFICES ASSUME Init PROVE TypeOK
  OBVIOUS
<1>1. Empty \in Text
  BY GarbageIsText
<1>2. history \in [0..(HISTORY_SIZE - 1) -> Text]
  BY <1>1 DEF Init
<1>3. last \in [line : Text, root : BOOLEAN, at : Nat]
  BY <1>1 DEF Init
<1>4. file \in Seq(Text) /\ log \in Seq(Text) /\ Len(log) = 0
  BY DEF Init
<1>5. granted \in Int
  BY SizesArePositive DEF Init
<1>6. history_count = 0 /\ history_pos \in 0..history_count /\ page_start \in 0..history_count
  BY DEF Init
<1>7. line \in Text /\ sudo_mode \in BOOLEAN /\ sudo_expires \in Nat /\ ticks \in Nat /\ halted \in BOOLEAN
  BY <1>1 DEF Init
<1>8. QED
  BY <1>2, <1>3, <1>4, <1>5, <1>6, <1>7 DEF TypeOK

(* Every step keeps the types.                                             *)
LEMMA NextTypes == TypeOK /\ [Next]_vars => TypeOK'
<1> SUFFICES ASSUME TypeOK, [Next]_vars PROVE TypeOK'
  OBVIOUS
<1>1. CASE Tick
  BY <1>1 DEF Tick, TypeOK, past, sudo
<1>2. CASE Execute
  BY <1>2, ExecuteTypes
<1>3. CASE Up
  <2> DEFINE pos   == history_pos - 1
             start == IF pos - HISTORY_SIZE + 1 < 0 THEN 0 ELSE pos - HISTORY_SIZE + 1
  <2>1. pos \in 0..history_count /\ start \in 0..history_count
    BY <1>3, SizesArePositive DEF Up, TypeOK
  <2>2. Show(pos, pos < page_start, start)
    BY <1>3 DEF Up
  <2>3. (pos < page_start) \in BOOLEAN
    OBVIOUS
  <2> HIDE DEF pos, start
  <2>4. QED
    BY <1>3, <2>1, <2>2, <2>3, ShowTypes DEF Up
<1>4. CASE Down
  <2> DEFINE pos == history_pos + 1
  <2>1. pos \in 0..history_count
    BY <1>4 DEF Down, TypeOK
  <2>2. Show(pos, pos >= page_start + HISTORY_SIZE, pos)
    BY <1>4 DEF Down
  <2>3. (pos >= page_start + HISTORY_SIZE) \in BOOLEAN
    OBVIOUS
  <2> HIDE DEF pos
  <2>4. QED
    BY <1>4, <2>1, <2>2, <2>3, ShowTypes DEF Down
<1>5. CASE DownToEmpty
  <2>1. history_pos' \in 0..history_count' /\ line' \in Text
    BY <1>5, GarbageIsText DEF DownToEmpty, TypeOK
  <2>2. UNCHANGED <<history, history_count, page_start, file, sudo_mode, sudo_expires,
                    granted, ticks, halted, log, last>>
    BY <1>5 DEF DownToEmpty, sudo
  <2>3. QED
    BY <2>1, <2>2, Zenon DEF TypeOK
<1>6. ASSUME NEW text \in Lines, Type(text)
      PROVE  TypeOK'
  BY <1>6, GarbageIsText DEF Type, TypeOK, past, sudo
<1>7. CASE UNCHANGED vars
  BY <1>7 DEF vars, TypeOK
<1>8. QED
  BY <1>1, <1>2, <1>3, <1>4, <1>5, <1>6, <1>7 DEF Next

-----------------------------------------------------------------------------
(* Sudo mode.                                                              *)

(* The time of sudo mode is kept, and no command runs as root after it.    *)
LEMMA NextSudo ==
  TypeOK /\ SudoHasAnEnd /\ RootExpires /\ [Next]_vars => SudoHasAnEnd' /\ RootExpires'
<1> SUFFICES ASSUME TypeOK, SudoHasAnEnd, RootExpires, [Next]_vars
             PROVE  SudoHasAnEnd' /\ RootExpires'
  OBVIOUS
<1> USE SizesArePositive
<1>1. CASE Execute
  <2>1. ticks \in Nat /\ granted \in Int /\ sudo_mode \in BOOLEAN /\ ticks' = ticks
    BY <1>1 DEF Execute, TypeOK
  <2>2. CASE Grants(line)
    <3>1. granted' = ticks /\ sudo_expires' = ticks + LIFETIME /\ last'.at = ticks
      BY <1>1, <2>2 DEF Execute
    <3>2. QED
      BY <2>1, <3>1 DEF SudoHasAnEnd, RootExpires
  <2>3. CASE ~Grants(line)
    <3>1. granted' = granted /\ last'.at = ticks /\ last'.root = sudo_mode'
      BY <1>1, <2>3 DEF Execute
    <3>2. sudo_mode' => sudo_mode /\ ~Expired /\ sudo_expires' = sudo_expires
      BY <1>1, <2>3 DEF Execute
    <3>3. sudo_mode' => ticks <= granted + LIFETIME
      BY <2>1, <3>2 DEF SudoHasAnEnd, Expired
    <3>4. QED
      BY <2>1, <3>1, <3>2, <3>3 DEF SudoHasAnEnd, RootExpires
  <2>4. QED
    BY <2>2, <2>3
<1>2. CASE Tick
  BY <1>2 DEF Tick, sudo, SudoHasAnEnd, RootExpires, TypeOK
<1>3. CASE Up
  BY <1>3 DEF Up, sudo, SudoHasAnEnd, RootExpires
<1>4. CASE Down
  BY <1>4 DEF Down, sudo, SudoHasAnEnd, RootExpires
<1>5. CASE DownToEmpty
  BY <1>5 DEF DownToEmpty, sudo, SudoHasAnEnd, RootExpires
<1>6. ASSUME NEW text \in Lines, Type(text)
      PROVE  SudoHasAnEnd' /\ RootExpires'
  BY <1>6 DEF Type, sudo, SudoHasAnEnd, RootExpires
<1>7. CASE UNCHANGED vars
  BY <1>7 DEF vars, SudoHasAnEnd, RootExpires
<1>8. QED
  BY <1>1, <1>2, <1>3, <1>4, <1>5, <1>6, <1>7 DEF Next

-----------------------------------------------------------------------------
(* The history.                                                            *)

(* While the array has never been full, the arrow keys read no page of the *)
(* file: every command is in the array, at its own number.                 *)
LEMMA NoPageNeeded ==
  ASSUME TypeOK, ArrayHoldsLog, history_count <= HISTORY_SIZE, Up \/ Down
  PROVE  /\ UNCHANGED <<history, page_start, history_count, log>>
         /\ history_pos' \in 0..(history_count - 1)
         /\ line' = log[history_pos' + 1]
<1> USE SizesArePositive
<1>1. /\ history_count \in Nat /\ history_pos \in 0..history_count /\ page_start = 0
      /\ \A i \in 0..(history_count - 1) : history[i] = log[i + 1]
  BY DEF TypeOK, ArrayHoldsLog
<1>2. ASSUME NEW pos \in 0..(history_count - 1)
      PROVE  At(history, 0, pos) = log[pos + 1]
  <2>1. pos - 0 = pos /\ pos \in 0..(HISTORY_SIZE - 1)
    BY <1>1
  <2>2. pos % HISTORY_SIZE = pos
    BY <2>1, SlotIsNumber DEF Slot
  <2>3. QED
    BY <1>1, <2>1, <2>2 DEF At
<1>3. ASSUME NEW pos \in 0..(history_count - 1), NEW start,
             Show(pos, FALSE, start)
      PROVE  /\ UNCHANGED <<history, page_start>> /\ history_pos' = pos
             /\ line' = log[pos + 1]
  BY <1>1, <1>2, <1>3 DEF Show
<1>4. CASE Up
  <2> DEFINE pos   == history_pos - 1
             start == IF pos - HISTORY_SIZE + 1 < 0 THEN 0 ELSE pos - HISTORY_SIZE + 1
  <2>1. pos \in 0..(history_count - 1) /\ (pos < page_start) = FALSE
    BY <1>1, <1>4 DEF Up
  <2>2. Show(pos, pos < page_start, start) /\ UNCHANGED <<history_count, log>>
    BY <1>4 DEF Up
  <2> HIDE DEF pos, start
  <2>3. Show(pos, FALSE, start)
    BY <2>1, <2>2
  <2>4. QED
    BY <1>3, <2>1, <2>2, <2>3
<1>5. CASE Down
  <2> DEFINE pos == history_pos + 1
  <2>1. pos \in 0..(history_count - 1) /\ (pos >= page_start + HISTORY_SIZE) = FALSE
    BY <1>1, <1>5 DEF Down
  <2>2. Show(pos, pos >= page_start + HISTORY_SIZE, pos) /\ UNCHANGED <<history_count, log>>
    BY <1>5 DEF Down
  <2> HIDE DEF pos
  <2>3. Show(pos, FALSE, pos)
    BY <2>1, <2>2
  <2>4. QED
    BY <1>3, <2>1, <2>2, <2>3
<1>6. QED
  BY <1>4, <1>5

(* A step leaves the commands where they are until the array is full.      *)
LEMMA NextArray ==
  TypeOK /\ ArrayHoldsLog /\ [Next]_vars => ArrayHoldsLog'
<1> SUFFICES ASSUME TypeOK, ArrayHoldsLog, [Next]_vars, history_count' <= HISTORY_SIZE
             PROVE  /\ page_start' = 0
                    /\ \A i \in 0..(history_count' - 1) : history'[i] = log'[i + 1]
  BY DEF ArrayHoldsLog
<1> USE SizesArePositive
<1>1. CASE Execute
  <2>1. history_count \in Nat /\ log \in Seq(Text) /\ Len(log) = history_count
    BY DEF TypeOK
  <2>2. CASE Recorded(line)
    <3>1. /\ history' = [history EXCEPT ![Slot(history_count)] = line]
          /\ history_count' = history_count + 1
          /\ log' = Append(log, line) /\ page_start' = page_start
      BY <1>1, <2>2 DEF Execute
    <3>2. history_count \in 0..(HISTORY_SIZE - 1) /\ Slot(history_count) = history_count
      BY <2>1, <3>1, SlotIsNumber
    <3>3. page_start = 0 /\ \A i \in 0..(history_count - 1) : history[i] = log[i + 1]
      BY <2>1, <3>2 DEF ArrayHoldsLog
    <3>4. ASSUME NEW i \in 0..(history_count' - 1)
          PROVE  history'[i] = log'[i + 1]
      <4>1. CASE i = history_count
        BY <2>1, <3>1, <3>2, <4>1 DEF TypeOK
      <4>2. CASE i # history_count
        BY <2>1, <3>1, <3>2, <3>3, <4>2 DEF TypeOK
      <4>3. QED
        BY <4>1, <4>2
    <3>5. QED
      BY <3>1, <3>3, <3>4
  <2>3. CASE ~Recorded(line)
    BY <1>1, <2>3 DEF Execute, ArrayHoldsLog
  <2>4. QED
    BY <2>2, <2>3
<1>2. CASE Tick
  BY <1>2 DEF Tick, past, ArrayHoldsLog
<1>3. CASE Up
  BY <1>3, NoPageNeeded DEF Up, ArrayHoldsLog, TypeOK
<1>4. CASE Down
  BY <1>4, NoPageNeeded DEF Down, ArrayHoldsLog, TypeOK
<1>5. CASE DownToEmpty
  BY <1>5 DEF DownToEmpty, ArrayHoldsLog
<1>6. ASSUME NEW text \in Lines, Type(text)
      PROVE  ArrayHoldsLog'
  BY <1>6 DEF Type, past, ArrayHoldsLog
<1>7. CASE UNCHANGED vars
  BY <1>7 DEF vars, ArrayHoldsLog
<1>8. QED
  BY <1>1, <1>2, <1>3, <1>4, <1>5, <1>6, <1>7 DEF Next, ArrayHoldsLog

(* An arrow key that moves shows the command of its position, or nothing   *)
(* after the last one.                                                     *)
LEMMA NextRecalls ==
  TypeOK /\ ArrayHoldsLog /\ [Next]_vars => RecallStep
<1> SUFFICES ASSUME TypeOK, ArrayHoldsLog, [Next]_vars,
                    history_pos' # history_pos, history_count' = history_count,
                    history_count <= HISTORY_SIZE
             PROVE  line' = IF history_pos' < history_count THEN log[history_pos' + 1] ELSE Empty
  BY DEF RecallStep
<1>1. CASE Execute
  <2>1. history_count \in Nat
    BY DEF TypeOK
  <2>2. QED
    BY <1>1, <2>1 DEF Execute
<1>2. CASE Tick
  BY <1>2 DEF Tick, past
<1>3. CASE Up \/ Down
  <2>1. history_pos' \in 0..(history_count - 1) /\ line' = log[history_pos' + 1]
    BY <1>3, NoPageNeeded
  <2>2. history_count \in Nat
    BY DEF TypeOK
  <2>3. history_pos' < history_count
    BY <2>1, <2>2
  <2>4. QED
    BY <2>1, <2>3
<1>4. CASE DownToEmpty
  BY <1>4 DEF DownToEmpty, TypeOK
<1>5. ASSUME NEW text \in Lines, Type(text)
      PROVE  FALSE
  BY <1>5 DEF Type, past
<1>6. CASE UNCHANGED vars
  BY <1>6 DEF vars
<1>7. QED
  BY <1>1, <1>2, <1>3, <1>4, <1>5, <1>6 DEF Next

-----------------------------------------------------------------------------
(* The invariant and what follows from it.                                 *)

(* The invariant holds when the shell starts.                              *)
LEMMA InitInvariant == Init => IInv
<1> SUFFICES ASSUME Init PROVE IInv
  OBVIOUS
<1>1. TypeOK
  BY InitTypes
<1>2. SudoHasAnEnd /\ RootExpires
  BY SizesArePositive DEF Init, SudoHasAnEnd, RootExpires
<1>3. ArrayHoldsLog
  BY DEF Init, ArrayHoldsLog
<1>4. QED
  BY <1>1, <1>2, <1>3 DEF IInv

(* The invariant holds in every reachable state.                           *)
THEOREM ShellInvariant == Spec => []IInv
<1>1. IInv /\ [Next]_vars => IInv'
  BY NextTypes, NextSudo, NextArray DEF IInv
<1>2. QED
  BY InitInvariant, <1>1, PTL DEF Spec

(* Every variable of the shell keeps its type: the position that the arrow *)
(* keys move stays between the first command and the empty line after the  *)
(* last one, so no key press indexes the history below it (main.c, the two *)
(* arrow branches of interrupt_handler).                                   *)
THEOREM Types == Spec => []TypeOK
<1>1. IInv => TypeOK
  BY DEF IInv
<1>2. QED
  BY ShellInvariant, <1>1, PTL

(* A command runs as root only within LIFETIME ticks of a sudo, whatever   *)
(* commands and ticks come between (execute in main.c).                    *)
THEOREM SudoEnds == Spec => []RootExpires
<1>1. IInv => RootExpires
  BY DEF IInv
<1>2. QED
  BY ShellInvariant, <1>1, PTL

(* As long as no more commands were recorded than the array holds, an arrow*)
(* key shows the command that history_pos stands for.                      *)
THEOREM ArrowsRecall == Spec => RecallsWhatWasTyped
<1>1. IInv /\ [Next]_vars => RecallStep
  BY NextRecalls DEF IInv
<1>2. QED
  BY ShellInvariant, <1>1, PTL DEF Spec, RecallsWhatWasTyped
=============================================================================
