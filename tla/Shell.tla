-------------------------------- MODULE Shell --------------------------------
(***************************************************************************)
(* The shell of src/impl/kernel/main.c: what a command line does to the    *)
(* history and to sudo mode (execute), what the arrow keys recall          *)
(* (interrupt_handler, history_load_page), and the timer that ends sudo    *)
(* mode.  One interrupt is one step: execute runs inside the keyboard      *)
(* interrupt.                                                              *)
(*                                                                         *)
(* A command line is reduced to what these parts distinguish: whether it   *)
(* starts with sudo, and which command follows.  Of the commands, rm stands*)
(* for one that removes the history file, panic is panic, and ls any other *)
(* one.                                                                    *)
(***************************************************************************)
EXTENDS Integers, Sequences

CONSTANTS HISTORY_SIZE, \* commands that fit into the array
          LIFETIME,     \* PIT_FREQ * 60: ticks that sudo mode lasts
          Lines,        \* the command lines that users type
          MaxCommands,  \* bound: commands in the history
          MaxTicks      \* bound: timer interrupts

ASSUME ShellAssumption ==
  /\ HISTORY_SIZE \in Nat \ {0} /\ LIFETIME \in Nat \ {0}
  /\ Lines \subseteq [sudo : BOOLEAN, cmd : {"", "ls", "rm", "panic"}]
  /\ MaxCommands \in Nat /\ MaxTicks \in Nat

Empty   == [sudo |-> FALSE, cmd |-> ""]
Garbage == [sudo |-> FALSE, cmd |-> "garbage"]  \* memory next to the array
Missing == "missing"                            \* no history file

VARIABLES history, history_count, history_pos, page_start,
          file,          \* the lines of /home/root/.ksh_history
          line,          \* the command line in input_buffer
          sudo_mode, sudo_expires, ticks,
          halted,
          log,           \* every command recorded, in order
          granted,       \* the tick of the last sudo, long ago if none
          last           \* the last command executed, whether as root, and when

past == <<history, history_count, history_pos, page_start, file, log>>
sudo == <<sudo_mode, sudo_expires, granted>>
vars == <<history, history_count, history_pos, page_start, file, line,
          sudo_mode, sudo_expires, ticks, halted, log, granted, last>>

Init ==
  /\ history = [i \in 0..(HISTORY_SIZE - 1) |-> Empty]
  /\ history_count = 0 /\ history_pos = 0 /\ page_start = 0
  /\ file = <<>>
  /\ line = Empty
  /\ sudo_mode = FALSE /\ sudo_expires = 0
  /\ ticks = 0
  /\ halted = FALSE
  /\ log = <<>>
  /\ granted = -(LIFETIME + 1)
  /\ last = [line |-> Empty, root |-> FALSE, at |-> 0]

-----------------------------------------------------------------------------
(* The timer interrupt.                                                    *)
Tick ==
  /\ ticks < MaxTicks
  /\ ticks' = ticks + 1
  /\ UNCHANGED <<past, sudo, line, halted, last>>

(* The user types a line in the place of what is there.                    *)
Type(text) ==
  /\ line' = text
  /\ UNCHANGED <<past, sudo, ticks, halted, last>>

(* Sudo mode has run out.                                                  *)
NeverExpired == FALSE
Expired == sudo_expires > 0 /\ ticks > sudo_expires

(* "sudo" alone is an error.                                               *)
Grants(text) == text.sudo /\ text.cmd # ""

(* The command line is recorded before it is run, unless it is empty or    *)
(* the user is root already; "sudo x" is recorded once, as a whole, because*)
(* x is run in sudo mode.                                                  *)
Recorded(text) == text # Empty /\ (~sudo_mode \/ Expired)

SlotShifted(n) == (n + 1) % HISTORY_SIZE
Slot(n) == n % HISTORY_SIZE

Written == IF file = Missing THEN <<line>> ELSE Append(file, line)

(* What a command other than sudo does.                                    *)
Run(text, contents) ==
  /\ file' = IF text.cmd = "rm" THEN Missing ELSE contents
  /\ halted' = (text.cmd = "panic")

(* execute, called for the Enter key.  An empty line still looks at a      *)
(* first token that is not there; the command it may find has no operands  *)
(* and has run before, and does nothing here.                              *)
Execute ==
  /\ Recorded(line) => history_count < MaxCommands
  /\ IF Recorded(line)
     THEN /\ history' = [history EXCEPT ![Slot(history_count)] = line]
          /\ history_count' = history_count + 1
          /\ history_pos' = history_count + 1
          /\ log' = Append(log, line)
          /\ Run(line, Written)
     ELSE /\ UNCHANGED <<history, history_count, history_pos, log>>
          /\ Run(line, file)
  /\ sudo_mode' = ((sudo_mode /\ ~Expired) \/ Grants(line))
  /\ sudo_expires' = IF Grants(line) THEN ticks + LIFETIME
                     ELSE IF Expired THEN 0 ELSE sudo_expires
  /\ granted' = IF Grants(line) THEN ticks ELSE granted
  /\ last' = [line |-> line, root |-> sudo_mode', at |-> ticks]
  /\ line' = Empty
  /\ UNCHANGED <<page_start, ticks>>

-----------------------------------------------------------------------------
(* history_load_page: the array after reading the file from line number    *)
(* start.  Without a file, or before anything is in it, nothing changes;   *)
(* where the file has too few lines the old elements stay.                 *)
Loads == file # Missing /\ file # <<>>

Page(start) ==
  IF Loads
  THEN [i \in 0..(HISTORY_SIZE - 1) |->
          IF start + i < Len(file) THEN file[start + i + 1] ELSE history[i]]
  ELSE history

(* The text at an index of the array: C's remainder of a negative number is*)
(* negative or zero, and below the array lies other memory.                *)
At(page, start, pos) ==
  IF pos >= start THEN page[(pos - start) % HISTORY_SIZE]
  ELSE IF (start - pos) % HISTORY_SIZE = 0 THEN page[0]
  ELSE Garbage

(* The end of both arrow keys: with a new page starting at start or, when  *)
(* nothing is to be loaded, with the old one.                              *)
Show(pos, reload, start) ==
  LET page  == IF reload THEN Page(start) ELSE history
      first == IF reload /\ Loads THEN start ELSE page_start
  IN /\ history' = page
     /\ page_start' = first
     /\ history_pos' = pos
     /\ line' = At(page, first, pos)

(* The arrow up.                                                           *)
Up ==
  /\ history_pos > 0
  /\ LET pos   == history_pos - 1
         start == IF pos - HISTORY_SIZE + 1 < 0 THEN 0 ELSE pos - HISTORY_SIZE + 1
     IN Show(pos, pos < page_start, start)
  /\ UNCHANGED <<history_count, file, sudo, ticks, halted, log, last>>

(* The arrow down: to a later command, or from the last one to an empty    *)
(* line.                                                                   *)
DownUnbounded ==
  /\ LET pos == history_pos + 1
     IN Show(pos, pos >= page_start + HISTORY_SIZE, pos)
  /\ UNCHANGED <<history_count, file, sudo, ticks, halted, log, last>>
Down ==
  /\ history_pos < history_count - 1
  /\ LET pos == history_pos + 1
     IN Show(pos, pos >= page_start + HISTORY_SIZE, pos)
  /\ UNCHANGED <<history_count, file, sudo, ticks, halted, log, last>>

DownToEmpty ==
  /\ history_pos = history_count - 1
  /\ history_pos' = history_count
  /\ line' = Empty
  /\ UNCHANGED <<history, history_count, page_start, file, sudo, ticks, halted, log, last>>

Next == /\ ~halted
        /\ \/ Tick \/ Execute \/ Up \/ Down \/ DownToEmpty
           \/ \E text \in Lines : Type(text)

Spec == Init /\ [][Next]_vars

-----------------------------------------------------------------------------
(* Every variable has the values it is meant to have; the navigation       *)
(* position stays between the first command and the empty line after the   *)
(* last one.                                                               *)
Text == Lines \cup {Empty, Garbage}

TypeOK ==
  /\ history \in [0..(HISTORY_SIZE - 1) -> Text]
  /\ history_count \in Nat /\ history_pos \in 0..history_count
  /\ page_start \in 0..history_count
  /\ file = Missing \/ file \in Seq(Text)
  /\ line \in Text
  /\ sudo_mode \in BOOLEAN /\ sudo_expires \in Nat /\ ticks \in Nat
  /\ halted \in BOOLEAN
  /\ log \in Seq(Text) /\ Len(log) = history_count
  /\ granted \in Int
  /\ last \in [line : Text, root : BOOLEAN, at : Nat]

(* As long as no more commands have been recorded than the array holds, an *)
(* arrow key shows exactly the command that history_pos stands for, or an  *)
(* empty line after the last one, whatever has happened to the file.       *)
RecallStep ==
  history_pos' # history_pos /\ history_count' = history_count
      /\ history_count <= HISTORY_SIZE
    => line' = IF history_pos' < history_count THEN log[history_pos' + 1] ELSE Empty

RecallsWhatWasTyped == [][RecallStep]_vars

(* A command runs as root only within LIFETIME ticks of a sudo, although   *)
(* nothing but the next command line ever looks at the clock.              *)
RootExpires == last.root => last.at <= granted + LIFETIME

(* page_start, "which command the array starts at".                        *)
PageStartIsFirst == history_count > page_start => history[0] = log[page_start + 1]

(* "panic: requires `sudo`".                                               *)
PanicNeedsSudo == halted => last.root
=============================================================================
