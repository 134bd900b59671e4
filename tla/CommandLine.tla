---------------------------- MODULE CommandLine -----------------------------
(***************************************************************************)
(* What execute (src/impl/kernel/main.c) and the tree it works on (vfs.c)  *)
(* do with the heap: a line takes an array and a copy of each of its words,*)
(* runs another line for sudo, and frees at its end, unless it returns     *)
(* before; its commands take and free nodes and the contents of files, and *)
(* the history grows by what was typed.  What the commands do otherwise is *)
(* in Shell and Vfs, and how the heap finds its blocks in Heap: here it has*)
(* room for a number of blocks, a block is a number, and an array, a word, *)
(* a node or a line of contents is one.                                    *)
(***************************************************************************)
EXTENDS Integers, Sequences, SequencesExt

CONSTANTS MaxBlocks,    \* bound: blocks that the heap has room for
          Start,        \* blocks of the tree that init_filesystem makes
          Words, Lines  \* words, and the lines of them that users type

Redirects == {">", ">>"}

ASSUME CommandLineAssumption ==
  /\ MaxBlocks \in Nat
  /\ Start \in 1..MaxBlocks
  /\ Lines \subseteq Seq(Words)

Blocks == 1..MaxBlocks
NULL   == 0

VARIABLES live,      \* the blocks in use
          calls,     \* the calls of execute under way, the innermost last
          nodes,     \* the blocks that are nodes of the tree
          contents,  \* for each file with contents, the blocks of these
          status,    \* "ok", "exhausted" (page 0 is written) or "stopped"
          careless   \* ghost: a line of one of the kinds that lose memory was run

vars == <<live, calls, nodes, contents, status, careless>>

(* The tree of the start: its nodes, and the contents of hostname.         *)
Init ==
  /\ live = 1..Start /\ calls = <<>>
  /\ nodes = 1..(Start - 1) /\ contents = {{Start}}
  /\ status = "ok"
  /\ careless = FALSE

-----------------------------------------------------------------------------
Top == calls[Len(calls)]

At(step) == status = "ok" /\ calls # <<>> /\ Top.step = step

(* The innermost call with another value of a field.                       *)
GoTo(step) == calls' = [calls EXCEPT ![Len(calls)].step = step]

(* The first n of the blocks that are not in use.                          *)
Fresh(n, used) ==
  {b \in Blocks \ used : Cardinality({c \in Blocks \ used : c < b}) < n}

(* kmalloc finds too few: it returns the null pointer, which nobody tests. *)
Exhausted(n) ==
  /\ Cardinality(Blocks \ live) < n
  /\ status' = "exhausted"
  /\ UNCHANGED <<live, calls, nodes, contents, careless>>

(* Where a redirection starts, 0 if there is none: ">" with nothing behind *)
(* it is a word like any other.                                            *)
Cut(line) ==
  LET at == {i \in 1..(Len(line) - 1) : line[i] \in Redirects}
  IN IF at = {} THEN 0 ELSE CHOOSE i \in at : \A j \in at : i <= j

(* What is left of a line for the command.                                 *)
Command(line) == IF Cut(line) = 0 THEN line ELSE SubSeq(line, 1, Cut(line) - 1)

(* The commands, by what they do to the tree's memory: nothing, make or    *)
(* remove something; and those that do not come back.                      *)
Quiet == {"clear", "help", "uname", "color", "cd", "ls", "cat", "pwd", "uptime", "mv",
          "whoami", "hostname", "free", "neofetch", "date", "memmap", "memtest", "history"}
Makers == {"mkdir", "touch"}
Stoppers == {"reboot", "panic"}
Known == Quiet \cup Makers \cup Stoppers \cup {"sudo", "echo", "cp", "rm", "rmdir"}

Recursive(line) == \E i \in 2..Len(line) : line[i] \in {"-r", "-rf"}

(* The kinds of line that lose memory: they return early, drop the words   *)
(* behind a redirection, or remove a file as if it were a directory.  Under*)
(* sudo the rest of the line is a line.                                    *)
LosesItself(line) ==
  \/ line = <<>> \/ line[1] \notin Known \/ line \in {<<"sudo">>, <<"cat">>}
  \/ line[1] = "rm" /\ Recursive(line)

Loses(line) ==
  \/ Cut(line) # 0
  \/ \E k \in 0..Len(line) :
       (\A i \in 1..k : line[i] = "sudo") /\ LosesItself(SubSeq(line, k + 1, Len(line)))

Call(line, rest) ==
  calls' = Append(rest, [line |-> line, array |-> NULL, tokens |-> <<>>,
                         step |-> "array", redirect |-> FALSE])

(* The Enter key.                                                          *)
Enter(line) ==
  /\ status = "ok" /\ calls = <<>>
  /\ Call(line, <<>>)
  /\ careless' = (careless \/ Loses(line))
  /\ UNCHANGED <<live, nodes, contents, status>>

TakeArray ==
  /\ At("array")
  /\ \/ Exhausted(1)
     \/ \E b \in Fresh(1, live) :
          /\ live' = live \cup {b}
          /\ calls' = [calls EXCEPT ![Len(calls)] = [@ EXCEPT !.array = b, !.step = "tokens"]]
          /\ UNCHANGED <<nodes, contents, status, careless>>

TakeToken ==
  /\ At("tokens") /\ Len(Top.tokens) < Len(Top.line)
  /\ \/ Exhausted(1)
     \/ \E b \in Fresh(1, live) :
          /\ live' = live \cup {b}
          /\ calls' = [calls EXCEPT ![Len(calls)].tokens = Append(@, b)]
          /\ UNCHANGED <<nodes, contents, status, careless>>

(* The redirection takes its words off the count.                          *)
Redirect ==
  /\ At("tokens") /\ Len(Top.tokens) = Len(Top.line)
  /\ calls' = [calls EXCEPT ![Len(calls)] =
                 [Top EXCEPT !.line = Command(@), !.redirect = Cut(Top.line) # 0,
                             !.step = "record"]]
  /\ UNCHANGED <<live, nodes, contents, status, careless>>

(* The call goes on, and has done nothing to the heap.                     *)
GoOn(next) == GoTo(next) /\ UNCHANGED <<live, nodes, contents, status, careless>>

-----------------------------------------------------------------------------
(* What vfs.c does with the heap; old is what a file contains, no block at *)
(* all if it has no contents yet.                                          *)
NewNode(next) ==
  \/ Exhausted(1)
  \/ \E b \in Fresh(1, live) :
       /\ live' = live \cup {b} /\ nodes' = nodes \cup {b}
       /\ GoTo(next)
       /\ UNCHANGED <<contents, status, careless>>

(* vfs_write, appending: room for the old contents and the new line, and   *)
(* the old contents are freed.                                             *)
AddKeepingOld(old, next) ==
  LET n == Cardinality(old) + 1
  IN  \/ Exhausted(n)
      \/ /\ Cardinality(Blocks \ live) >= n
         /\ live' = (live \cup Fresh(n, live)) \ old
         /\ contents' = contents \cup {Fresh(n, live)}
         /\ GoTo(next)
         /\ UNCHANGED <<nodes, status, careless>>
Add(old, next) ==
  LET n == Cardinality(old) + 1
  IN  \/ Exhausted(n)
      \/ /\ Cardinality(Blocks \ live) >= n
         /\ live' = (live \cup Fresh(n, live)) \ old
         /\ contents' = (contents \ {old}) \cup {Fresh(n, live)}
         /\ GoTo(next)
         /\ UNCHANGED <<nodes, status, careless>>

(* Replacing: here the old contents are freed first.                       *)
Overwrite(old, next) ==
  \/ old = {} /\ Exhausted(1)
  \/ \E b \in Fresh(1, live \ old) :
       /\ live' = (live \ old) \cup {b}
       /\ contents' = (contents \ {old}) \cup {{b}}
       /\ GoTo(next)
       /\ UNCHANGED <<nodes, status, careless>>

(* vfs_cp: the contents once more.                                         *)
CopyOf(old, next) ==
  LET n == Cardinality(old)
  IN  \/ Exhausted(n)
      \/ /\ Cardinality(Blocks \ live) >= n
         /\ live' = live \cup Fresh(n, live)
         /\ contents' = contents \cup {Fresh(n, live)}
         /\ GoTo(next)
         /\ UNCHANGED <<nodes, status, careless>>

(* These nodes and contents are no longer in the tree, and of their blocks *)
(* the given ones are freed.                                               *)
TakeAway(gone, data, freed) ==
  /\ live' = live \ freed
  /\ nodes' = nodes \ gone /\ contents' = contents \ data
  /\ GoTo("free")
  /\ UNCHANGED <<status, careless>>

(* The history is written before the command is run, unless in sudo mode,  *)
(* which a sudo some time ago may have left on, or for an empty line; a    *)
(* line of blanks is not empty.  vfs_write makes the file if it is missing,*)
(* and may be refused.                                                     *)
Record ==
  \/ At("record") /\ GoOn("run")
  \/ At("record") /\ Len(calls) = 1 /\ NewNode("append")
  \/ At("record") /\ Len(calls) = 1 /\ \E old \in contents \cup {{}} : Add(old, "run")
  \/ At("append") /\ (GoOn("run") \/ Add({}, "run"))

-----------------------------------------------------------------------------
(* The commands.                                                           *)
Word == IF Top.line = <<>> THEN "" ELSE Top.line[1]

(* return before the end: nothing is freed.                                *)
Return ==
  /\ calls' = Front(calls)
  /\ UNCHANGED <<live, nodes, contents, status, careless>>

Stop == status' = "stopped" /\ UNCHANGED <<live, calls, nodes, contents, careless>>

RunLost ==
  /\ At("run")
  /\ \/ Word \notin Known /\ Len(Top.tokens) > 0
     \/ Top.line \in {<<"sudo">>, <<"cat">>}
  /\ Return

(* Without a word tokens[0] is what the memory happens to hold: as a rule  *)
(* it is no command, but it may be no address either.                      *)
RunEmpty == At("run") /\ Top.tokens = <<>> /\ (Return \/ GoOn("free") \/ Stop)

(* sudo runs the words that follow, as a line of their own, which has lost *)
(* the redirection; then it frees its own.                                 *)
RunSudo ==
  /\ At("run") /\ Word = "sudo" /\ Len(Top.line) > 1
  /\ Call(Tail(Top.line), [calls EXCEPT ![Len(calls)].step = "free"])
  /\ UNCHANGED <<live, nodes, contents, status, careless>>

(* echo with a redirection makes the file when it is missing, and writes to*)
(* it, unless vfs_write refuses.                                           *)
RunEcho ==
  \/ At("run") /\ Word = "echo" /\ GoOn("free")
  \/ At("run") /\ Word = "echo" /\ Top.redirect /\ NewNode("write")
  \/ /\ At("run") /\ Word = "echo" /\ Top.redirect
     /\ \E old \in contents \cup {{}} : Add(old, "free") \/ Overwrite(old, "free")
  \/ At("write") /\ (GoOn("free") \/ Overwrite({}, "free"))

RunQuiet == At("run") /\ Word \in Quiet /\ Top.line # <<"cat">> /\ GoOn("free")

RunStop == At("run") /\ Word \in Stoppers /\ Stop

RunMake == At("run") /\ Word \in Makers /\ (GoOn("free") \/ NewNode("free"))

(* cp makes a node and gives it what the source contains; with -r it goes  *)
(* on as long as there is something to copy.                               *)
RunCopy ==
  \/ At("run") /\ Word = "cp" /\ (GoOn("free") \/ NewNode("copy"))
  \/ /\ At("copy")
     /\ \E next \in IF Recursive(Top.line) THEN {"run"} ELSE {"free"} :
          GoOn(next) \/ \E old \in contents : CopyOf(old, next)

(* rm frees a node and what it contains, rmdir a node; rm -r takes nodes   *)
(* and contents away, of which it frees some.                              *)
RunRemove ==
  \/ At("run") /\ Word \in {"rm", "rmdir"} /\ GoOn("free")
  \/ /\ At("run") /\ Word \in {"rm", "rmdir"}
     /\ \E b \in nodes, data \in {{}} \cup {{c} : c \in contents} :
          /\ Word = "rmdir" => data = {}
          /\ TakeAway({b}, data, {b} \cup UNION data)
  \/ /\ At("run") /\ Word = "rm" /\ Recursive(Top.line)
     /\ \E gone \in SUBSET nodes, data \in SUBSET contents :
          \E kept \in SUBSET gone, lost \in SUBSET data :
            TakeAway(gone, data, (gone \ kept) \cup UNION (data \ lost))

(* The end of execute: the words that are still counted, and the array.    *)
FreeTokensOnly ==
  /\ At("free")
  /\ live' = live \ {Top.tokens[i] : i \in 1..Len(Top.line)}
  /\ calls' = Front(calls)
  /\ UNCHANGED <<nodes, contents, status, careless>>
FreeTokens ==
  /\ At("free")
  /\ live' = live \ ({Top.array} \cup {Top.tokens[i] : i \in 1..Len(Top.line)})
  /\ calls' = Front(calls)
  /\ UNCHANGED <<nodes, contents, status, careless>>

Next ==
  \/ \E line \in Lines : Enter(line)
  \/ TakeArray \/ TakeToken \/ Redirect \/ Record
  \/ RunLost \/ RunEmpty \/ RunSudo \/ RunEcho
  \/ RunQuiet \/ RunStop \/ RunMake \/ RunCopy \/ RunRemove
  \/ FreeTokens

Spec == Init /\ [][Next]_vars

-----------------------------------------------------------------------------
Held ==
  (UNION {{calls[i].array} \cup {calls[i].tokens[j] : j \in 1..Len(calls[i].tokens)}
           : i \in 1..Len(calls)}) \ {NULL}

Tree == nodes \cup UNION contents

(* The calls are of lines, with a block for each word at most; a nested    *)
(* call waits for nothing but its own end.                                 *)
TypeOK ==
  /\ live \subseteq Blocks
  /\ status \in {"ok", "exhausted", "stopped"} /\ careless \in BOOLEAN
  /\ \A i \in 1..Len(calls) :
       /\ calls[i].line \in Seq(Words)
       /\ Len(calls[i].tokens) <= MaxBlocks
       /\ calls[i].step \in {"array", "tokens", "record", "append",
                             "run", "write", "copy", "free"}
       /\ i < Len(calls) => calls[i].step = "free" /\ calls[i].line[1] = "sudo"

(* What the shell and the tree still point to is theirs: no block of a     *)
(* token, a node or a file has been freed, and none is held twice, by a    *)
(* nested call, its caller, a node, or one of two files.                   *)
NothingStale ==
  /\ Held \cup Tree \subseteq live
  /\ Held \cap Tree = {} /\ nodes \cap UNION contents = {}
  /\ \A c, d \in contents : c # d => c \cap d = {}
  /\ \A i, j \in 1..Len(calls) :
       i # j => calls[i].array # calls[j].array \/ calls[i].array = NULL

(* Every block has at most one owner, who finds it as it was left.         *)
BlocksAreOwned == TypeOK /\ NothingStale

(* A line loses memory only if it is empty, unknown, redirected, a rm -r,  *)
(* or cat or sudo without an operand, by itself or under sudo: whatever    *)
(* else is typed, in any order, every block is still held by somebody.     *)
NothingLost == ~careless => live = Held \cup Tree

(* Until such a line was run the shell runs out of memory, and writes over *)
(* page 0, only because of the tree, which the history makes grow: what the*)
(* call, those that its sudos make, and twice the tree take has no room.   *)
ExhaustionHasReason ==
  status = "exhausted" /\ ~careless =>
    LET words == Len(calls[1].line)
    IN  2 * MaxBlocks < words * (words + 3) + 4 * Cardinality(Tree) + 2

(* Memory comes back, but for what the careless lines and the tree take.   *)
MemoryComesBack == NothingLost /\ ExhaustionHasReason
=============================================================================
