---------------------------- MODULE InputProofs -----------------------------
(***************************************************************************)
(* Proofs about the way of a line into the system: module Keyboard, where  *)
(* interrupt_handler puts it together, and module CommandLine, where       *)
(* execute takes it apart (src/impl/kernel/main.c).                        *)
(*                                                                         *)
(* The keyboard, for any users, any number of bytes under way and any      *)
(* length of the line: the modifiers of the kernel follow those of the     *)
(* user.  Each byte records what was held when it was sent, so the bytes   *)
(* under way, replayed in order, lead from what the kernel has seen of the *)
(* keys to what is pressed now; and the flags of the kernel say of the keys*)
(* it has seen what they should.                                           *)
(*                                                                         *)
(* The blocks that execute takes, for any heap and any lines: each has one *)
(* owner, and memory comes back, but for what careless lines lose and the  *)
(* tree holds.  IInv says what a call has taken at each of its steps, that *)
(* calls and tree share nothing, that all but the last call wait for the   *)
(* end of a sudo, and, as long as no careless line has been run, that      *)
(* whatever is in use has an owner.  TopStep, TreeStep, PushStep and       *)
(* PopStep are the four ways in which a step changes who owns what; each   *)
(* action is one of them.                                                  *)
(***************************************************************************)
EXTENDS Keyboard, CommandLine, SequenceTheorems, FiniteSetTheorems, WellFoundedInduction, TLAPS

-----------------------------------------------------------------------------
(* Facts about sequences and numbers.                                      *)

(* The same for an element put at the end.                                 *)
LEMMA AppendFacts ==
  ASSUME NEW S, NEW s \in Seq(S), NEW e \in S
  PROVE  /\ Append(s, e) \in Seq(S)
         /\ Len(Append(s, e)) = Len(s) + 1
         /\ \A k \in 1..Len(s) : Append(s, e)[k] = s[k]
         /\ Append(s, e)[Len(s) + 1] = e
OBVIOUS

(* A set of natural numbers has a first one.                               *)
LEMMA Least ==
  ASSUME NEW S \in SUBSET Nat, S # {}
  PROVE  \E m \in S : \A k \in S : m <= k
<1>1. PICK m \in S : \A k \in S : <<k, m>> \notin OpToRel(<, Nat)
  BY NatLessThanWellFounded, WFMin, Zenon
<1>2. \A k \in S : ~(k < m)
  BY <1>1, Zenon DEF OpToRel
<1> QED
  BY <1>2

(* Induction, for a set of numbers instead of a property of them.          *)
LEMMA AllNumbers ==
  ASSUME NEW T \in SUBSET Nat, 0 \in T, \A n \in T : n + 1 \in T
  PROVE  T = Nat
<1> SUFFICES ASSUME Nat \ T # {} PROVE FALSE
  OBVIOUS
<1>1. PICK m \in Nat \ T : \A k \in Nat \ T : m <= k
  BY Least, Zenon
<1>2. m # 0 /\ m - 1 \in Nat /\ m - 1 \notin Nat \ T
  BY <1>1
<1>3. (m - 1) + 1 \in T
  BY <1>2
<1> QED
  BY <1>1, <1>3

-----------------------------------------------------------------------------
Parsed == {"record", "append", "run", "write", "copy", "free"}
Steps == {"array", "tokens"} \cup Parsed

CallType == [line : Seq(Words), array : Blocks \cup {NULL}, tokens : Seq(Blocks),
             step : Steps, redirect : BOOLEAN]

(* The blocks that a call will have to free.                               *)
Owns(c) == ({c.array} \cup {c.tokens[j] : j \in 1..Len(c.tokens)}) \ {NULL}

Types ==
  /\ live \subseteq Blocks
  /\ calls \in Seq(CallType)
  /\ nodes \subseteq Blocks /\ contents \subseteq SUBSET Blocks
  /\ status \in {"ok", "exhausted", "stopped"}
  /\ careless \in BOOLEAN

(* A call has the array first, then a token for every word; the words that *)
(* are still counted all have theirs, and no block is two of its own.      *)
Sound(c) ==
  /\ c.step = "array" => c.array = NULL /\ c.tokens = <<>>
  /\ c.step # "array" => c.array # NULL
  /\ c.step = "tokens" => Len(c.tokens) <= Len(c.line)
  /\ c.step \in Parsed => Len(c.line) <= Len(c.tokens)
  /\ \A j \in 1..Len(c.tokens) : c.tokens[j] # c.array
  /\ \A j, k \in 1..Len(c.tokens) : c.tokens[j] = c.tokens[k] => j = k

CallsAreSound == \A i \in 1..Len(calls) : Sound(calls[i])

(* Two calls, or a call and the tree, share no block, and all they have is *)
(* in use.                                                                 *)
NothingShared ==
  /\ \A i, j \in 1..Len(calls) : i # j => Owns(calls[i]) \cap Owns(calls[j]) = {}
  /\ \A i \in 1..Len(calls) : Owns(calls[i]) \cap Tree = {}
  /\ \A i \in 1..Len(calls) : Owns(calls[i]) \subseteq live

(* The same of the parts of the tree.                                      *)
Apart(cs) == \A c, d \in cs : c # d => c \cap d = {}
TreeIsSound == Tree \subseteq live /\ nodes \cap UNION contents = {} /\ Apart(contents)

(* A call that waits is that of sudo, with nothing left to do but to free. *)
OthersWait ==
  \A i \in 1..(Len(calls) - 1) :
    calls[i].step = "free" /\ calls[i].line # <<>> /\ calls[i].line[1] = "sudo"

(* While no careless line has been run: each call is of what sudo has left *)
(* of a line, which loses nothing and keeps its words, and whatever is in  *)
(* use has an owner.                                                       *)
Thrifty(c) ==
  ~Loses(c.line) /\ ~c.redirect /\ (c.step \in Parsed => Len(c.tokens) = Len(c.line))

Careful ==
  ~careless =>
    /\ \A i \in 1..Len(calls) : Thrifty(calls[i])
    /\ \A i \in 1..(Len(calls) - 1) : calls[i + 1].line = Tail(calls[i].line)
    /\ \A b \in live : (\E i \in 1..Len(calls) : b \in Owns(calls[i])) \/ b \in Tree

IInv == Types /\ CallsAreSound /\ NothingShared /\ TreeIsSound /\ OthersWait /\ Careful

(* At the start there is no call, and what is in use is the tree.          *)
LEMMA InitIInv == Init => IInv
<1> SUFFICES ASSUME Init PROVE IInv
  OBVIOUS
<1>1. /\ live = 1..Start /\ calls = <<>> /\ status = "ok" /\ careless = FALSE
      /\ nodes = 1..(Start - 1) /\ contents = {{Start}}
  BY DEF Init
<1>2. Start \in Nat /\ Start >= 1 /\ Start <= MaxBlocks /\ MaxBlocks \in Nat
  BY CommandLineAssumption
<1>3. calls \in Seq(CallType) /\ Len(calls) = 0
  BY <1>1
<1>4. Types
  <2>1. live \subseteq Blocks /\ nodes \subseteq Blocks /\ {Start} \subseteq Blocks
    BY <1>1, <1>2 DEF Blocks
  <2>2. contents \subseteq SUBSET Blocks
    BY <1>1, <2>1
  <2> QED
    BY <1>1, <1>3, <2>1, <2>2 DEF Types
<1>5. UNION contents = {Start}
  BY <1>1
<1>6. Tree = live /\ nodes \cap UNION contents = {}
  BY <1>1, <1>2, <1>5 DEF Tree
<1>7. TreeIsSound
  BY <1>1, <1>6 DEF TreeIsSound, Apart
<1>8. CallsAreSound /\ OthersWait /\ NothingShared
  BY <1>3 DEF CallsAreSound, OthersWait, NothingShared
<1>9. Careful
  BY <1>3, <1>6 DEF Careful
<1> QED
  BY <1>4, <1>7, <1>8, <1>9 DEF IInv

(* The call that runs.                                                     *)
LEMMA TopFacts ==
  ASSUME Types, calls # <<>>
  PROVE  /\ Len(calls) \in Nat /\ Len(calls) >= 1
         /\ Top = calls[Len(calls)]
         /\ Top \in CallType
         /\ Top.line \in Seq(Words) /\ Top.array \in Blocks \cup {NULL}
         /\ Top.tokens \in Seq(Blocks) /\ Top.step \in Steps
<1>1. calls \in Seq(CallType) /\ calls # <<>>
  BY DEF Types
<1>2. Len(calls) \in Nat /\ Len(calls) >= 1
  BY <1>1
<1>3. Top \in CallType
  BY <1>1, <1>2 DEF Top
<1> QED
  BY <1>2, <1>3 DEF Top, CallType

(* Changing it leaves the others as they are.                              *)
LEMMA SetTop ==
  ASSUME Types, calls # <<>>, NEW c \in CallType
  PROVE  LET t == [calls EXCEPT ![Len(calls)] = c]
         IN  /\ t \in Seq(CallType) /\ Len(t) = Len(calls)
             /\ t[Len(calls)] = c
             /\ \A i \in 1..(Len(calls) - 1) : t[i] = calls[i]
<1>1. calls \in Seq(CallType) /\ Len(calls) \in Nat /\ Len(calls) >= 1
  BY TopFacts DEF Types
<1> QED
  BY <1>1

(* When it returns, the calls before it are those that are left.           *)
LEMMA DropTop ==
  ASSUME Types, calls # <<>>
  PROVE  /\ Front(calls) \in Seq(CallType) /\ Len(Front(calls)) = Len(calls) - 1
         /\ \A i \in 1..(Len(calls) - 1) : Front(calls)[i] = calls[i]
<1>1. calls \in Seq(CallType) /\ Len(calls) \in Nat /\ Len(calls) >= 1
  BY TopFacts DEF Types
<1> DEFINE n == Len(calls)
<1>2. n \in Nat /\ n >= 1 /\ n - 1 \in Int /\ \A i \in 1..(n - 1) : calls[i] \in CallType
  BY <1>1
<1> HIDE DEF n
<1>3. /\ SubSeq(calls, 1, n - 1) \in Seq(CallType) /\ Len(SubSeq(calls, 1, n - 1)) = n - 1
      /\ \A i \in 1..(n - 1) : SubSeq(calls, 1, n - 1)[i] = calls[i]
  <2>1. /\ SubSeq(calls, 1, n - 1) \in Seq(CallType)
        /\ Len(SubSeq(calls, 1, n - 1)) = IF 1 <= n - 1 THEN n - 1 - 1 + 1 ELSE 0
        /\ \A i \in 1..(n - 1 - 1 + 1) : SubSeq(calls, 1, n - 1)[i] = calls[1 + i - 1]
    BY <1>2, SubSeqProperties
  <2>2. (IF 1 <= n - 1 THEN n - 1 - 1 + 1 ELSE 0) = n - 1 /\ n - 1 - 1 + 1 = n - 1
    BY <1>2
  <2>3. \A i \in 1..(n - 1) : 1 + i - 1 = i
    BY <1>2
  <2> QED
    BY <2>1, <2>2, <2>3
<1> QED
  BY <1>3 DEF Front, n

(* What a call owns, token by token.                                       *)
LEMMA OwnsFacts ==
  ASSUME NEW c \in CallType
  PROVE  /\ Owns(c) \subseteq Blocks
         /\ c.array # NULL => c.array \in Owns(c)
         /\ \A j \in 1..Len(c.tokens) : c.tokens[j] \in Owns(c)
         /\ \A b \in Owns(c) : b = c.array \/ \E j \in 1..Len(c.tokens) : b = c.tokens[j]
<1>1. c.array \in Blocks \cup {NULL} /\ c.tokens \in Seq(Blocks)
  BY DEF CallType
<1>2. \A j \in 1..Len(c.tokens) : c.tokens[j] \in Blocks
  BY <1>1
<1>3. NULL \notin Blocks
  BY DEF NULL, Blocks
<1> QED
  BY <1>1, <1>2, <1>3 DEF Owns

-----------------------------------------------------------------------------
(* A step that changes the call that runs, and may take blocks for it.     *)
LEMMA TopStep ==
  ASSUME IInv, calls # <<>>, NEW c \in CallType,
         calls' = [calls EXCEPT ![Len(calls)] = c], Sound(c),
         NEW N, N \subseteq Blocks \ live, Owns(c) \subseteq Owns(Top) \cup N,
         Owns(Top) \cup N \subseteq Owns(c),
         live' = live \cup N, UNCHANGED <<nodes, contents, status, careless>>,
         ~careless => c.line = Top.line /\ Thrifty(c)
  PROVE  IInv'
<1> DEFINE n == Len(calls)
<1>1. Types /\ CallsAreSound /\ NothingShared /\ TreeIsSound /\ OthersWait /\ Careful
  BY DEF IInv
<1>2. n \in Nat /\ n >= 1 /\ calls[n] = Top
  BY <1>1, TopFacts
<1>3. /\ calls' \in Seq(CallType) /\ Len(calls') = n /\ calls'[n] = c
      /\ \A i \in 1..(n - 1) : calls'[i] = calls[i]
  BY <1>1, SetTop
<1>t. Tree' = Tree /\ Tree \subseteq live
  BY <1>1 DEF Tree, TreeIsSound
<1> HIDE DEF n
<1>4. Types'
  BY <1>1, <1>3 DEF Types
<1>5. CallsAreSound'
  <2>1. \A i \in 1..n : i = n \/ i \in 1..(n - 1)
    BY <1>2
  <2>2. \A i \in 1..(n - 1) : Sound(calls[i])
    BY <1>1, <1>2 DEF CallsAreSound, n
  <2>3. \A i \in 1..n : Sound(calls'[i])
    BY <1>3, <2>1, <2>2
  <2> QED
    BY <1>3, <2>3 DEF CallsAreSound
<1>6. NothingShared'
  <2>1. /\ \A i, j \in 1..n : i # j => Owns(calls[i]) \cap Owns(calls[j]) = {}
        /\ \A i \in 1..n : Owns(calls[i]) \cap Tree = {}
        /\ \A i \in 1..n : Owns(calls[i]) \subseteq live
    BY <1>1 DEF NothingShared, n
  <2>2. Owns(c) = Owns(calls[n]) \cup N
    BY <1>2
  <2>3. \A i \in 1..n : Owns(calls'[i]) \subseteq Owns(calls[i]) \cup N
    BY <1>2, <1>3, <2>2
  <2>4. \A i \in 1..n : i # n => Owns(calls'[i]) = Owns(calls[i])
    BY <1>2, <1>3
  <2>5. \A i, j \in 1..n : i # j => Owns(calls'[i]) \cap Owns(calls'[j]) = {}
    <3> SUFFICES ASSUME NEW i \in 1..n, NEW j \in 1..n, i # j, j # n
                 PROVE  Owns(calls'[i]) \cap Owns(calls'[j]) = {}
      OBVIOUS
    <3>1. Owns(calls'[j]) = Owns(calls[j]) /\ Owns(calls[j]) \subseteq live
      BY <2>1, <2>4
    <3>2. Owns(calls'[i]) \subseteq Owns(calls[i]) \cup N /\ Owns(calls[i]) \cap Owns(calls[j]) = {}
      BY <2>1, <2>3
    <3> QED
      BY <3>1, <3>2
  <2>6. \A i \in 1..n : Owns(calls'[i]) \cap Tree' = {}
    <3> SUFFICES ASSUME NEW i \in 1..n PROVE Owns(calls'[i]) \cap Tree' = {}
      OBVIOUS
    <3>1. Owns(calls'[i]) \subseteq Owns(calls[i]) \cup N /\ Owns(calls[i]) \cap Tree = {}
      BY <2>1, <2>3
    <3> QED
      BY <1>t, <3>1
  <2>7. \A i \in 1..n : Owns(calls'[i]) \subseteq live'
    BY <2>1, <2>3
  <2> QED
    BY <1>3, <2>5, <2>6, <2>7 DEF NothingShared
<1>7. OthersWait'
  BY <1>1, <1>2, <1>3 DEF OthersWait, n
<1>8. TreeIsSound'
  BY <1>1, <1>t DEF TreeIsSound, Apart
<1>9. Careful'
  <2> SUFFICES ASSUME ~careless PROVE Careful'
    BY DEF Careful
  <2>1. /\ \A i \in 1..n : Thrifty(calls[i])
        /\ \A i \in 1..(n - 1) : calls[i + 1].line = Tail(calls[i].line)
        /\ \A b \in live : (\E i \in 1..n : b \in Owns(calls[i])) \/ b \in Tree
    BY <1>1 DEF Careful, n
  <2>2. c.line = calls[n].line /\ Thrifty(c)
    BY <1>2
  <2>3. \A i \in 1..n : calls'[i].line = calls[i].line /\ Thrifty(calls'[i])
    BY <1>2, <1>3, <2>1, <2>2
  <2>4. \A i \in 1..(n - 1) : calls'[i + 1].line = Tail(calls'[i].line)
    BY <1>2, <2>1, <2>3
  <2>5. \A i \in 1..n : Owns(calls[i]) \subseteq Owns(calls'[i])
    BY <1>2, <1>3
  <2>6. N \subseteq Owns(calls'[n]) /\ n \in 1..n
    BY <1>2, <1>3
  <2>7. \A b \in live' : (\E i \in 1..n : b \in Owns(calls'[i])) \/ b \in Tree'
    BY <1>t, <2>1, <2>5, <2>6
  <2> QED
    BY <1>3, <2>3, <2>4, <2>7 DEF Careful
<1> QED
  BY <1>4, <1>5, <1>6, <1>7, <1>8, <1>9 DEF IInv

(* What vfs.c does: the tree takes blocks that were free, and gives up some*)
(* of its own, which are freed; as long as no line was careless it keeps   *)
(* the rest.                                                               *)
LEMMA TreeStep ==
  ASSUME IInv, calls # <<>>, NEW c \in CallType,
         calls' = [calls EXCEPT ![Len(calls)] = c], Sound(c), Owns(c) = Owns(Top),
         NEW N \in SUBSET (Blocks \ live), NEW F \in SUBSET Tree,
         live' = (live \cup N) \ F, Tree' \subseteq (Tree \cup N) \ F,
         nodes' \cap UNION contents' = {}, Apart(contents'), UNCHANGED <<status, careless>>,
         ~careless => /\ c.line = Top.line /\ Thrifty(c)
                      /\ (Tree \cup N) \ F \subseteq Tree'
  PROVE  IInv'
<1> DEFINE n == Len(calls)
<1>1. Types /\ CallsAreSound /\ NothingShared /\ TreeIsSound /\ OthersWait /\ Careful
  BY DEF IInv
<1>2. n \in Nat /\ n >= 1 /\ calls[n] = Top
  BY <1>1, TopFacts
<1>3. /\ calls' \in Seq(CallType) /\ Len(calls') = n /\ calls'[n] = c
      /\ \A i \in 1..(n - 1) : calls'[i] = calls[i]
  BY <1>1, SetTop
<1>4. Tree \subseteq live /\ live \subseteq Blocks /\ Tree' \subseteq live'
  BY <1>1 DEF TreeIsSound, Types
<1> HIDE DEF n
<1>5. Types'
  <2>1. Tree' \subseteq Blocks
    BY <1>4
  <2>2. nodes' \subseteq Blocks /\ contents' \subseteq SUBSET Blocks
    BY <2>1 DEF Tree
  <2> QED
    BY <1>1, <1>3, <1>4, <2>2 DEF Types
<1>6. CallsAreSound'
  <2>1. \A i \in 1..n : i = n \/ i \in 1..(n - 1)
    BY <1>2
  <2>2. \A i \in 1..(n - 1) : Sound(calls[i])
    BY <1>1, <1>2 DEF CallsAreSound, n
  <2>3. \A i \in 1..n : Sound(calls'[i])
    BY <1>3, <2>1, <2>2
  <2> QED
    BY <1>3, <2>3 DEF CallsAreSound
<1>7. \A i \in 1..n : Owns(calls'[i]) = Owns(calls[i])
  BY <1>2, <1>3
<1>8. NothingShared'
  <2>1. /\ \A i, j \in 1..n : i # j => Owns(calls[i]) \cap Owns(calls[j]) = {}
        /\ \A i \in 1..n : Owns(calls[i]) \cap Tree = {}
        /\ \A i \in 1..n : Owns(calls[i]) \subseteq live
    BY <1>1 DEF NothingShared, n
  <2>2. \A i, j \in 1..n : i # j => Owns(calls'[i]) \cap Owns(calls'[j]) = {}
    BY <1>7, <2>1
  <2>3. ASSUME NEW i \in 1..n
        PROVE  Owns(calls'[i]) \cap Tree' = {} /\ Owns(calls'[i]) \subseteq live'
    <3>1. /\ Owns(calls'[i]) = Owns(calls[i])
          /\ Owns(calls[i]) \cap Tree = {} /\ Owns(calls[i]) \subseteq live
      BY <1>7, <2>1
    <3> QED
      BY <3>1
  <2> QED
    BY <1>3, <2>2, <2>3 DEF NothingShared
<1>9. TreeIsSound'
  BY <1>4 DEF TreeIsSound
<1>10. OthersWait'
  BY <1>1, <1>2, <1>3 DEF OthersWait, n
<1>11. Careful'
  <2> SUFFICES ASSUME ~careless PROVE Careful'
    BY DEF Careful
  <2>1. /\ \A i \in 1..n : Thrifty(calls[i])
        /\ \A i \in 1..(n - 1) : calls[i + 1].line = Tail(calls[i].line)
        /\ \A b \in live : (\E i \in 1..n : b \in Owns(calls[i])) \/ b \in Tree
    BY <1>1 DEF Careful, n
  <2>2. c.line = calls[n].line /\ Thrifty(c) /\ (Tree \cup N) \ F \subseteq Tree'
    BY <1>2
  <2>3. \A i \in 1..n : calls'[i].line = calls[i].line /\ Thrifty(calls'[i])
    BY <1>2, <1>3, <2>1, <2>2
  <2>4. \A i \in 1..(n - 1) : calls'[i + 1].line = Tail(calls'[i].line)
    BY <1>2, <2>1, <2>3
  <2>5. \A b \in live' : (\E i \in 1..n : b \in Owns(calls'[i])) \/ b \in Tree'
    BY <1>7, <2>1, <2>2
  <2> QED
    BY <1>3, <2>3, <2>4, <2>5 DEF Careful
<1> QED
  BY <1>5, <1>6, <1>8, <1>9, <1>10, <1>11 DEF IInv

(* A return frees some of what the call owns, and all of it as long as no  *)
(* line was careless.                                                      *)
LEMMA PopStep ==
  ASSUME IInv, calls # <<>>, calls' = Front(calls), NEW F, F \subseteq Owns(Top),
         live' = live \ F, UNCHANGED <<nodes, contents, status, careless>>,
         ~careless => F = Owns(Top)
  PROVE  IInv'
<1> DEFINE n == Len(calls)
<1>1. Types /\ CallsAreSound /\ NothingShared /\ TreeIsSound /\ OthersWait /\ Careful
  BY DEF IInv
<1>2. n \in Nat /\ n >= 1 /\ calls[n] = Top /\ Top \in CallType
  BY <1>1, TopFacts
<1>3. /\ calls' \in Seq(CallType) /\ Len(calls') = n - 1
      /\ \A i \in 1..(n - 1) : calls'[i] = calls[i]
  BY <1>1, DropTop
<1>4. F \subseteq Owns(calls[n])
  BY <1>2
<1>5. /\ \A i, j \in 1..n : i # j => Owns(calls[i]) \cap Owns(calls[j]) = {}
      /\ \A i \in 1..n : Owns(calls[i]) \cap Tree = {}
      /\ \A i \in 1..n : Owns(calls[i]) \subseteq live
  BY <1>1 DEF NothingShared
<1>t. Tree' = Tree /\ Tree \subseteq live
  BY <1>1 DEF Tree, TreeIsSound
<1> HIDE DEF n
<1>6. Types'
  BY <1>1, <1>3 DEF Types
<1>7. CallsAreSound'
  BY <1>1, <1>2, <1>3 DEF CallsAreSound, n
<1>8. \A i \in 1..(n - 1) : i \in 1..n /\ i # n
  BY <1>2
<1>9. NothingShared'
  <2>1. \A i, j \in 1..(n - 1) : i # j => Owns(calls'[i]) \cap Owns(calls'[j]) = {}
    BY <1>3, <1>5, <1>8
  <2>2. \A i \in 1..(n - 1) : Owns(calls'[i]) \cap Tree' = {}
    BY <1>3, <1>5, <1>8, <1>t
  <2>3. \A i \in 1..(n - 1) : Owns(calls'[i]) \subseteq live'
    <3> SUFFICES ASSUME NEW i \in 1..(n - 1) PROVE Owns(calls[i]) \subseteq live'
      BY <1>3
    <3>1. i \in 1..n /\ n \in 1..n /\ i # n
      BY <1>2, <1>8
    <3>2. Owns(calls[i]) \subseteq live /\ Owns(calls[i]) \cap Owns(calls[n]) = {}
      BY <1>5, <3>1
    <3> QED
      BY <1>4, <3>2
  <2> QED
    BY <1>3, <2>1, <2>2, <2>3 DEF NothingShared
<1>10. OthersWait'
  BY <1>1, <1>2, <1>3 DEF OthersWait, n
<1>11. TreeIsSound'
  <2>1. n \in 1..n
    BY <1>2
  <2>2. Tree' \subseteq live'
    BY <1>4, <1>5, <1>t, <2>1
  <2> QED
    BY <1>1, <2>2 DEF TreeIsSound, Apart
<1>12. Careful'
  <2> SUFFICES ASSUME ~careless PROVE Careful'
    BY DEF Careful
  <2>1. /\ \A i \in 1..n : Thrifty(calls[i])
        /\ \A i \in 1..(n - 1) : calls[i + 1].line = Tail(calls[i].line)
        /\ \A x \in live : (\E i \in 1..n : x \in Owns(calls[i])) \/ x \in Tree
    BY <1>1 DEF Careful, n
  <2>2. \A i \in 1..(n - 1) : Thrifty(calls'[i])
    BY <1>3, <1>8, <2>1
  <2>3. \A i \in 1..(n - 1 - 1) : calls'[i + 1].line = Tail(calls'[i].line)
    BY <1>2, <1>3, <2>1
  <2>4. F = Owns(calls[n])
    BY <1>2
  <2>5. \A i \in 1..n : i = n \/ i \in 1..(n - 1)
    BY <1>2
  <2>6. \A x \in live' : (\E i \in 1..(n - 1) : x \in Owns(calls[i])) \/ x \in Tree
    BY <2>1, <2>4, <2>5
  <2>7. \A x \in live' : (\E i \in 1..(n - 1) : x \in Owns(calls'[i])) \/ x \in Tree'
    BY <1>3, <1>t, <2>6
  <2> QED
    BY <1>3, <2>2, <2>3, <2>7 DEF Careful
<1> QED
  BY <1>6, <1>7, <1>9, <1>10, <1>11, <1>12 DEF IInv

-----------------------------------------------------------------------------
(* The record that Call makes.                                             *)
New(typed) == [line |-> typed, array |-> NULL, tokens |-> <<>>, step |-> "array",
              redirect |-> FALSE]

(* A call that begins has taken nothing yet.                               *)
LEMMA NewFacts ==
  ASSUME NEW typed \in Seq(Words)
  PROVE  /\ New(typed) \in CallType /\ Sound(New(typed)) /\ Owns(New(typed)) = {}
         /\ New(typed).line = typed
         /\ ~Loses(typed) => Thrifty(New(typed))
<1>1. New(typed) \in CallType
  BY DEF New, CallType, Steps
<1>2. /\ New(typed).line = typed /\ New(typed).array = NULL /\ New(typed).tokens = <<>>
      /\ New(typed).step = "array" /\ ~New(typed).redirect
  BY DEF New
<1>3. Len(<<>>) = 0
  OBVIOUS
<1>4. Sound(New(typed))
  BY <1>2, <1>3 DEF Sound, Parsed
<1>5. Owns(New(typed)) = {}
  BY <1>2, <1>3 DEF Owns
<1>6. ~Loses(typed) => Thrifty(New(typed))
  BY <1>2 DEF Thrifty, Parsed
<1> QED
  BY <1>1, <1>2, <1>4, <1>5, <1>6

(* What a line without a sudo before it has lost, the line has lost.       *)
LEMMA LosesFacts ==
  ASSUME NEW typed \in Seq(Words), ~Loses(typed)
  PROVE  /\ typed # <<>> /\ typed[1] \in Known /\ typed \notin {<<"sudo">>, <<"cat">>}
         /\ ~(typed[1] = "rm" /\ Recursive(typed))
         /\ Cut(typed) = 0
         /\ typed[1] = "sudo" => ~Loses(Tail(typed))
<1>1. Cut(typed) = 0 /\ \A k \in 0..Len(typed) :
        (\A i \in 1..k : typed[i] = "sudo") => ~LosesItself(SubSeq(typed, k + 1, Len(typed)))
  BY DEF Loses
<1>2. SubSeq(typed, 1, Len(typed)) = typed
  OBVIOUS
<1>3. ~LosesItself(typed)
  <2>1. 0 \in 0..Len(typed) /\ (\A i \in 1..0 : typed[i] = "sudo") /\ 0 + 1 = 1
    OBVIOUS
  <2> QED
    BY <1>1, <1>2, <2>1
<1>4. /\ typed # <<>> /\ typed[1] \in Known /\ typed \notin {<<"sudo">>, <<"cat">>}
      /\ ~(typed[1] = "rm" /\ Recursive(typed))
  BY <1>3 DEF LosesItself
<1>5. ASSUME typed[1] = "sudo", Loses(Tail(typed)) PROVE FALSE
  <2> DEFINE rest == Tail(typed)
  <2>1. /\ rest \in Seq(Words) /\ Len(rest) = Len(typed) - 1 /\ Len(typed) \in Nat \ {0}
        /\ \A i \in 1..(Len(typed) - 1) : rest[i] = typed[i + 1]
    BY <1>4
  <2>2. Cut(rest) = 0
    <3>1. \A i \in 1..(Len(typed) - 1) : typed[i] \notin Redirects
      <4> DEFINE at == {i \in 1..(Len(typed) - 1) : typed[i] \in Redirects}
      <4> SUFFICES ASSUME at # {} PROVE FALSE
        OBVIOUS
      <4>1. at \in SUBSET Nat
        OBVIOUS
      <4>2. \E i \in at : \A j \in at : i <= j
        BY <4>1, Least
      <4>3. Cut(typed) = CHOOSE i \in at : \A j \in at : i <= j
        BY DEF Cut
      <4>4. Cut(typed) \in at
        BY <4>2, <4>3
      <4> QED
        BY <1>1, <4>4
    <3>2. \A i \in 1..(Len(rest) - 1) : rest[i] \notin Redirects
      BY <2>1, <3>1
    <3> QED
      BY <3>2 DEF Cut
  <2>3. PICK k \in 0..Len(rest) :
           /\ \A i \in 1..k : rest[i] = "sudo"
           /\ LosesItself(SubSeq(rest, k + 1, Len(rest)))
    BY <1>5, <2>2 DEF Loses
  <2>4. k + 1 \in 0..Len(typed)
    BY <2>1
  <2>5. \A i \in 1..(k + 1) : typed[i] = "sudo"
    <3>1. \A i \in 1..(k + 1) : i = 1 \/ (i - 1 \in 1..k /\ i - 1 \in 1..(Len(typed) - 1))
      BY <2>1
    <3>2. \A i \in 1..(k + 1) : i # 1 => typed[i] = rest[i - 1]
      BY <2>1, <3>1
    <3> QED
      BY <1>5, <2>3, <3>1, <3>2
  <2>6. SubSeq(typed, k + 1 + 1, Len(typed)) = SubSeq(rest, k + 1, Len(rest))
    BY <2>1
  <2> QED
    BY <1>1, <2>3, <2>4, <2>5, <2>6
<1> QED
  BY <1>1, <1>4, <1>5

(* sudo waits, and a call of its own runs the rest of its line.            *)
LEMMA PushStep ==
  ASSUME IInv, calls # <<>>, NEW c \in CallType, Sound(c), c.step = "free",
         c.line = Top.line, Owns(c) = Owns(Top), c.line # <<>>, c.line[1] = "sudo",
         ~careless => Thrifty(c),
         calls' = Append([calls EXCEPT ![Len(calls)] = c], New(Tail(Top.line))),
         UNCHANGED <<live, nodes, contents, status, careless>>
  PROVE  IInv'
<1> DEFINE n == Len(calls)
           t == [calls EXCEPT ![Len(calls)] = c]
           new == New(Tail(Top.line))
<1>1. Types /\ CallsAreSound /\ NothingShared /\ TreeIsSound /\ OthersWait /\ Careful
  BY DEF IInv
<1>2. /\ n \in Nat /\ n >= 1 /\ calls[n] = Top /\ Top.line \in Seq(Words)
      /\ Tail(Top.line) \in Seq(Words)
  <2>1. n \in Nat /\ n >= 1 /\ calls[n] = Top /\ Top.line \in Seq(Words)
    BY <1>1, TopFacts
  <2> QED
    BY <2>1
<1>3. new \in CallType /\ Sound(new) /\ Owns(new) = {} /\ new.line = Tail(Top.line)
  BY <1>2, NewFacts
<1>4. t \in Seq(CallType) /\ Len(t) = n /\ t[n] = c /\ \A i \in 1..(n - 1) : t[i] = calls[i]
  BY <1>1, SetTop
<1> HIDE DEF n, t, new
<1>5. /\ calls' \in Seq(CallType) /\ Len(calls') = n + 1 /\ calls'[n + 1] = new
      /\ calls'[n] = c /\ \A i \in 1..(n - 1) : calls'[i] = calls[i]
  <2>1. calls' = Append(t, new)
    BY DEF t, new
  <2>2. /\ Append(t, new) \in Seq(CallType) /\ Len(Append(t, new)) = n + 1
        /\ Append(t, new)[n + 1] = new /\ \A i \in 1..n : Append(t, new)[i] = t[i]
    BY <1>3, <1>4, AppendFacts
  <2>3. n \in 1..n /\ \A i \in 1..(n - 1) : i \in 1..n
    BY <1>2
  <2> QED
    BY <1>4, <2>1, <2>2, <2>3
<1>6. \A i \in 1..(n + 1) : i = n + 1 \/ i = n \/ i \in 1..(n - 1)
  BY <1>2
<1>t. Tree' = Tree
  BY DEF Tree
<1>7. Types'
  BY <1>1, <1>5 DEF Types
<1>8. CallsAreSound'
  <2>1. \A i \in 1..(n - 1) : Sound(calls[i])
    BY <1>1, <1>2 DEF CallsAreSound, n
  <2>2. \A i \in 1..(n + 1) : Sound(calls'[i])
    BY <1>3, <1>5, <1>6, <2>1
  <2> QED
    BY <1>5, <2>2 DEF CallsAreSound
<1>9. Owns(calls'[n + 1]) = {} /\ \A i \in 1..n : Owns(calls'[i]) = Owns(calls[i])
  BY <1>2, <1>3, <1>5
<1>10. \A i \in 1..(n + 1) : i = n + 1 \/ i \in 1..n
  BY <1>2
<1>11. NothingShared'
  <2>1. /\ \A i, j \in 1..n : i # j => Owns(calls[i]) \cap Owns(calls[j]) = {}
        /\ \A i \in 1..n : Owns(calls[i]) \cap Tree = {}
        /\ \A i \in 1..n : Owns(calls[i]) \subseteq live
    BY <1>1 DEF NothingShared, n
  <2>2. \A i, j \in 1..(n + 1) : i # j => Owns(calls'[i]) \cap Owns(calls'[j]) = {}
    BY <1>9, <1>10, <2>1
  <2>3. \A i \in 1..(n + 1) : Owns(calls'[i]) \cap Tree' = {}
    BY <1>9, <1>10, <1>t, <2>1
  <2>4. \A i \in 1..(n + 1) : Owns(calls'[i]) \subseteq live
    BY <1>9, <1>10, <2>1
  <2> QED
    BY <1>5, <2>2, <2>3, <2>4 DEF NothingShared
<1>12. OthersWait'
  <2>1. \A i \in 1..(n - 1) :
           calls[i].step = "free" /\ calls[i].line # <<>> /\ calls[i].line[1] = "sudo"
    BY <1>1 DEF OthersWait, n
  <2>2. \A i \in 1..n : i = n \/ i \in 1..(n - 1)
    BY <1>2
  <2>3. \A i \in 1..n :
           calls'[i].step = "free" /\ calls'[i].line # <<>> /\ calls'[i].line[1] = "sudo"
    BY <1>5, <2>1, <2>2
  <2>4. Len(calls') - 1 = n
    BY <1>2, <1>5
  <2> QED
    BY <2>3, <2>4 DEF OthersWait
<1>13. Careful'
  <2> SUFFICES ASSUME ~careless PROVE Careful'
    BY DEF Careful
  <2>1. /\ \A i \in 1..n : Thrifty(calls[i])
        /\ \A i \in 1..(n - 1) : calls[i + 1].line = Tail(calls[i].line)
        /\ \A x \in live : (\E i \in 1..n : x \in Owns(calls[i])) \/ x \in Tree
    BY <1>1 DEF Careful, n
  <2>2. Thrifty(new)
    <3>1. ~Loses(Top.line)
      BY <1>2, <2>1 DEF Thrifty
    <3>2. ~Loses(Tail(Top.line))
      BY <1>2, <3>1, LosesFacts
    <3> QED
      BY <1>2, <3>2, NewFacts DEF new
  <2>3. \A i \in 1..(n + 1) : Thrifty(calls'[i])
    <3>1. \A i \in 1..(n - 1) : i \in 1..n
      BY <1>2
    <3> QED
      BY <1>5, <1>6, <2>1, <2>2, <3>1
  <2>4. \A i \in 1..n : calls'[i].line = calls[i].line
    BY <1>2, <1>5
  <2>5. \A i \in 1..n : calls'[i + 1].line = Tail(calls'[i].line)
    <3> SUFFICES ASSUME NEW i \in 1..n PROVE calls'[i + 1].line = Tail(calls'[i].line)
      OBVIOUS
    <3>1. CASE i = n
      BY <1>2, <1>3, <1>5, <2>4, <3>1
    <3>2. CASE i # n
      <4>1. i \in 1..(n - 1) /\ i + 1 \in 1..n
        BY <1>2, <3>2
      <4> QED
        BY <2>1, <2>4, <4>1
    <3> QED
      BY <3>1, <3>2
  <2>6. \A x \in live' : (\E i \in 1..(n + 1) : x \in Owns(calls'[i])) \/ x \in Tree'
    <3>1. \A i \in 1..n : i \in 1..(n + 1)
      BY <1>2
    <3> QED
      BY <1>9, <1>t, <2>1, <3>1
  <2>7. Len(calls') = n + 1 /\ Len(calls') - 1 = n
    BY <1>2, <1>5
  <2> QED
    BY <2>3, <2>5, <2>6, <2>7 DEF Careful
<1>14. TreeIsSound'
  BY <1>1, <1>t DEF TreeIsSound, Apart
<1> QED
  BY <1>7, <1>8, <1>11, <1>12, <1>13, <1>14 DEF IInv

-----------------------------------------------------------------------------
(* Once kmalloc has given the null pointer, or an address was none, only   *)
(* the status is another one.                                              *)
LEMMA StatusStep ==
  ASSUME IInv, UNCHANGED <<live, calls, nodes, contents, careless>>,
         status' \in {"ok", "exhausted", "stopped"}
  PROVE  IInv'
<1>1. Tree' = Tree
  BY DEF Tree
<1> QED
  BY <1>1 DEF IInv, Types, CallsAreSound, NothingShared, TreeIsSound, Apart, OthersWait, Careful

(* The call that runs, in a state that satisfies the invariant.            *)
LEMMA TopIsSound ==
  ASSUME IInv, calls # <<>>
  PROVE  /\ Types /\ Top \in CallType /\ Sound(Top) /\ Owns(Top) \subseteq live
         /\ ~careless => Thrifty(Top)
<1>1. Types /\ CallsAreSound /\ NothingShared /\ Careful
  BY DEF IInv
<1>2. Len(calls) \in 1..Len(calls) /\ Top = calls[Len(calls)] /\ Top \in CallType
  BY <1>1, TopFacts
<1>3. Sound(Top) /\ Owns(Top) \subseteq live
  BY <1>1, <1>2 DEF CallsAreSound, NothingShared
<1>4. ~careless => Thrifty(Top)
  BY <1>1, <1>2 DEF Careful
<1> QED
  BY <1>1, <1>2, <1>3, <1>4

(* The Enter key: the only call that is under way is the new one.          *)
LEMMA EnterStep == ASSUME IInv, NEW typed \in Lines, Enter(typed) PROVE IInv'
<1>1. Types /\ NothingShared /\ TreeIsSound /\ Careful
  BY DEF IInv
<1>2. /\ calls = <<>> /\ calls' = Append(<<>>, New(typed))
      /\ careless' = (careless \/ Loses(typed)) /\ UNCHANGED <<live, nodes, contents, status>>
  BY DEF Enter, Call, New
<1>3. typed \in Seq(Words)
  BY CommandLineAssumption
<1> DEFINE new == New(typed)
<1>4. new \in CallType /\ Sound(new) /\ Owns(new) = {} /\ new.line = typed
      /\ (~Loses(typed) => Thrifty(new))
  BY <1>3, NewFacts
<1>a. calls' = Append(<<>>, new)
  BY <1>2
<1> HIDE DEF new
<1>5. calls' \in Seq(CallType) /\ Len(calls') = 1 /\ calls'[1] = new /\ calls' # <<>>
  BY <1>4, <1>a
<1>6. \A i \in 1..1 : i = 1
  OBVIOUS
<1>t. Tree' = Tree
  BY <1>2 DEF Tree
<1>7. Loses(typed) \in BOOLEAN
  BY DEF Loses
<1>8. Types'
  <2>1. careless' \in BOOLEAN
    BY <1>2
  <2> QED
    BY <1>1, <1>2, <1>5, <2>1 DEF Types
<1>9. CallsAreSound'
  BY <1>4, <1>5, <1>6 DEF CallsAreSound
<1>10. NothingShared'
  BY <1>4, <1>5, <1>6 DEF NothingShared
<1>11. OthersWait'
  BY <1>5 DEF OthersWait
<1>12. Careful'
  <2> SUFFICES ASSUME ~careless' PROVE Careful'
    BY DEF Careful
  <2>1. ~careless /\ ~Loses(typed)
    BY <1>2
  <2>2. \A x \in live : x \in Tree
    <3>1. Len(calls) = 0
      BY <1>2
    <3> QED
      BY <1>1, <2>1, <3>1 DEF Careful
  <2>3. 1..(Len(calls') - 1) = {}
    BY <1>5
  <2>4. \A i \in 1..Len(calls') : Thrifty(calls'[i])
    BY <1>4, <1>5, <1>6, <2>1
  <2>5. \A i \in 1..(Len(calls') - 1) : calls'[i + 1].line = Tail(calls'[i].line)
    BY <2>3
  <2> QED
    BY <1>2, <1>t, <2>2, <2>4, <2>5 DEF Careful
<1>13. TreeIsSound'
  BY <1>1, <1>2, <1>t DEF TreeIsSound, Apart
<1> QED
  BY <1>8, <1>9, <1>10, <1>11, <1>12, <1>13 DEF IInv

(* The array is a block that nobody had.                                   *)
LEMMA TakeArrayStep == ASSUME IInv, TakeArray PROVE IInv'
<1>1. calls # <<>> /\ Top.step = "array" /\ status = "ok"
  BY DEF TakeArray, At
<1>2. CASE Exhausted(1)
  BY <1>2, StatusStep DEF Exhausted
<1>3. ASSUME NEW b \in Fresh(1, live), live' = live \cup {b},
             calls' = [calls EXCEPT ![Len(calls)] = [@ EXCEPT !.array = b, !.step = "tokens"]],
             UNCHANGED <<nodes, contents, status, careless>>
      PROVE  IInv'
  <2> DEFINE c == [Top EXCEPT !.array = b, !.step = "tokens"]
  <2>1. Types /\ Top \in CallType /\ Sound(Top) /\ (~careless => Thrifty(Top))
    BY <1>1, TopIsSound
  <2>2. Top.tokens = <<>> /\ Top.array = NULL /\ Top.line \in Seq(Words)
    BY <1>1, <2>1 DEF Sound, CallType
  <2>3. b \in Blocks \ live /\ b # NULL
    BY <1>3 DEF Fresh, NULL, Blocks
  <2>4. /\ c \in CallType /\ c.line = Top.line /\ c.redirect = Top.redirect
        /\ c.tokens = <<>> /\ c.array = b /\ c.step = "tokens"
    BY <2>1, <2>2, <2>3 DEF CallType, Steps, Parsed
  <2>5. calls' = [calls EXCEPT ![Len(calls)] = c]
    BY <1>3 DEF Top
  <2> HIDE DEF c
  <2>6. Sound(c)
    BY <2>2, <2>4, <2>3 DEF Sound, Parsed
  <2>7. Owns(c) = {b} /\ Owns(Top) = {}
    BY <2>2, <2>4, <2>3 DEF Owns
  <2>8. ~careless => c.line = Top.line /\ Thrifty(c)
    BY <2>1, <2>4 DEF Thrifty, Parsed
  <2> QED
    BY <1>1, <1>3, <2>4, <2>5, <2>3, <2>6, <2>7, <2>8, TopStep
<1> QED
  BY <1>2, <1>3 DEF TakeArray

(* So is the copy of a word, one more than there were.                     *)
LEMMA TakeTokenStep == ASSUME IInv, TakeToken PROVE IInv'
<1>1. calls # <<>> /\ Top.step = "tokens" /\ status = "ok" /\ Len(Top.tokens) < Len(Top.line)
  BY DEF TakeToken, At
<1>2. CASE Exhausted(1)
  BY <1>2, StatusStep DEF Exhausted
<1>3. ASSUME NEW b \in Fresh(1, live), live' = live \cup {b},
             calls' = [calls EXCEPT ![Len(calls)].tokens = Append(@, b)],
             UNCHANGED <<nodes, contents, status, careless>>
      PROVE  IInv'
  <2> DEFINE old == Top.tokens
             new == Append(old, b)
             c == [Top EXCEPT !.tokens = new]
  <2>1. /\ Types /\ Top \in CallType /\ Sound(Top) /\ Owns(Top) \subseteq live
        /\ (~careless => Thrifty(Top))
    BY <1>1, TopIsSound
  <2>2. /\ old \in Seq(Blocks) /\ Len(old) \in Nat /\ Top.line \in Seq(Words)
        /\ Top.array \in Blocks
    BY <1>1, <2>1 DEF Sound, CallType
  <2>3. b \in Blocks \ live /\ b # NULL
    BY <1>3 DEF Fresh, NULL, Blocks
  <2>4. /\ new \in Seq(Blocks) /\ Len(new) = Len(old) + 1 /\ new[Len(old) + 1] = b
        /\ \A j \in 1..Len(old) : new[j] = old[j]
    BY <2>2, <2>3, AppendFacts
  <2>5. calls' = [calls EXCEPT ![Len(calls)] = c]
    BY <1>3 DEF Top
  <2> HIDE DEF new
  <2>6. /\ c \in CallType /\ c.line = Top.line /\ c.redirect = Top.redirect
        /\ c.tokens = new /\ c.array = Top.array /\ c.step = "tokens"
    BY <1>1, <2>1, <2>4 DEF CallType
  <2> HIDE DEF c, old
  <2>7. \A j \in 1..Len(new) : j = Len(old) + 1 \/ j \in 1..Len(old)
    BY <2>2, <2>4
  <2>8. b # Top.array /\ \A j \in 1..Len(old) : old[j] # b
    BY <2>1, <2>3, OwnsFacts DEF old
  <2>9. /\ \A j \in 1..Len(old) : old[j] # Top.array
        /\ \A j, k \in 1..Len(old) : old[j] = old[k] => j = k
    BY <2>1 DEF Sound, old
  <2>10. Sound(c)
    <3>1. \A j \in 1..Len(new) : new[j] # Top.array
      BY <2>4, <2>7, <2>8, <2>9
    <3>2. \A j, k \in 1..Len(new) : new[j] = new[k] => j = k
      BY <2>4, <2>7, <2>8, <2>9
    <3>3. Len(new) <= Len(Top.line) /\ Top.array # NULL
      BY <1>1, <2>2, <2>4 DEF old, NULL, Blocks
    <3> QED
      BY <2>6, <3>1, <3>2, <3>3 DEF Sound, Parsed
  <2>11. Owns(c) = Owns(Top) \cup {b}
    <3>1. \A x : (\E j \in 1..Len(new) : x = new[j]) <=> x = b \/ \E j \in 1..Len(old) : x = old[j]
      <4>1. Len(old) + 1 \in 1..Len(new) /\ \A j \in 1..Len(old) : j \in 1..Len(new)
        BY <2>2, <2>4
      <4> QED
        BY <2>4, <2>7, <4>1
    <3>2. {c.tokens[j] : j \in 1..Len(c.tokens)} = {old[j] : j \in 1..Len(old)} \cup {b}
      BY <2>6, <3>1, ZenonT(40)
    <3> QED
      BY <2>6, <2>3, <3>2 DEF Owns, old
  <2>12. ~careless => c.line = Top.line /\ Thrifty(c)
    BY <2>1, <2>6 DEF Thrifty, Parsed
  <2> QED
    BY <1>1, <1>3, <2>5, <2>6, <2>3, <2>10, <2>11, <2>12, TopStep, ZenonT(40)
<1> QED
  BY <1>2, <1>3 DEF TakeToken

(* The words in front of a redirection are words of the line.              *)
LEMMA CommandFacts ==
  ASSUME NEW typed \in Seq(Words)
  PROVE  /\ Command(typed) \in Seq(Words) /\ Len(Command(typed)) <= Len(typed)
         /\ Cut(typed) = 0 => Command(typed) = typed
<1>1. CASE Cut(typed) = 0
  BY <1>1 DEF Command
<1>2. CASE Cut(typed) # 0
  <2> DEFINE at == {i \in 1..(Len(typed) - 1) : typed[i] \in Redirects}
  <2>1. Cut(typed) = (IF at = {} THEN 0 ELSE CHOOSE i \in at : \A j \in at : i <= j)
    BY DEF Cut
  <2>2. at \in SUBSET Nat
    OBVIOUS
  <2>3. at # {}
    BY <1>2, <2>1
  <2>4. \E i \in at : \A j \in at : i <= j
    BY <2>2, <2>3, Least
  <2>5. Cut(typed) \in at
    BY <2>1, <2>3, <2>4
  <2>6. Cut(typed) \in 1..(Len(typed) - 1) /\ Len(typed) \in Nat
    BY <2>5
  <2> DEFINE p == Cut(typed) - 1
  <2>7. p \in Int /\ 0 <= p /\ p < Len(typed) /\ \A i \in 1..p : typed[i] \in Words
    BY <2>6
  <2>8. Command(typed) = SubSeq(typed, 1, p)
    BY <1>2 DEF Command
  <2> HIDE DEF p
  <2>9. /\ SubSeq(typed, 1, p) \in Seq(Words)
        /\ Len(SubSeq(typed, 1, p)) = IF 1 <= p THEN p - 1 + 1 ELSE 0
    BY <2>7, SubSeqProperties
  <2> QED
    BY <1>2, <2>6, <2>7, <2>8, <2>9
<1> QED
  BY <1>1, <1>2

(* The redirection takes words off the line, none off the tokens.          *)
LEMMA RedirectStep == ASSUME IInv, Redirect PROVE IInv'
<1>1. /\ calls # <<>> /\ Top.step = "tokens" /\ Len(Top.tokens) = Len(Top.line)
      /\ calls' = [calls EXCEPT ![Len(calls)] =
                     [Top EXCEPT !.line = Command(@), !.redirect = Cut(Top.line) # 0,
                                 !.step = "record"]]
      /\ UNCHANGED <<live, nodes, contents, status, careless>>
  BY DEF Redirect, At
<1> DEFINE c == [Top EXCEPT !.line = Command(@), !.redirect = Cut(Top.line) # 0,
                            !.step = "record"]
<1>2. /\ Types /\ Top \in CallType /\ Sound(Top) /\ (~careless => Thrifty(Top))
      /\ Top.line \in Seq(Words)
  <2>1. Types /\ Top \in CallType /\ Sound(Top) /\ (~careless => Thrifty(Top))
    BY <1>1, TopIsSound
  <2> QED
    BY <2>1 DEF CallType
<1>3. /\ Command(Top.line) \in Seq(Words) /\ Len(Command(Top.line)) <= Len(Top.line)
      /\ (Cut(Top.line) = 0 => Command(Top.line) = Top.line)
  BY <1>2, CommandFacts
<1>4. calls' = [calls EXCEPT ![Len(calls)] = c]
  BY <1>1 DEF Top
<1>5. (Cut(Top.line) # 0) \in BOOLEAN
  OBVIOUS
<1>6. /\ c \in CallType /\ c.line = Command(Top.line) /\ c.redirect = (Cut(Top.line) # 0)
      /\ c.tokens = Top.tokens /\ c.array = Top.array /\ c.step = "record"
  BY <1>2, <1>3, <1>5 DEF CallType, Steps, Parsed
<1> HIDE DEF c
<1>7. Sound(c)
  BY <1>1, <1>2, <1>3, <1>6 DEF Sound, Parsed
<1>8. Owns(c) = Owns(Top)
  BY <1>6 DEF Owns
<1>9. ASSUME ~careless PROVE c.line = Top.line /\ Thrifty(c)
  <2>1. ~Loses(Top.line)
    BY <1>2, <1>9 DEF Thrifty
  <2>2. Cut(Top.line) = 0
    BY <1>2, <2>1, LosesFacts
  <2> QED
    BY <1>1, <1>3, <1>6, <2>1, <2>2 DEF Thrifty
<1>10. live' = live \cup {} /\ {} \subseteq Blocks \ live
  BY <1>1
<1> QED
  BY <1>1, <1>4, <1>6, <1>7, <1>8, <1>9, <1>10, TopStep

-----------------------------------------------------------------------------
(* The call that runs goes on with what it has.                            *)
Going(c, next) ==
  /\ c \in CallType /\ Sound(c) /\ Owns(c) = Owns(Top) /\ c.line = Top.line
  /\ c.step = next
  /\ Thrifty(Top) => Thrifty(c)

(* GoTo makes that of it.                                                  *)
LEMMA GoingFacts ==
  ASSUME IInv, calls # <<>>, Top.step \in Parsed, NEW next \in Parsed, GoTo(next)
  PROVE  LET c == [Top EXCEPT !.step = next]
         IN  Going(c, next) /\ calls' = [calls EXCEPT ![Len(calls)] = c]
<1> DEFINE c == [Top EXCEPT !.step = next]
<1>1. Types /\ Top \in CallType /\ Sound(Top) /\ next \in Steps
  BY TopIsSound DEF Parsed, Steps
<1>2. calls' = [calls EXCEPT ![Len(calls)] = c]
  BY DEF GoTo, Top
<1>3. /\ c \in CallType /\ c.line = Top.line /\ c.redirect = Top.redirect
      /\ c.tokens = Top.tokens /\ c.array = Top.array /\ c.step = next
  BY <1>1 DEF CallType
<1> HIDE DEF c
<1>4. Sound(c)
  BY <1>1, <1>3 DEF Sound, Parsed
<1>5. Owns(c) = Owns(Top)
  BY <1>3 DEF Owns
<1>6. Thrifty(Top) => Thrifty(c)
  BY <1>3 DEF Thrifty
<1> QED
  BY <1>2, <1>3, <1>4, <1>5, <1>6 DEF Going, c

(* A step that does nothing else changes nothing that anybody has.         *)
LEMMA GoOnStep ==
  ASSUME IInv, calls # <<>>, Top.step \in Parsed, NEW next \in Parsed, GoOn(next)
  PROVE  IInv'
<1>1. GoTo(next) /\ UNCHANGED <<live, nodes, contents, status>> /\ UNCHANGED careless
  BY DEF GoOn
<1>2. PICK c : Going(c, next) /\ calls' = [calls EXCEPT ![Len(calls)] = c]
  BY <1>1, GoingFacts
<1>3. live' = live \cup {} /\ {} \subseteq Blocks \ live
  BY <1>1
<1>4. ~careless => Thrifty(Top)
  BY TopIsSound
<1> QED
  BY <1>1, <1>2, <1>3, <1>4, TopStep DEF Going

-----------------------------------------------------------------------------
(* The commands and the tree.                                              *)

(* A step of the call that runs, and of the tree.                          *)
LEMMA VfsStep ==
  ASSUME IInv, calls # <<>>, Top.step \in Parsed, NEW next \in Parsed, GoTo(next),
         NEW N \in SUBSET (Blocks \ live), NEW F \in SUBSET Tree,
         live' = (live \cup N) \ F, Tree' \subseteq (Tree \cup N) \ F,
         nodes' \cap UNION contents' = {}, Apart(contents'), UNCHANGED <<status, careless>>,
         ~careless => (Tree \cup N) \ F \subseteq Tree'
  PROVE  IInv'
<1>1. PICK c : Going(c, next) /\ calls' = [calls EXCEPT ![Len(calls)] = c]
  BY GoingFacts
<1>2. ~careless => Thrifty(Top)
  BY TopIsSound
<1>3. /\ c \in CallType /\ Sound(c) /\ Owns(c) = Owns(Top)
      /\ (~careless => c.line = Top.line /\ Thrifty(c))
  BY <1>1, <1>2 DEF Going
<1> QED
  BY <1>1, <1>3, TreeStep

(* Contents that are taken away take their blocks with them.               *)
LEMMA Without ==
  ASSUME NEW cs, Apart(cs), NEW data \in SUBSET (cs \cup {{}})
  PROVE  UNION (cs \ data) = (UNION cs) \ (UNION data) /\ Apart(cs \ data)
<1>1. Apart(cs \ data)
  BY DEF Apart
<1>2. ASSUME NEW c \in cs \ data, NEW d \in data PROVE c \cap d = {}
  BY <1>2 DEF Apart
<1> QED
  BY <1>1, <1>2

(* New ones that share nothing with what there is fit in.                  *)
LEMMA With ==
  ASSUME NEW cs, Apart(cs), NEW new, NEW D, D \cap UNION cs = {},
         new \cap (D \cup UNION cs) = {}
  PROVE  /\ UNION (cs \cup {new}) = (UNION cs) \cup new
         /\ D \cap UNION (cs \cup {new}) = {} /\ Apart(cs \cup {new})
<1>1. UNION (cs \cup {new}) = (UNION cs) \cup new
  OBVIOUS
<1>2. D \cap UNION (cs \cup {new}) = {}
  BY <1>1
<1>3. ASSUME NEW c \in cs PROVE c \cap new = {}
  BY <1>3
<1> QED
  BY <1>1, <1>2, <1>3 DEF Apart

(* The tree before a step.                                                 *)
LEMMA TreeFacts ==
  ASSUME IInv
  PROVE  /\ Tree = nodes \cup UNION contents /\ Tree \subseteq live /\ live \subseteq Blocks
         /\ nodes \cap UNION contents = {} /\ Apart(contents)
BY DEF IInv, TreeIsSound, Types, Tree

(* A node is a block that nobody had.                                      *)
LEMMA NewNodeStep ==
  ASSUME IInv, calls # <<>>, Top.step \in Parsed, NEW next \in Parsed, NewNode(next)
  PROVE  IInv'
<1>1. CASE Exhausted(1)
  BY <1>1, StatusStep DEF Exhausted
<1>2. ASSUME NEW b \in Fresh(1, live), live' = live \cup {b}, nodes' = nodes \cup {b},
             GoTo(next), UNCHANGED <<contents, status, careless>>
      PROVE  IInv'
  <2>1. b \in Blocks \ live
    BY DEF Fresh
  <2>2. Tree' = Tree \cup {b}
    BY <1>2 DEF Tree
  <2>3. nodes' \cap UNION contents' = {} /\ Apart(contents')
    BY <1>2, <2>1, TreeFacts
  <2>4. live' = (live \cup {b}) \ {} /\ (Tree \cup {b}) \ {} = Tree'
    BY <1>2, <2>2
  <2>5. {b} \in SUBSET (Blocks \ live) /\ {} \in SUBSET Tree
    BY <2>1
  <2> QED
    BY <1>2, <2>3, <2>4, <2>5, VfsStep
<1> QED
  BY <1>1, <1>2 DEF NewNode

(* Blocks for new contents, and the old ones are freed.                    *)
LEMMA ContentsStep ==
  ASSUME IInv, calls # <<>>, Top.step \in Parsed, NEW next \in Parsed, GoTo(next),
         NEW old \in contents \cup {{}}, NEW new \in SUBSET (Blocks \ (live \ old)),
         live' = (live \ old) \cup new, contents' = (contents \ {old}) \cup {new},
         UNCHANGED <<nodes, status, careless>>
  PROVE  IInv'
<1>1. /\ Tree = nodes \cup UNION contents /\ Tree \subseteq live /\ live \subseteq Blocks
      /\ nodes \cap UNION contents = {} /\ Apart(contents)
  BY TreeFacts
<1>2. UNION (contents \ {old}) = (UNION contents) \ old /\ Apart(contents \ {old})
  <2>1. {old} \in SUBSET (contents \cup {{}}) /\ UNION {old} = old
    OBVIOUS
  <2> QED
    BY <1>1, <2>1, Without
<1>3. old \subseteq UNION contents
  OBVIOUS
<1> DEFINE rest == contents \ {old}
           N == new \ live
           F == old \ new
<1>4. /\ UNION contents' = ((UNION contents) \ old) \cup new
      /\ nodes \cap UNION contents' = {} /\ Apart(contents')
  <2>1. Apart(rest) /\ UNION rest = (UNION contents) \ old /\ contents' = rest \cup {new}
    BY <1>2
  <2>2. nodes \cap UNION rest = {} /\ new \cap (nodes \cup UNION rest) = {}
    BY <1>1, <1>3, <2>1
  <2> HIDE DEF rest
  <2>3. /\ UNION (rest \cup {new}) = (UNION rest) \cup new
        /\ nodes \cap UNION (rest \cup {new}) = {} /\ Apart(rest \cup {new})
    BY <2>1, <2>2, With
  <2> QED
    BY <2>1, <2>3
<1>5. Tree' = (Tree \cup N) \ F
  <2>1. Tree' = nodes \cup UNION contents'
    BY DEF Tree
  <2> QED
    BY <1>1, <1>3, <1>4, <2>1
<1>6. live' = (live \cup N) \ F
  BY <1>1, <1>3
<1>7. N \in SUBSET (Blocks \ live) /\ F \in SUBSET Tree
  BY <1>1, <1>3
<1>8. nodes' \cap UNION contents' = {}
  BY <1>4
<1> HIDE DEF N, F
<1> QED
  BY <1>4, <1>5, <1>6, <1>7, <1>8, VfsStep

(* vfs_write, when it appends.                                             *)
LEMMA AddStep ==
  ASSUME IInv, calls # <<>>, Top.step \in Parsed, NEW next \in Parsed,
         NEW old \in contents \cup {{}}, Add(old, next)
  PROVE  IInv'
<1> DEFINE new == Fresh(Cardinality(old) + 1, live)
<1>1. CASE Exhausted(Cardinality(old) + 1)
  BY <1>1, StatusStep DEF Exhausted
<1>2. CASE /\ live' = (live \cup new) \ old /\ contents' = (contents \ {old}) \cup {new}
           /\ GoTo(next) /\ UNCHANGED <<nodes, status, careless>>
  <2>1. new \subseteq Blocks \ live
    BY DEF Fresh
  <2> HIDE DEF new
  <2>2. old \subseteq live
    <3>1. old \subseteq UNION contents
      OBVIOUS
    <3> QED
      BY <3>1, TreeFacts
  <2>3. live' = (live \ old) \cup new /\ new \in SUBSET (Blocks \ (live \ old))
    BY <1>2, <2>1, <2>2
  <2> QED
    BY <1>2, <2>3, ContentsStep
<1> QED
  BY <1>1, <1>2 DEF Add

(* vfs_write, when it replaces.                                            *)
LEMMA OverwriteStep ==
  ASSUME IInv, calls # <<>>, Top.step \in Parsed, NEW next \in Parsed,
         NEW old \in contents \cup {{}}, Overwrite(old, next)
  PROVE  IInv'
<1>1. CASE Exhausted(1)
  BY <1>1, StatusStep DEF Exhausted
<1>2. ASSUME NEW b \in Fresh(1, live \ old), live' = (live \ old) \cup {b},
             contents' = (contents \ {old}) \cup {{b}},
             GoTo(next), UNCHANGED <<nodes, status, careless>>
      PROVE  IInv'
  <2>1. {b} \in SUBSET (Blocks \ (live \ old))
    BY DEF Fresh
  <2> QED
    BY <1>2, <2>1, ContentsStep
<1> QED
  BY <1>1, <1>2 DEF Overwrite

(* vfs_cp.                                                                 *)
LEMMA CopyOfStep ==
  ASSUME IInv, calls # <<>>, Top.step \in Parsed, NEW next \in Parsed,
         NEW old \in contents, CopyOf(old, next)
  PROVE  IInv'
<1> DEFINE new == Fresh(Cardinality(old), live)
<1>1. CASE Exhausted(Cardinality(old))
  BY <1>1, StatusStep DEF Exhausted
<1>2. CASE /\ live' = live \cup new /\ contents' = contents \cup {new}
           /\ GoTo(next) /\ UNCHANGED <<nodes, status, careless>>
  <2>1. new \subseteq Blocks \ live
    BY DEF Fresh
  <2> HIDE DEF new
  <2>2. /\ Tree = nodes \cup UNION contents /\ Tree \subseteq live
        /\ nodes \cap UNION contents = {} /\ Apart(contents)
    BY TreeFacts
  <2>3. new \cap (nodes \cup UNION contents) = {}
    BY <2>1, <2>2
  <2>4. /\ UNION contents' = (UNION contents) \cup new
        /\ nodes \cap UNION contents' = {} /\ Apart(contents')
    BY <1>2, <2>2, <2>3, With
  <2>5. Tree' = Tree \cup new
    BY <1>2, <2>2, <2>4 DEF Tree
  <2>6. /\ live' = (live \cup new) \ {} /\ Tree' = (Tree \cup new) \ {}
        /\ new \in SUBSET (Blocks \ live) /\ {} \in SUBSET Tree
    BY <1>2, <2>1, <2>5
  <2> QED
    BY <1>2, <2>4, <2>6, VfsStep
<1> QED
  BY <1>1, <1>2 DEF CopyOf

(* What leaves the tree shares nothing with what stays.                    *)
LEMMA TakeAwayStep ==
  ASSUME IInv, calls # <<>>, Top.step \in Parsed, NEW gone \in SUBSET nodes,
         NEW data \in SUBSET contents, NEW freed \in SUBSET (gone \cup UNION data),
         TakeAway(gone, data, freed), ~careless => freed = gone \cup UNION data
  PROVE  IInv'
<1>1. /\ live' = live \ freed /\ nodes' = nodes \ gone /\ contents' = contents \ data
      /\ GoTo("free") /\ UNCHANGED <<status, careless>>
  BY DEF TakeAway
<1>2. /\ Tree = nodes \cup UNION contents /\ Tree \subseteq live
      /\ nodes \cap UNION contents = {} /\ Apart(contents)
  BY TreeFacts
<1>3. UNION contents' = (UNION contents) \ (UNION data) /\ Apart(contents')
  BY <1>1, <1>2, Without
<1>4. UNION data \subseteq UNION contents
  OBVIOUS
<1>5. Tree' = (nodes \ gone) \cup ((UNION contents) \ (UNION data))
  BY <1>1, <1>3 DEF Tree
<1>6. /\ Tree' \subseteq (Tree \cup {}) \ freed /\ freed \in SUBSET Tree
      /\ nodes' \cap UNION contents' = {}
  BY <1>1, <1>2, <1>3, <1>4, <1>5
<1>7. ~careless => (Tree \cup {}) \ freed \subseteq Tree'
  BY <1>2, <1>5
<1>8. live' = (live \cup {}) \ freed /\ {} \in SUBSET (Blocks \ live) /\ "free" \in Parsed
  BY <1>1 DEF Parsed
<1> QED
  BY <1>1, <1>3, <1>6, <1>7, <1>8, VfsStep

(* The history is written, or it is not.                                   *)
LEMMA RecordStep == ASSUME IInv, Record PROVE IInv'
<1>1. /\ calls # <<>> /\ Top.step \in Parsed
      /\ "run" \in Parsed /\ "append" \in Parsed
  BY DEF Record, At, Parsed
<1>2. CASE GoOn("run")
  BY <1>1, <1>2, GoOnStep
<1>3. CASE NewNode("append")
  BY <1>1, <1>3, NewNodeStep
<1>4. ASSUME NEW old \in contents \cup {{}}, Add(old, "run") PROVE IInv'
  BY <1>1, <1>4, AddStep
<1> QED
  BY <1>2, <1>3, <1>4 DEF Record

(* A command that returns early leaves its blocks to nobody.               *)
LEMMA RunLostStep == ASSUME IInv, RunLost PROVE IInv'
<1>1. /\ calls # <<>> /\ calls' = Front(calls) /\ UNCHANGED <<live, nodes, contents, status, careless>>
      /\ (Word \notin Known /\ Len(Top.tokens) > 0) \/ Top.line \in {<<"sudo">>, <<"cat">>}
  BY DEF RunLost, At, Return
<1>2. Types /\ Top \in CallType /\ (~careless => Thrifty(Top)) /\ Top.line \in Seq(Words)
  BY <1>1, TopIsSound DEF CallType
<1>3. ASSUME ~careless PROVE FALSE
  <2>1. ~Loses(Top.line)
    BY <1>2, <1>3 DEF Thrifty
  <2>2. Top.line # <<>> /\ Top.line[1] \in Known /\ Top.line \notin {<<"sudo">>, <<"cat">>}
    BY <1>2, <2>1, LosesFacts
  <2>3. Word = Top.line[1]
    BY <2>2 DEF Word
  <2> QED
    BY <1>1, <2>2, <2>3
<1>4. {} \subseteq Owns(Top) /\ live' = live \ {} /\ (~careless => {} = Owns(Top))
  BY <1>1, <1>3
<1> QED
  BY <1>1, <1>4, PopStep

(* A call without a word returns early, goes on to its end, or faults.     *)
LEMMA RunEmptyStep == ASSUME IInv, RunEmpty PROVE IInv'
<1>1. /\ calls # <<>> /\ Top.step = "run" /\ Top.step \in Parsed /\ "free" \in Parsed
      /\ Top.tokens = <<>>
  BY DEF RunEmpty, At, Parsed
<1>2. Types /\ Top \in CallType /\ (~careless => Thrifty(Top)) /\ Top.line \in Seq(Words)
  BY <1>1, TopIsSound DEF CallType
<1>3. CASE Return
  <2>1. calls' = Front(calls) /\ UNCHANGED <<live, nodes, contents, status, careless>>
    BY <1>3 DEF Return
  <2>2. ASSUME ~careless PROVE FALSE
    <3>1. ~Loses(Top.line) /\ Len(Top.tokens) = Len(Top.line)
      BY <1>1, <1>2, <2>2 DEF Thrifty
    <3>2. Top.line # <<>>
      BY <1>2, <3>1, LosesFacts
    <3> QED
      BY <1>1, <1>2, <3>1, <3>2
  <2>3. {} \subseteq Owns(Top) /\ live' = live \ {} /\ (~careless => {} = Owns(Top))
    BY <2>1, <2>2
  <2> QED
    BY <1>1, <2>1, <2>3, PopStep
<1>4. CASE GoOn("free")
  BY <1>1, <1>4, GoOnStep
<1>5. CASE Stop
  BY <1>5, StatusStep DEF Stop
<1> QED
  BY <1>3, <1>4, <1>5 DEF RunEmpty

(* sudo has only its end before it when the new call begins.               *)
LEMMA RunSudoStep == ASSUME IInv, RunSudo PROVE IInv'
<1>1. /\ calls # <<>> /\ Top.step = "run" /\ Top.step \in Parsed /\ "free" \in Parsed
      /\ Word = "sudo" /\ Len(Top.line) > 1
      /\ calls' = Append([calls EXCEPT ![Len(calls)].step = "free"], New(Tail(Top.line)))
      /\ UNCHANGED <<live, nodes, contents, status, careless>>
  BY DEF RunSudo, At, Call, New, Parsed
<1> DEFINE c == [Top EXCEPT !.step = "free"]
<1>2. /\ Types /\ Top \in CallType /\ Sound(Top) /\ (~careless => Thrifty(Top))
      /\ Top.line \in Seq(Words)
  BY <1>1, TopIsSound DEF CallType
<1>3. Top.line # <<>> /\ Top.line[1] = "sudo"
  <2>1. Top.line # <<>>
    BY <1>1
  <2> QED
    BY <1>1, <2>1 DEF Word
<1>4. [calls EXCEPT ![Len(calls)].step = "free"] = [calls EXCEPT ![Len(calls)] = c]
  BY DEF Top
<1>5. /\ c \in CallType /\ c.line = Top.line /\ c.redirect = Top.redirect
      /\ c.tokens = Top.tokens /\ c.array = Top.array /\ c.step = "free"
  BY <1>2 DEF CallType, Steps, Parsed
<1> HIDE DEF c
<1>6. Sound(c) /\ Owns(c) = Owns(Top) /\ (Thrifty(Top) => Thrifty(c))
  <2>1. Sound(c)
    BY <1>1, <1>2, <1>5 DEF Sound, Parsed
  <2>2. Owns(c) = Owns(Top)
    BY <1>5 DEF Owns
  <2>3. Thrifty(Top) => Thrifty(c)
    BY <1>1, <1>5 DEF Thrifty
  <2> QED
    BY <2>1, <2>2, <2>3
<1>7. calls' = Append([calls EXCEPT ![Len(calls)] = c], New(Tail(Top.line)))
  BY <1>1, <1>4
<1>8. c.line # <<>> /\ c.line[1] = "sudo"
  BY <1>3, <1>5
<1> QED
  BY <1>1, <1>2, <1>5, <1>6, <1>7, <1>8, PushStep

(* echo writes to a file, or it does not.                                  *)
LEMMA RunEchoStep == ASSUME IInv, RunEcho PROVE IInv'
<1>1. /\ calls # <<>> /\ Top.step \in Parsed
      /\ "free" \in Parsed /\ "write" \in Parsed
  BY DEF RunEcho, At, Parsed
<1>2. CASE GoOn("free")
  BY <1>1, <1>2, GoOnStep
<1>3. CASE NewNode("write")
  BY <1>1, <1>3, NewNodeStep
<1>4. ASSUME NEW old \in contents \cup {{}}, Add(old, "free") PROVE IInv'
  BY <1>1, <1>4, AddStep
<1>5. ASSUME NEW old \in contents \cup {{}}, Overwrite(old, "free") PROVE IInv'
  BY <1>1, <1>5, OverwriteStep
<1> QED
  BY <1>2, <1>3, <1>4, <1>5 DEF RunEcho

(* Most commands take nothing, and some do not come back.                  *)
LEMMA RunQuietStep == ASSUME IInv, RunQuiet \/ RunStop PROVE IInv'
<1>1. calls # <<>> /\ Top.step \in Parsed /\ "free" \in Parsed
  BY DEF RunQuiet, RunStop, At, Parsed
<1>2. CASE RunQuiet
  BY <1>1, <1>2, GoOnStep DEF RunQuiet
<1>3. CASE RunStop
  BY <1>3, StatusStep DEF RunStop, Stop
<1> QED
  BY <1>2, <1>3

(* mkdir and touch make a node, cp nodes and contents.                     *)
LEMMA RunMakeStep == ASSUME IInv, RunMake \/ RunCopy PROVE IInv'
<1>1. /\ calls # <<>> /\ Top.step \in Parsed
      /\ "free" \in Parsed /\ "run" \in Parsed /\ "copy" \in Parsed
  BY DEF RunMake, RunCopy, At, Parsed
<1>2. ASSUME NEW next \in Parsed, GoOn(next) PROVE IInv'
  BY <1>1, <1>2, GoOnStep
<1>3. ASSUME NEW next \in Parsed, NewNode(next) PROVE IInv'
  BY <1>1, <1>3, NewNodeStep
<1>4. ASSUME NEW next \in Parsed, NEW old \in contents, CopyOf(old, next) PROVE IInv'
  BY <1>1, <1>4, CopyOfStep
<1>5. CASE RunMake
  BY <1>1, <1>2, <1>3, <1>5 DEF RunMake
<1>6. CASE RunCopy
  BY <1>1, <1>2, <1>3, <1>4, <1>6 DEF RunCopy
<1> QED
  BY <1>5, <1>6

(* rm and rmdir free what they take away; rm -r may lose some of it, which *)
(* is careless.                                                            *)
LEMMA RunRemoveStep == ASSUME IInv, RunRemove PROVE IInv'
<1>1. calls # <<>> /\ Top.step \in Parsed /\ "free" \in Parsed
  BY DEF RunRemove, At, Parsed
<1>2. CASE GoOn("free")
  BY <1>1, <1>2, GoOnStep
<1>3. ASSUME NEW b \in nodes, NEW data \in {{}} \cup {{c} : c \in contents},
             TakeAway({b}, data, {b} \cup UNION data)
      PROVE  IInv'
  <2>1. {b} \in SUBSET nodes /\ data \in SUBSET contents
    OBVIOUS
  <2> QED
    BY <1>1, <1>3, <2>1, TakeAwayStep
<1>4. ASSUME Word = "rm", Recursive(Top.line),
             NEW gone \in SUBSET nodes, NEW data \in SUBSET contents,
             NEW kept \in SUBSET gone, NEW lost \in SUBSET data,
             TakeAway(gone, data, (gone \ kept) \cup UNION (data \ lost))
      PROVE  IInv'
  <2>1. (gone \ kept) \cup UNION (data \ lost) \in SUBSET (gone \cup UNION data)
    OBVIOUS
  <2>2. ASSUME ~careless PROVE FALSE
    <3>1. Thrifty(Top) /\ Top.line \in Seq(Words)
      BY <1>1, <2>2, TopIsSound DEF CallType
    <3>2. ~Loses(Top.line)
      BY <3>1 DEF Thrifty
    <3>3. Top.line # <<>> /\ ~(Top.line[1] = "rm" /\ Recursive(Top.line))
      BY <3>1, <3>2, LosesFacts
    <3> QED
      BY <1>4, <3>3 DEF Word
  <2> QED
    BY <1>1, <1>4, <2>1, <2>2, TakeAwayStep
<1> QED
  BY <1>2, <1>3, <1>4 DEF RunRemove

(* A careful call still counts all of its tokens, and frees all it has.    *)
LEMMA FreeTokensStep == ASSUME IInv, FreeTokens PROVE IInv'
<1> DEFINE F == {Top.array} \cup {Top.tokens[i] : i \in 1..Len(Top.line)}
<1>1. /\ calls # <<>> /\ Top.step = "free" /\ calls' = Front(calls)
      /\ live' = live \ F /\ UNCHANGED <<nodes, contents, status, careless>>
  BY DEF FreeTokens, At
<1>2. /\ Types /\ Top \in CallType /\ Sound(Top) /\ (~careless => Thrifty(Top))
      /\ Top.line \in Seq(Words) /\ Top.tokens \in Seq(Blocks)
  BY <1>1, TopIsSound DEF CallType
<1>3. Top.array # NULL /\ Len(Top.line) <= Len(Top.tokens) /\ Len(Top.line) \in Nat
      /\ Len(Top.tokens) \in Nat
  BY <1>1, <1>2 DEF Sound, Parsed
<1>4. F \subseteq Owns(Top)
  <2>1. \A i \in 1..Len(Top.line) : i \in 1..Len(Top.tokens)
    BY <1>3
  <2> QED
    BY <1>2, <1>3, <2>1, OwnsFacts
<1>5. ~careless => F = Owns(Top)
  <2> SUFFICES ASSUME ~careless PROVE Owns(Top) \subseteq F
    BY <1>4
  <2>1. Len(Top.tokens) = Len(Top.line)
    BY <1>1, <1>2 DEF Thrifty, Parsed
  <2> QED
    BY <1>2, <2>1, OwnsFacts
<1> QED
  BY <1>1, <1>4, <1>5, PopStep

(* Every step preserves the invariant.                                     *)
LEMMA NextIInv == IInv /\ [Next]_vars => IInv'
<1> SUFFICES ASSUME IInv, [Next]_vars PROVE IInv'
  OBVIOUS
<1>1. ASSUME NEW typed \in Lines, Enter(typed) PROVE IInv'
  BY <1>1, EnterStep
<1>2. CASE UNCHANGED vars
  BY <1>2, StatusStep DEF vars, IInv, Types
<1> QED
  BY <1>1, <1>2, TakeArrayStep, TakeTokenStep, RedirectStep, RecordStep, RunLostStep,
     RunEmptyStep, RunSudoStep, RunEchoStep, RunQuietStep, RunMakeStep, RunRemoveStep,
     FreeTokensStep DEF Next

(* So it always holds.                                                     *)
LEMMA SpecIInv == Spec => []IInv
BY InitIInv, NextIInv, PTL DEF Spec

-----------------------------------------------------------------------------
(* The blocks that the properties call held, in the terms of the invariant.*)
LEMMA HeldFacts == \A b : b \in Held <=> \E i \in 1..Len(calls) : b \in Owns(calls[i])
<1> DEFINE All(i) == {calls[i].array} \cup {calls[i].tokens[j] : j \in 1..Len(calls[i].tokens)}
<1> DEFINE at == 1..Len(calls)
           all == UNION {All(i) : i \in at}
<1>1. Held = all \ {NULL}
  BY DEF Held
<1>2. \A i : Owns(calls[i]) = All(i) \ {NULL}
  BY DEF Owns
<1> HIDE DEF All
<1>3. \A b : b \in all <=> \E i \in at : b \in All(i)
  <2> HIDE DEF at
  <2> QED
    OBVIOUS
<1>4. \A b : b \in Held <=> b \in all /\ b # NULL
  <2> HIDE DEF all
  <2> QED
    BY <1>1
<1>5. \A b : b \in Held <=> b # NULL /\ \E i \in at : b \in All(i)
  BY <1>3, <1>4, Zenon
<1>6. ASSUME NEW i, NEW b PROVE b \in Owns(calls[i]) <=> b \in All(i) /\ b # NULL
  BY <1>2
<1> QED
  BY <1>5, <1>6

(* Blocks that are no two of them the same are as many as the heap has, at *)
(* most.                                                                   *)
LEMMA TokensFit ==
  ASSUME NEW s \in Seq(Blocks), \A j, k \in 1..Len(s) : s[j] = s[k] => j = k
  PROVE  Len(s) <= MaxBlocks
<1>1. Len(s) \in Nat /\ MaxBlocks \in Nat
  BY CommandLineAssumption
<1>2. IsFiniteSet(Blocks) /\ Cardinality(Blocks) = MaxBlocks
  <2>1. IsFiniteSet(1..MaxBlocks) /\ Cardinality(1..MaxBlocks)
                                       = IF 1 > MaxBlocks THEN 0 ELSE MaxBlocks - 1 + 1
    BY <1>1, FS_Interval
  <2> QED
    BY <1>1, <2>1 DEF Blocks
<1>3. s \in Injection(1..Len(s), Blocks)
  BY DEF Injection, IsInjective
<1>4. Cardinality(1..Len(s)) <= MaxBlocks
  BY <1>2, <1>3, FS_Injection
<1>5. Cardinality(1..Len(s)) = Len(s)
  <2>1. Cardinality(1..Len(s)) = IF 1 > Len(s) THEN 0 ELSE Len(s) - 1 + 1
    BY <1>1, FS_Interval
  <2> QED
    BY <1>1, <2>1
<1> QED
  BY <1>4, <1>5

(* For any lines and any number of blocks, whatever fails on the way: no   *)
(* block of a token, a node or a file is freed while somebody still points *)
(* to it, and none has two owners.                                         *)
THEOREM BlocksHaveOneOwner == Spec => []BlocksAreOwned
<1>1. ASSUME IInv PROVE TypeOK
  <2>1. Types /\ CallsAreSound /\ OthersWait
    BY <1>1 DEF IInv
  <2>2. ASSUME NEW i \in 1..Len(calls)
        PROVE  /\ calls[i].line \in Seq(Words)
               /\ Len(calls[i].tokens) <= MaxBlocks
               /\ calls[i].step \in {"array", "tokens", "record", "append",
                                     "run", "write", "copy", "free"}
               /\ i < Len(calls) => calls[i].step = "free" /\ calls[i].line[1] = "sudo"
    <3>1. calls[i] \in CallType /\ Sound(calls[i]) /\ Len(calls) \in Nat
      BY <2>1 DEF Types, CallsAreSound
    <3>2. /\ calls[i].line \in Seq(Words) /\ calls[i].tokens \in Seq(Blocks)
          /\ calls[i].step \in Steps
      BY <3>1 DEF CallType
    <3>3. Len(calls[i].tokens) <= MaxBlocks
      BY <3>1, <3>2, TokensFit DEF Sound
    <3>4. i < Len(calls) => i \in 1..(Len(calls) - 1)
      BY <3>1
    <3> QED
      BY <2>1, <3>2, <3>3, <3>4 DEF OthersWait, Steps, Parsed
  <2> QED
    BY <2>1, <2>2 DEF TypeOK, Types
<1>2. ASSUME IInv PROVE NothingStale
  <2>1. Types /\ NothingShared /\ TreeIsSound
    BY <1>2 DEF IInv
  <2>2. /\ \A i, j \in 1..Len(calls) : i # j => Owns(calls[i]) \cap Owns(calls[j]) = {}
        /\ \A i \in 1..Len(calls) : Owns(calls[i]) \cap Tree = {}
        /\ \A i \in 1..Len(calls) : Owns(calls[i]) \subseteq live
    BY <2>1 DEF NothingShared
  <2>3. Held \cup Tree \subseteq live /\ Held \cap Tree = {}
    BY <2>1, <2>2, HeldFacts DEF TreeIsSound
  <2>4. ASSUME NEW i \in 1..Len(calls), NEW j \in 1..Len(calls), i # j,
               calls[i].array = calls[j].array, calls[i].array # NULL
        PROVE  FALSE
    <3>1. calls[i] \in CallType /\ calls[j] \in CallType
      BY <2>1 DEF Types
    <3>2. calls[i].array \in Owns(calls[i]) /\ calls[j].array \in Owns(calls[j])
      BY <2>4, <3>1, OwnsFacts
    <3> QED
      BY <2>2, <2>4, <3>2
  <2> QED
    BY <2>1, <2>3, <2>4 DEF NothingStale, TreeIsSound, Apart
<1> QED
  BY <1>1, <1>2, SpecIInv, PTL DEF BlocksAreOwned

(* As long as no careless line was run, every block in use has an owner.   *)
LEMMA LosesNothing == IInv => NothingLost
<1> SUFFICES ASSUME IInv, ~careless PROVE live = Held \cup Tree
  BY DEF NothingLost
<1>1. /\ \A i \in 1..Len(calls) : Owns(calls[i]) \subseteq live
      /\ Tree \subseteq live
  BY DEF IInv, NothingShared, TreeIsSound
<1>2. \A b \in live : (\E i \in 1..Len(calls) : b \in Owns(calls[i])) \/ b \in Tree
  BY DEF IInv, Careful
<1> QED
  BY <1>1, <1>2, HeldFacts

-----------------------------------------------------------------------------
(* When memory runs out.                                                   *)

(* The numbers up to n are n numbers.                                      *)
LEMMA UpTo ==
  ASSUME NEW n \in Nat
  PROVE  IsFiniteSet(1..n) /\ Cardinality(1..n) = n
<1>1. IsFiniteSet(1..n) /\ Cardinality(1..n) = IF 1 > n THEN 0 ELSE n - 1 + 1
  BY FS_Interval
<1> QED
  BY <1>1

(* A careful call has a block for each of its words, and the array.        *)
LEMMA OwnsSize ==
  ASSUME NEW c \in CallType, Sound(c), Thrifty(c)
  PROVE  IsFiniteSet(Owns(c)) /\ Cardinality(Owns(c)) <= Len(c.line) + 1
<1> DEFINE s == c.tokens
           taken == {s[j] : j \in 1..Len(s)}
<1>1. c.line \in Seq(Words) /\ s \in Seq(Blocks) /\ Len(s) \in Nat /\ Len(c.line) \in Nat
  BY DEF CallType
<1>2. Len(s) <= Len(c.line)
  <2>1. CASE c.step = "array"
    <3>1. s = <<>>
      BY <2>1 DEF Sound
    <3>2. Len(s) = 0
      BY <3>1
    <3> QED
      BY <1>1, <3>2
  <2>2. CASE c.step = "tokens"
    BY <2>2 DEF Sound
  <2>3. CASE c.step \in Parsed
    BY <1>1, <2>3 DEF Thrifty
  <2>4. c.step \in Steps
    BY DEF CallType
  <2> QED
    BY <2>1, <2>2, <2>3, <2>4 DEF Steps, Parsed
<1>3. Owns(c) \subseteq taken \cup {c.array}
  BY DEF Owns
<1> HIDE DEF s
<1>4. s \in Surjection(1..Len(s), taken)
  BY <1>1 DEF Surjection
<1>5. IsFiniteSet(1..Len(s)) /\ Cardinality(1..Len(s)) = Len(s)
  BY <1>1, UpTo
<1>6. IsFiniteSet(taken) /\ Cardinality(taken) <= Len(s)
  BY <1>4, <1>5, FS_Surjection
<1> HIDE DEF taken
<1>7. IsFiniteSet(taken \cup {c.array}) /\ Cardinality(taken \cup {c.array}) <= Len(s) + 1
  <2>1. Cardinality(taken) \in Nat
    BY <1>6, FS_CardinalityType
  <2>2. IsFiniteSet(taken \cup {c.array}) /\ Cardinality(taken \cup {c.array})
           = IF c.array \in taken THEN Cardinality(taken) ELSE Cardinality(taken) + 1
    BY <1>6, FS_AddElement
  <2> QED
    BY <1>1, <1>6, <2>1, <2>2
<1>8. IsFiniteSet(Owns(c)) /\ Cardinality(Owns(c)) <= Cardinality(taken \cup {c.array})
  BY <1>3, <1>7, FS_Subset
<1>9. Cardinality(Owns(c)) \in Nat /\ Cardinality(taken \cup {c.array}) \in Nat
  BY <1>7, <1>8, FS_CardinalityType
<1> QED
  BY <1>1, <1>2, <1>7, <1>8, <1>9

(* What the first m calls own: each nested call has one word less.         *)
OwnedBy(m) == {b \in Blocks : \E i \in 1..m : b \in Owns(calls[i])}

(* The arithmetic of it.                                                   *)
LEMMA OneMore ==
  ASSUME NEW a \in Nat, NEW m \in Nat
  PROVE  m * (2 * a + 3 - m) + 2 * (a - m + 1) = (m + 1) * (2 * a + 3 - (m + 1))
OBVIOUS

(* The calls take most when there is one for each word.                    *)
LEMMA MostInTheEnd ==
  ASSUME NEW a \in Nat, NEW n \in Nat, n >= 1, n <= a
  PROVE  n * (2 * a + 3 - n) <= a * (a + 3)
<1>1. a * (a + 3) - n * (2 * a + 3 - n) = (a - n) * (a - n + 3)
  OBVIOUS
<1>2. (a - n) * (a - n + 3) >= 0
  OBVIOUS
<1> QED
  BY <1>1, <1>2

(* The calls together have a + (a - 1) + ... words, and an array each.     *)
LEMMA OwnedSize ==
  ASSUME IInv, ~careless, calls # <<>>
  PROVE  LET a == Len(calls[1].line)
             n == Len(calls)
         IN  /\ a \in Nat /\ n \in Nat /\ n >= 1 /\ n <= a
             /\ IsFiniteSet(OwnedBy(n))
             /\ 2 * Cardinality(OwnedBy(n)) <= n * (2 * a + 3 - n)
<1> DEFINE a == Len(calls[1].line)
           n == Len(calls)
           Size(m) == /\ IsFiniteSet(OwnedBy(m))
                      /\ 2 * Cardinality(OwnedBy(m)) <= m * (2 * a + 3 - m)
                      /\ m >= 1 => Len(calls[m].line) = a - m + 1
           T == {m \in Nat : m <= n => Size(m)}
<1>1. Types /\ CallsAreSound /\ Careful
  BY DEF IInv
<1>2. n \in Nat /\ n >= 1 /\ 1 \in 1..n
  BY <1>1, TopFacts
<1>3. \A i \in 1..n : calls[i] \in CallType /\ Sound(calls[i]) /\ Thrifty(calls[i])
  BY <1>1 DEF Types, CallsAreSound, Careful
<1>4. \A i \in 1..n : /\ calls[i].line \in Seq(Words) /\ Len(calls[i].line) \in Nat
                      /\ Len(calls[i].line) >= 1
  <2> SUFFICES ASSUME NEW i \in 1..n
               PROVE  /\ calls[i].line \in Seq(Words) /\ Len(calls[i].line) \in Nat
                      /\ Len(calls[i].line) >= 1
    OBVIOUS
  <2>1. calls[i].line \in Seq(Words) /\ ~Loses(calls[i].line)
    BY <1>3 DEF CallType, Thrifty
  <2>2. calls[i].line # <<>>
    BY <2>1, LosesFacts
  <2> QED
    BY <2>1, <2>2
<1>5. \A i \in 1..(n - 1) : calls[i + 1].line = Tail(calls[i].line)
  BY <1>1 DEF Careful
<1>6. a \in Nat
  BY <1>2, <1>4
<1>7. 0 \in T
  <2>1. OwnedBy(0) = {}
    BY DEF OwnedBy
  <2>2. IsFiniteSet(OwnedBy(0)) /\ Cardinality(OwnedBy(0)) = 0
    BY <2>1, FS_EmptySet
  <2> QED
    BY <1>6, <2>2
<1>8. ASSUME NEW m \in T PROVE m + 1 \in T
  <2>1. m \in Nat /\ m + 1 \in Nat /\ (m <= n => Size(m))
    OBVIOUS
  <2> SUFFICES ASSUME m + 1 <= n PROVE Size(m + 1)
    <3> HIDE DEF Size
    <3> QED
      BY <2>1
  <2>2. Size(m) /\ m + 1 \in 1..n
    <3> HIDE DEF Size, n
    <3> QED
      BY <1>2, <2>1
  <2>3. Len(calls[m + 1].line) = a - m
    <3>1. CASE m = 0
      BY <1>6, <3>1
    <3>2. CASE m # 0
      <4>1. m \in 1..(n - 1) /\ m \in 1..n /\ Len(calls[m].line) = a - m + 1
        BY <1>2, <2>1, <2>2, <3>2
      <4>2. calls[m + 1].line = Tail(calls[m].line) /\ calls[m].line \in Seq(Words)
            /\ Len(calls[m].line) >= 1
        BY <1>4, <1>5, <4>1
      <4>3. Len(calls[m + 1].line) = Len(calls[m].line) - 1
        BY <4>2
      <4> QED
        BY <1>6, <2>1, <4>1, <4>3
    <3> QED
      BY <3>1, <3>2
  <2> DEFINE new == Owns(calls[m + 1])
  <2>4. IsFiniteSet(new) /\ Cardinality(new) <= a - m + 1 /\ new \subseteq Blocks
    BY <1>3, <2>2, <2>3, OwnsSize, OwnsFacts
  <2>5. OwnedBy(m + 1) = OwnedBy(m) \cup new
    <3>1. \A i \in 1..(m + 1) : i = m + 1 \/ i \in 1..m
      BY <2>1
    <3>2. m + 1 \in 1..(m + 1) /\ \A i \in 1..m : i \in 1..(m + 1)
      BY <2>1
    <3> QED
      BY <2>4, <3>1, <3>2 DEF OwnedBy
  <2> HIDE DEF new
  <2>6. IsFiniteSet(OwnedBy(m)) /\ Cardinality(OwnedBy(m)) \in Nat /\ Cardinality(new) \in Nat
    BY <2>2, <2>4, FS_CardinalityType
  <2>7. /\ IsFiniteSet(OwnedBy(m) \cup new)
        /\ Cardinality(OwnedBy(m) \cup new) <= Cardinality(OwnedBy(m)) + Cardinality(new)
    <3>1. /\ IsFiniteSet(OwnedBy(m) \cup new)
          /\ Cardinality(OwnedBy(m) \cup new) = Cardinality(OwnedBy(m)) + Cardinality(new)
                                                  - Cardinality(OwnedBy(m) \cap new)
      BY <2>4, <2>6, FS_Union
    <3>2. IsFiniteSet(OwnedBy(m) \cap new)
      BY <2>6, FS_Subset
    <3>3. Cardinality(OwnedBy(m) \cap new) \in Nat
      BY <3>2, FS_CardinalityType
    <3> QED
      BY <2>6, <3>1, <3>3
  <2>8. 2 * Cardinality(OwnedBy(m + 1)) <= (m + 1) * (2 * a + 3 - (m + 1))
    <3>1. Cardinality(OwnedBy(m + 1)) \in Nat
      BY <2>5, <2>7, FS_CardinalityType
    <3>2. 2 * Cardinality(OwnedBy(m + 1)) <= m * (2 * a + 3 - m) + 2 * (a - m + 1)
      <4>1. Cardinality(OwnedBy(m + 1)) <= Cardinality(OwnedBy(m)) + (a - m + 1)
        <5>1. Cardinality(new) <= a - m + 1
          BY <2>4
        <5>2. Cardinality(OwnedBy(m + 1)) <= Cardinality(OwnedBy(m)) + Cardinality(new)
          BY <2>5, <2>7
        <5> HIDE DEF a
        <5> QED
          BY <1>6, <2>1, <2>6, <3>1, <5>1, <5>2
      <4>2. 2 * Cardinality(OwnedBy(m)) <= m * (2 * a + 3 - m)
        BY <2>2
      <4> HIDE DEF a
      <4>3. m * (2 * a + 3 - m) \in Int
        BY <1>6, <2>1
      <4> QED
        BY <1>6, <2>1, <2>6, <3>1, <4>1, <4>2, <4>3
    <3>3. m * (2 * a + 3 - m) + 2 * (a - m + 1) = (m + 1) * (2 * a + 3 - (m + 1))
      BY <1>6, <2>1, OneMore
    <3> HIDE DEF a
    <3> QED
      BY <3>2, <3>3
  <2>9. IsFiniteSet(OwnedBy(m + 1)) /\ Len(calls[m + 1].line) = a - (m + 1) + 1
    <3>1. IsFiniteSet(OwnedBy(m + 1))
      BY <2>5, <2>7
    <3> HIDE DEF a
    <3> QED
      BY <1>6, <2>1, <2>3, <3>1
  <2> QED
    BY <2>8, <2>9
<1>9. T = Nat
  <2>1. T \in SUBSET Nat
    OBVIOUS
  <2> HIDE DEF T
  <2> QED
    BY <1>7, <1>8, <2>1, AllNumbers, Zenon
<1>10. Size(n)
  <2>1. n \in T
    BY <1>2, <1>9, Zenon
  <2>2. n <= n
    BY <1>2
  <2> QED
    BY <2>1, <2>2
<1>11. n <= a
  <2>1. Len(calls[n].line) >= 1 /\ Len(calls[n].line) = a - n + 1
    BY <1>2, <1>4, <1>10
  <2> QED
    BY <1>2, <1>6, <2>1
<1> QED
  BY <1>2, <1>6, <1>10, <1>11

(* What is in use: the tree, and what the a words of the line that was     *)
(* typed take, its sudos included.                                         *)
LEMMA InUse ==
  ASSUME IInv, ~careless, calls # <<>>
  PROVE  LET a == Len(calls[1].line)
         IN  /\ a \in Nat
             /\ IsFiniteSet(live) /\ IsFiniteSet(Tree)
             /\ 2 * Cardinality(live) <= a * (a + 3) + 2 * Cardinality(Tree)
<1> DEFINE a == Len(calls[1].line)
           n == Len(calls)
           owned == OwnedBy(n)
<1>1. /\ a \in Nat /\ n \in Nat /\ n >= 1 /\ n <= a
      /\ IsFiniteSet(owned) /\ 2 * Cardinality(owned) <= n * (2 * a + 3 - n)
  BY OwnedSize
<1>2. live \subseteq owned \cup Tree
  <2>1. live \subseteq Blocks /\ \A b \in live : (\E i \in 1..n : b \in Owns(calls[i])) \/ b \in Tree
    BY DEF IInv, Types, Careful
  <2> QED
    BY <2>1 DEF OwnedBy
<1>3. IsFiniteSet(Blocks)
  BY CommandLineAssumption, UpTo DEF Blocks
<1>4. IsFiniteSet(Tree) /\ IsFiniteSet(live)
  <2>1. Tree \subseteq Blocks /\ live \subseteq Blocks
    BY TreeFacts
  <2> QED
    BY <1>3, <2>1, FS_Subset
<1> HIDE DEF owned, a, n
<1>5. /\ Cardinality(owned) \in Nat /\ Cardinality(Tree) \in Nat /\ Cardinality(live) \in Nat
      /\ IsFiniteSet(owned \cap Tree)
  BY <1>1, <1>4, FS_CardinalityType, FS_Subset
<1>6. /\ IsFiniteSet(owned \cup Tree)
      /\ Cardinality(owned \cup Tree) <= Cardinality(owned) + Cardinality(Tree)
  <2>1. /\ IsFiniteSet(owned \cup Tree)
        /\ Cardinality(owned \cup Tree)
             = Cardinality(owned) + Cardinality(Tree) - Cardinality(owned \cap Tree)
    BY <1>1, <1>4, FS_Union
  <2>2. Cardinality(owned \cap Tree) \in Nat
    BY <1>5, FS_CardinalityType
  <2> QED
    BY <1>5, <2>1, <2>2
<1>7. Cardinality(live) <= Cardinality(owned \cup Tree) /\ Cardinality(owned \cup Tree) \in Nat
  BY <1>2, <1>6, FS_Subset, FS_CardinalityType
<1>8. n * (2 * a + 3 - n) <= a * (a + 3)
  BY <1>1, MostInTheEnd
<1>9. 2 * Cardinality(live) <= a * (a + 3) + 2 * Cardinality(Tree)
  <2>1. n * (2 * a + 3 - n) \in Int /\ a * (a + 3) \in Int
    BY <1>1
  <2>2. 2 * Cardinality(live) <= 2 * Cardinality(owned) + 2 * Cardinality(Tree)
    BY <1>5, <1>6, <1>7
  <2> QED
    BY <1>1, <1>5, <1>8, <2>1, <2>2
<1> QED
  BY <1>1, <1>4, <1>9 DEF a

(* What a command asks for at once is at most one more than what the tree  *)
(* holds: the contents that it copies, and a line.                         *)
LEMMA Refused ==
  ASSUME IInv, [Next]_vars, status' = "exhausted"
  PROVE  \/ UNCHANGED vars
         \/ /\ Cardinality(Blocks \ live) <= Cardinality(Tree) /\ calls # <<>>
            /\ UNCHANGED <<live, calls, nodes, contents, careless>>
<1> DEFINE Ends == /\ Cardinality(Blocks \ live) <= Cardinality(Tree) /\ calls # <<>>
                   /\ UNCHANGED <<live, calls, nodes, contents, careless>>
           Stays == status' = status /\ status = "ok"
<1>1. IsFiniteSet(Tree) /\ Cardinality(Tree) \in Nat /\ Cardinality(Blocks \ live) \in Nat
  <2>1. IsFiniteSet(Blocks)
    BY CommandLineAssumption, UpTo DEF Blocks
  <2>2. Tree \subseteq Blocks
    BY TreeFacts
  <2>3. IsFiniteSet(Tree) /\ IsFiniteSet(Blocks \ live)
    BY <2>1, <2>2, FS_Subset
  <2> QED
    BY <2>3, FS_CardinalityType
<1>2. ASSUME NEW old \in contents \cup {{}}
      PROVE  Cardinality(old) \in Nat /\ Cardinality(old) <= Cardinality(Tree)
  <2>1. old \subseteq Tree
    BY DEF Tree
  <2> QED
    BY <1>1, <2>1, FS_Subset, FS_CardinalityType
<1>3. ASSUME calls # <<>>, Exhausted(1) PROVE Ends
  BY <1>1, <1>3 DEF Exhausted
<1>4. ASSUME calls # <<>>, NEW old \in contents \cup {{}},
             Exhausted(Cardinality(old) + 1) \/ Exhausted(Cardinality(old))
      PROVE  Ends
  BY <1>1, <1>2, <1>4 DEF Exhausted
<1> HIDE DEF Ends
<1>5. ASSUME NEW step, At(step) PROVE calls # <<>> /\ status = "ok"
  BY <1>5 DEF At
<1>6. ASSUME status = "ok", calls # <<>>, NEW next, GoOn(next) \/ NewNode(next)
      PROVE  Ends \/ Stays
  BY <1>3, <1>6 DEF GoOn, NewNode
<1>7. ASSUME status = "ok", calls # <<>>, NEW next, NEW old \in contents \cup {{}},
             Add(old, next) \/ Overwrite(old, next) \/ CopyOf(old, next)
      PROVE  Ends \/ Stays
  <2>1. CASE Add(old, next)
    BY <1>4, <1>7, <2>1 DEF Add
  <2>2. CASE Overwrite(old, next)
    BY <1>3, <1>7, <2>2 DEF Overwrite
  <2>3. CASE CopyOf(old, next)
    BY <1>4, <1>7, <2>3 DEF CopyOf
  <2> QED
    BY <1>7, <2>1, <2>2, <2>3
<1>8. TakeArray \/ TakeToken => Ends \/ Stays
  BY <1>3, <1>5 DEF TakeArray, TakeToken
<1>9. Record \/ RunEcho => Ends \/ Stays
  BY <1>5, <1>6, <1>7 DEF Record, RunEcho
<1>10. RunMake \/ RunCopy => Ends \/ Stays
  BY <1>5, <1>6, <1>7 DEF RunMake, RunCopy
<1>11. RunRemove \/ RunQuiet => Ends \/ Stays
  BY <1>5, <1>6 DEF RunRemove, RunQuiet, TakeAway
<1>12. RunEmpty => Ends \/ Stays
  BY <1>5, <1>6 DEF RunEmpty, Return, Stop
<1>13. ~RunStop
  BY DEF RunStop, Stop
<1>14. Redirect \/ RunLost \/ RunSudo \/ FreeTokens => Stays
  BY <1>5 DEF Redirect, RunLost, Return, RunSudo, FreeTokens
<1>15. ASSUME NEW typed \in Lines, Enter(typed) PROVE Stays
  BY <1>15 DEF Enter
<1>16. ~Stays
  OBVIOUS
<1> QED
  BY <1>8, <1>9, <1>10, <1>11, <1>12, <1>13, <1>14, <1>15, <1>16 DEF Next, Ends

(* For any lines and any heap: until a careless line is run, what is in use*)
(* is held by a call or the tree, and the null pointer that nobody tests is*)
(* handed out only when the tree, the history in it, has filled the heap.  *)
THEOREM MemoryReturns == Spec => []MemoryComesBack
<1> DEFINE J == IInv /\ ExhaustionHasReason
<1>1. Init => J
  BY InitIInv DEF Init, ExhaustionHasReason
<1>2. ASSUME J, [Next]_vars PROVE J'
  <2>1. IInv'
    BY <1>2, NextIInv
  <2>2. ExhaustionHasReason'
    <3> SUFFICES ASSUME status' = "exhausted", ~careless' PROVE ExhaustionHasReason'
      BY DEF ExhaustionHasReason
    <3>1. CASE UNCHANGED vars
      BY <1>2, <3>1 DEF vars, ExhaustionHasReason, Tree
    <3>2. CASE /\ Cardinality(Blocks \ live) <= Cardinality(Tree) /\ calls # <<>>
               /\ UNCHANGED <<live, calls, nodes, contents, careless>>
      <4> DEFINE a == Len(calls[1].line)
      <4>1. /\ a \in Nat /\ IsFiniteSet(live) /\ IsFiniteSet(Tree)
            /\ 2 * Cardinality(live) <= a * (a + 3) + 2 * Cardinality(Tree)
        BY <1>2, <3>2, InUse
      <4>2. Cardinality(Blocks \ live) = MaxBlocks - Cardinality(live)
        <5>1. IsFiniteSet(Blocks) /\ Cardinality(Blocks) = MaxBlocks
          BY CommandLineAssumption, UpTo DEF Blocks
        <5>2. live \subseteq Blocks
          BY <1>2, TreeFacts
        <5>3. Cardinality(Blocks \ live) = Cardinality(Blocks) - Cardinality(Blocks \cap live)
          BY <5>1, FS_Difference, <4>1
        <5>4. Blocks \cap live = live
          BY <5>2
        <5> QED
          BY <5>1, <5>3, <5>4
      <4>3. Cardinality(live) \in Nat /\ Cardinality(Tree) \in Nat /\ MaxBlocks \in Nat
        BY <4>1, FS_CardinalityType, CommandLineAssumption
      <4>4. calls' = calls /\ Tree' = Tree
        BY <3>2 DEF Tree
      <4> HIDE DEF a
      <4>5. a * (a + 3) \in Nat
        BY <4>1
      <4>6. 2 * MaxBlocks < a * (a + 3) + 4 * Cardinality(Tree) + 2
        BY <3>2, <4>1, <4>2, <4>3, <4>5
      <4> QED
        BY <4>4, <4>6 DEF ExhaustionHasReason, a
    <3> QED
      BY <1>2, <3>1, <3>2, Refused
  <2> QED
    BY <2>1, <2>2
<1>3. J => MemoryComesBack
  BY LosesNothing DEF MemoryComesBack
<1> HIDE DEF J
<1> QED
  BY <1>1, <1>2, <1>3, PTL DEF Spec

-----------------------------------------------------------------------------
(* The keyboard.                                                           *)

(* What was held when the byte at a place of the wire was sent; past the   *)
(* last one, what is held now.                                             *)
HeldAt(bytes, now, n) == IF n <= Len(bytes) THEN bytes[n].held ELSE now

(* What a byte tells of the keys: the prefix tells nothing yet.            *)
After(b) ==
  IF b.position = "E0" THEN b.held
  ELSE IF b.up THEN b.held \ {b.key} ELSE b.held \cup {b.key}

FromItsKey(b) ==
  /\ b.position \in {Position(b.key), "E0"}
  /\ b.position = "E0" => ~b.up

(* Each byte comes from its key, and is followed by what it tells.         *)
Replays(bytes, now) ==
  \A n \in 1..Len(bytes) :
    FromItsKey(bytes[n]) /\ HeldAt(bytes, now, n + 1) = After(bytes[n])

(* The keys that were held as far as the kernel has read.                  *)
Seen == HeldAt(wire, pressed, 1)

OneShift == Cardinality(keys \cap Shifts) < 2

(* The flags of the kernel agree with the keys it has seen.                *)
FlagsFollow ==
  /\ shift_held => Shifts \cap Seen # {}
  /\ ctrl_held => Ctrls \cap Seen # {}
  /\ OneShift /\ Shifts \cap Seen # {} => shift_held

KeyboardIInv ==
  KeyboardTypeOK /\ Replays(wire, pressed) /\ FlagsFollow /\ NoPhantomModifier /\ ShiftIsHonoured

-----------------------------------------------------------------------------
(* Keys and their bytes.                                                   *)

(* The keys of a user are keys.                                            *)
LEMMA KeysAreKeys == KeyboardTypeOK => keys \subseteq AllKeys
BY KeyboardAssumption DEF KeyboardTypeOK

(* The positions of the modifiers are those of no other key.               *)
LEMMA ModifierPositions ==
  ASSUME NEW k \in AllKeys
  PROVE  /\ Position(k) \in Shifts <=> k \in Shifts
         /\ Position(k) = "ctrl" <=> k \in Ctrls
         /\ Position(k) # "E0"
BY DEF AllKeys, Position, Shifts, Ctrls

(* What a byte tells of the modifiers.                                     *)
LEMMA AfterModifiers ==
  ASSUME NEW b, b.key \in AllKeys, b.position \in {Position(b.key), "E0"}
  PROVE  /\ b.position \notin Shifts => Shifts \cap After(b) = Shifts \cap b.held
         /\ b.position \in Shifts =>
              /\ b.key \in Shifts
              /\ After(b) = IF b.up THEN b.held \ {b.key} ELSE b.held \cup {b.key}
         /\ b.position # "ctrl" => Ctrls \cap After(b) = Ctrls \cap b.held
         /\ b.position = "ctrl" =>
              /\ b.key \in Ctrls
              /\ After(b) = IF b.up THEN b.held \ {b.key} ELSE b.held \cup {b.key}
<1>1. b.position # "E0" => b.position = Position(b.key)
  OBVIOUS
<1>2. "E0" \notin Shifts /\ "E0" # "ctrl"
  BY DEF Shifts
<1>3. CASE b.position = "E0"
  BY <1>2, <1>3 DEF After
<1>4. CASE b.position # "E0"
  <2>1. After(b) = IF b.up THEN b.held \ {b.key} ELSE b.held \cup {b.key}
    BY <1>4 DEF After
  <2>2. /\ b.position \in Shifts <=> b.key \in Shifts
        /\ b.position = "ctrl" <=> b.key \in Ctrls
    BY <1>1, <1>4, ModifierPositions
  <2>3. QED
    BY <2>1, <2>2
<1>5. QED
  BY <1>3, <1>4

(* A user with one shift key presses no other one.                         *)
LEMMA OneShiftKey ==
  ASSUME OneShift, NEW k \in keys \cap Shifts, NEW l \in keys \cap Shifts
  PROVE  k = l
<1> SUFFICES ASSUME k # l PROVE FALSE
  OBVIOUS
<1>1. IsFiniteSet(Shifts)
  <2>1. IsFiniteSet({"left shift"}) /\ IsFiniteSet({"right shift"})
    BY FS_Singleton
  <2>2. Shifts = {"left shift"} \cup {"right shift"}
    BY DEF Shifts
  <2>3. QED
    BY <2>1, <2>2, FS_Union
<1>2. IsFiniteSet(keys \cap Shifts)
  BY <1>1, FS_Intersection
<1>3. {k, l} \subseteq keys \cap Shifts
  OBVIOUS
<1>4. IsFiniteSet({k, l}) /\ Cardinality({k, l}) = 2
  <2>1. IsFiniteSet({k}) /\ Cardinality({k}) = 1
    BY FS_Singleton
  <2>2. {k, l} = {k} \cup {l} /\ l \notin {k}
    OBVIOUS
  <2>3. IsFiniteSet({k} \cup {l}) /\ Cardinality({k} \cup {l}) = Cardinality({k}) + 1
    BY <2>1, <2>2, FS_AddElement
  <2>4. QED
    BY <2>1, <2>2, <2>3
<1>5. 2 <= Cardinality(keys \cap Shifts)
  BY <1>2, <1>3, <1>4, FS_Subset
<1>6. Cardinality(keys \cap Shifts) \in Nat
  BY <1>2, FS_CardinalityType
<1>7. QED
  BY <1>5, <1>6 DEF OneShift


-----------------------------------------------------------------------------
(* The keyboard sends.                                                     *)

(* A byte goes on the wire with what is held: the wire then leads to what  *)
(* the byte tells, and what the kernel has seen stays the same.            *)
LEMMA OneMoreByte ==
  ASSUME NEW bytes \in Seq(Byte), NEW now, Replays(bytes, now),
         NEW b \in Byte, FromItsKey(b), b.held = now
  PROVE  /\ Append(bytes, b) \in Seq(Byte)
         /\ Replays(Append(bytes, b), After(b))
         /\ HeldAt(Append(bytes, b), After(b), 1) = HeldAt(bytes, now, 1)
<1> DEFINE more == Append(bytes, b)
<1>1. /\ more \in Seq(Byte) /\ Len(more) = Len(bytes) + 1 /\ Len(bytes) \in Nat
      /\ \A n \in 1..Len(bytes) : more[n] = bytes[n]
      /\ more[Len(bytes) + 1] = b
  BY AppendFacts
<1> HIDE DEF more
<1>2. ASSUME NEW n \in 1..(Len(bytes) + 1)
      PROVE  HeldAt(more, After(b), n) = HeldAt(bytes, now, n)
  <2>1. CASE n <= Len(bytes)
    BY <1>1, <2>1 DEF HeldAt
  <2>2. CASE n = Len(bytes) + 1
    BY <1>1, <2>2 DEF HeldAt
  <2>3. QED
    BY <1>1, <2>1, <2>2
<1>3. ASSUME NEW n \in 1..Len(more)
      PROVE  FromItsKey(more[n]) /\ HeldAt(more, After(b), n + 1) = After(more[n])
  <2>1. CASE n <= Len(bytes)
    <3>1. n \in 1..Len(bytes) /\ n + 1 \in 1..(Len(bytes) + 1) /\ more[n] = bytes[n]
      BY <1>1, <2>1
    <3>2. QED
      BY <1>2, <3>1 DEF Replays
  <2>2. CASE n = Len(bytes) + 1
    BY <1>1, <2>2 DEF HeldAt
  <2>3. QED
    BY <1>1, <2>1, <2>2
<1>4. 1 \in 1..(Len(bytes) + 1)
  BY <1>1
<1>5. QED
  BY <1>1, <1>2, <1>3, <1>4 DEF Replays, more

(* A key goes down or up: its byte, or its two bytes.                      *)
LEMMA SendReplays ==
  ASSUME KeyboardTypeOK, Replays(wire, pressed), NEW k \in keys, NEW up \in BOOLEAN, Send(k, up),
         pressed' = IF up THEN pressed \ {k} ELSE pressed \cup {k}
  PROVE  wire' \in Seq(Byte) /\ Replays(wire', pressed') /\ HeldAt(wire', pressed', 1) = Seen
<1> DEFINE own    == [position |-> Position(k), up |-> up, key |-> k, held |-> pressed]
           prefix == [position |-> "E0", up |-> FALSE, key |-> k, held |-> pressed]
<1>1. wire \in Seq(Byte) /\ pressed \in SUBSET keys
  BY DEF KeyboardTypeOK
<1>2. own \in Byte /\ prefix \in Byte
  BY <1>1 DEF Byte
<1>3. FromItsKey(own) /\ FromItsKey(prefix)
  <2>1. Position(k) # "E0"
    BY KeysAreKeys, ModifierPositions
  <2>2. QED
    BY <2>1 DEF FromItsKey
<1>4. own.held = pressed /\ prefix.held = pressed /\ After(prefix) = pressed
  BY DEF After
<1>5. After(own) = pressed'
  <2>1. Position(k) # "E0"
    BY KeysAreKeys, ModifierPositions
  <2>2. QED
    BY <2>1 DEF After
<1>6. wire' = IF k \in Prefixed THEN wire \o <<prefix, own>> ELSE wire \o <<own>>
  <2>1. [own EXCEPT !.position = "E0", !.up = FALSE] = prefix
    <3>1. \A r : [r EXCEPT !.position = "E0", !.up = FALSE]
                   = [[r EXCEPT !.position = "E0"] EXCEPT !.up = FALSE]
      OBVIOUS
    <3>2. [own EXCEPT !.position = "E0"]
            = [position |-> "E0", up |-> up, key |-> k, held |-> pressed]
      OBVIOUS
    <3>3. \A r, u : r = [position |-> "E0", up |-> up, key |-> k, held |-> pressed]
                    => [r EXCEPT !.up = u] = [position |-> "E0", up |-> u, key |-> k, held |-> pressed]
      OBVIOUS
    <3> HIDE DEF own
    <3>4. QED
      BY <3>1, <3>2, <3>3, Zenon
  <2>2. wire' = wire \o Bytes(k, up, pressed)
    BY DEF Send
  <2> HIDE DEF prefix
  <2>3. Bytes(k, up, pressed) = IF k \in Prefixed THEN <<prefix, own>> ELSE <<own>>
    BY <2>1, Zenon DEF Bytes
  <2>4. QED
    BY <2>2, <2>3
<1> HIDE DEF own, prefix
<1>7. CASE k \in Prefixed
  <2>1. wire' = Append(Append(wire, prefix), own)
    BY <1>1, <1>2, <1>6, <1>7
  <2>2. /\ Append(wire, prefix) \in Seq(Byte) /\ Replays(Append(wire, prefix), pressed)
        /\ HeldAt(Append(wire, prefix), pressed, 1) = Seen
    BY <1>1, <1>2, <1>3, <1>4, OneMoreByte DEF Seen
  <2>3. QED
    BY <1>2, <1>3, <1>4, <1>5, <2>1, <2>2, OneMoreByte
<1>8. CASE k \notin Prefixed
  <2>1. wire' = Append(wire, own)
    BY <1>1, <1>2, <1>6, <1>8
  <2>2. QED
    BY <1>1, <1>2, <1>3, <1>4, <1>5, <2>1, OneMoreByte DEF Seen
<1>9. QED
  BY <1>7, <1>8

-----------------------------------------------------------------------------
(* The kernel reads.                                                       *)

(* The byte that is read is off the wire, and the kernel has seen what it  *)
(* tells.                                                                  *)
LEMMA OneByteLess ==
  ASSUME KeyboardTypeOK, Replays(wire, pressed), wire # <<>>,
         NEW b, b = Head(wire), wire' = Tail(wire), pressed' = pressed, keys' = keys
  PROVE  /\ b \in Byte /\ FromItsKey(b) /\ b.held = Seen
         /\ wire' \in Seq(Byte) /\ Replays(wire', pressed') /\ Seen' = After(b)
<1>1. wire \in Seq(Byte) /\ Len(wire) \in Nat /\ Len(wire) > 0
  BY DEF KeyboardTypeOK
<1>2. b = wire[1] /\ b \in Byte
  BY <1>1
<1>3. /\ wire' \in Seq(Byte) /\ Len(wire') = Len(wire) - 1
      /\ \A n \in 1..(Len(wire) - 1) : wire'[n] = wire[n + 1]
  BY <1>1
<1>4. ASSUME NEW n \in 1..Len(wire)
      PROVE  HeldAt(wire', pressed', n) = HeldAt(wire, pressed, n + 1)
  BY <1>1, <1>3 DEF HeldAt
<1>5. ASSUME NEW n \in 1..Len(wire')
      PROVE  FromItsKey(wire'[n]) /\ HeldAt(wire', pressed', n + 1) = After(wire'[n])
  <2>1. n + 1 \in 1..Len(wire) /\ wire'[n] = wire[n + 1]
    BY <1>1, <1>3
  <2>2. FromItsKey(wire[n + 1]) /\ HeldAt(wire, pressed, (n + 1) + 1) = After(wire[n + 1])
    BY <2>1 DEF Replays
  <2>3. QED
    BY <1>4, <2>1, <2>2
<1>6. 1 \in 1..Len(wire)
  BY <1>1
<1>7. FromItsKey(b) /\ HeldAt(wire, pressed, 1 + 1) = After(b)
  BY <1>2, <1>6 DEF Replays
<1>8. Seen' = After(b)
  BY <1>4, <1>6, <1>7 DEF Seen
<1>9. b.held = Seen
  BY <1>1, <1>2 DEF Seen, HeldAt
<1>10. QED
  BY <1>2, <1>3, <1>5, <1>7, <1>8, <1>9 DEF Replays

(* A byte that is no modifier: the flags still say what they said.         *)
LEMMA FlagsStay ==
  ASSUME KeyboardTypeOK, FlagsFollow,
         NEW b \in Byte, FromItsKey(b), b.held = Seen, Seen' = After(b),
         ~IsModifier(b), UNCHANGED <<keys, shift_held, ctrl_held>>
  PROVE  FlagsFollow'
<1>1. b.key \in AllKeys /\ b.position \notin Shifts /\ b.position # "ctrl"
  BY KeysAreKeys DEF Byte, IsModifier
<1>2. Shifts \cap After(b) = Shifts \cap Seen /\ Ctrls \cap After(b) = Ctrls \cap Seen
  BY <1>1, AfterModifiers DEF FromItsKey
<1>3. QED
  BY <1>2 DEF FlagsFollow, OneShift

(* A modifier: each flag follows the byte that is for it.                  *)
LEMMA FlagsMove ==
  ASSUME KeyboardTypeOK, FlagsFollow,
         NEW b \in Byte, FromItsKey(b), b.held = Seen, Seen' = After(b),
         Modifier(b)
  PROVE  FlagsFollow'
<1>1. /\ b.key \in keys /\ b.key \in AllKeys /\ b.held \subseteq keys
      /\ b.position \in {Position(b.key), "E0"} /\ keys' = keys
  BY KeysAreKeys DEF Byte, FromItsKey, Modifier, Took
<1>2. shift_held' = (IF b.position \in Shifts THEN ~b.up ELSE shift_held)
  BY DEF Modifier
<1>3. ctrl_held' = (IF b.position = "ctrl" THEN ~b.up ELSE ctrl_held)
  BY DEF Modifier
<1>4. shift_held' => Shifts \cap After(b) # {}
  <2>1. CASE b.position \in Shifts
    BY <1>1, <1>2, <2>1, AfterModifiers
  <2>2. CASE b.position \notin Shifts
    BY <1>1, <1>2, <2>2, AfterModifiers DEF FlagsFollow
  <2>3. QED
    BY <2>1, <2>2
<1>5. ctrl_held' => Ctrls \cap After(b) # {}
  <2>1. CASE b.position = "ctrl"
    BY <1>1, <1>3, <2>1, AfterModifiers
  <2>2. CASE b.position # "ctrl"
    BY <1>1, <1>3, <2>2, AfterModifiers DEF FlagsFollow
  <2>3. QED
    BY <2>1, <2>2
<1>6. OneShift /\ Shifts \cap After(b) # {} => shift_held'
  <2> SUFFICES ASSUME OneShift, NEW k \in Shifts \cap After(b) PROVE shift_held'
    OBVIOUS
  <2>1. CASE b.position \in Shifts
    <3>1. b.key \in Shifts /\ After(b) = IF b.up THEN b.held \ {b.key} ELSE b.held \cup {b.key}
      BY <1>1, <2>1, AfterModifiers
    <3>2. k \in keys /\ k = b.key
      BY <1>1, <3>1, OneShiftKey
    <3>3. ~b.up
      BY <3>1, <3>2
    <3>4. QED
      BY <1>2, <2>1, <3>3
  <2>2. CASE b.position \notin Shifts
    BY <1>1, <1>2, <2>2, AfterModifiers DEF FlagsFollow
  <2>3. QED
    BY <2>1, <2>2
<1>7. QED
  BY <1>1, <1>4, <1>5, <1>6 DEF FlagsFollow, OneShift

-----------------------------------------------------------------------------
(* The types.                                                              *)

(* Before any key goes down.                                               *)
LEMMA InitTypes == KeyboardInit => KeyboardTypeOK
<1> SUFFICES ASSUME KeyboardInit PROVE KeyboardTypeOK
  OBVIOUS
<1>1. wire \in Seq(Byte) /\ line \in Seq([key : Letters, upper : BOOLEAN])
  BY DEF KeyboardInit
<1>2. last \in [key : keys \cup {"none"}, held : SUBSET keys, did : Did]
  BY DEF KeyboardInit, Did
<1>3. QED
  BY <1>1, <1>2 DEF KeyboardInit, KeyboardTypeOK

(* What is stored for a letter is a character of the line.                 *)
LEMMA LetterType ==
  ASSUME KeyboardTypeOK, NEW b \in Byte, IsLetter(b)
  PROVE  Letter(b) \in [key : Letters, upper : BOOLEAN]
BY DEF KeyboardTypeOK, IsLetter, Letter

(* The kernel takes a byte: what every path through the handler has in     *)
(* common.                                                                 *)
LEMMA TookTypes ==
  ASSUME KeyboardTypeOK, wire # <<>>, NEW b, b = Head(wire), NEW did \in Did, Took(b, did)
  PROVE  /\ keys' \in Users /\ pressed' \subseteq keys' /\ Byte' = Byte
         /\ wire' \in Seq(Byte) /\ wire' = Tail(wire) /\ keys' = keys /\ pressed' = pressed
         /\ last' = [key |-> b.key, held |-> b.held, did |-> did]
         /\ last' \in [key : keys' \cup {"none"}, held : SUBSET keys', did : Did]
<1>1. wire \in Seq(Byte) /\ b \in Byte
  BY DEF KeyboardTypeOK
<1>2. b.key \in keys /\ b.held \in SUBSET keys
  BY <1>1 DEF Byte
<1>3. keys' = keys /\ pressed' = pressed /\ wire' = Tail(wire)
      /\ last' = [key |-> b.key, held |-> b.held, did |-> did]
  BY DEF Took
<1>4. Byte' = Byte
  BY <1>3 DEF Byte
<1>5. QED
  BY <1>1, <1>2, <1>3, <1>4 DEF KeyboardTypeOK

-----------------------------------------------------------------------------
(* What each path through the handler does with a byte.                    *)

(* The action on the byte is justified by the flags as the handler finds   *)
(* them, and the line stays a line.                                        *)
Outcome(b, did) ==
  /\ did \in Did /\ Took(b, did)
  /\ {shift_held', ctrl_held', caps_lock', extended'} \subseteq BOOLEAN
  /\ line' \in Seq([key : Letters, upper : BOOLEAN])
  /\ did = "shifted character" => shift_held
  /\ did = "character" => ~shift_held
  /\ did \in {"interrupt", "clear screen"} => ctrl_held

(* A modifier, the prefix and a release do nothing else.                   *)
LEMMA QuietOutcome ==
  ASSUME KeyboardTypeOK, NEW b \in Byte, Modifier(b) \/ Prefix(b) \/ OtherRelease(b)
  PROVE  Outcome(b, "nothing")
<1>1. b.up \in BOOLEAN
  BY DEF Byte
<1>2. "nothing" \in Did
  BY DEF Did
<1>3. CASE Modifier(b)
  BY <1>1, <1>2, <1>3 DEF Modifier, Outcome, KeyboardTypeOK
<1>4. CASE Prefix(b)
  BY <1>2, <1>4 DEF Prefix, Outcome, KeyboardTypeOK
<1>5. CASE OtherRelease(b)
  BY <1>2, <1>5 DEF OtherRelease, Outcome, KeyboardTypeOK
<1>6. QED
  BY <1>3, <1>4, <1>5

(* The empty line is a line.                                               *)
LEMMA EmptyLine == <<>> \in Seq([key : Letters, upper : BOOLEAN])
OBVIOUS

(* A line without its last character is a line.                            *)
LEMMA EraseType ==
  ASSUME NEW S, NEW s \in Seq(S), s # <<>>
  PROVE  SubSeq(s, 1, Len(s) - 1) \in Seq(S)
OBVIOUS

(* With control held: ^C and ^L, and nothing for other keys.               *)
LEMMA ControlOutcome ==
  ASSUME KeyboardTypeOK, NEW b \in Byte, Control(b)
  PROVE  \E did : Outcome(b, did)
<1> DEFINE did == CASE b.position = "c" -> "interrupt"
                    [] b.position = "l" -> "clear screen"
                    [] OTHER -> "nothing"
<1>1. did \in {"interrupt", "clear screen", "nothing"}
  OBVIOUS
<1>2. Took(b, did) /\ ctrl_held
  BY DEF Control
<1> HIDE DEF did
<1>3. line' \in Seq([key : Letters, upper : BOOLEAN])
  <2>1. line' \in {line, <<>>}
    BY DEF Control
  <2>2. QED
    BY <2>1, EmptyLine DEF KeyboardTypeOK
<1>4. Outcome(b, did)
  BY <1>1, <1>2, <1>3 DEF Control, Outcome, Did, KeyboardTypeOK
<1>5. QED
  BY <1>4

(* After the prefix: the arrows, and nothing for other keys.               *)
LEMMA ExtendedOutcome ==
  ASSUME KeyboardTypeOK, NEW b \in Byte, Extended(b)
  PROVE  \E did : Outcome(b, did)
<1> DEFINE did == CASE b.position = "8" -> "history up"
                    [] b.position = "2" -> "history down"
                    [] OTHER -> "nothing"
<1>1. did \in {"history up", "history down", "nothing"}
  OBVIOUS
<1>2. Took(b, did)
  BY DEF Extended
<1> HIDE DEF did
<1>3. line' \in Seq([key : Letters, upper : BOOLEAN])
  <2>1. line' \in {line, <<>>}
    BY DEF Extended
  <2>2. QED
    BY <2>1, EmptyLine DEF KeyboardTypeOK
<1>4. Outcome(b, did)
  BY <1>1, <1>2, <1>3 DEF Extended, Outcome, Did, KeyboardTypeOK
<1>5. QED
  BY <1>4

(* A character, backspace, Enter, or a key without a character.            *)
LEMMA PlainOutcome ==
  ASSUME KeyboardTypeOK, NEW b \in Byte, Plain(b)
  PROVE  \E did : Outcome(b, did)
<1> DEFINE Line == Seq([key : Letters, upper : BOOLEAN])
<1>1. line \in Line /\ {shift_held', ctrl_held', caps_lock', extended'} \subseteq BOOLEAN
  BY DEF Plain, KeyboardTypeOK
<1>2. CASE IsLetter(b) /\ line' = Append(line, Letter(b))
           /\ Took(b, IF shift_held THEN "shifted character" ELSE "character")
  <2>1. line' \in Line
    <3> DEFINE L == [key : Letters, upper : BOOLEAN]
    <3>1. line \in Seq(L) /\ Letter(b) \in L
      BY <1>1, <1>2, LetterType
    <3> HIDE DEF L
    <3>2. Append(line, Letter(b)) \in Seq(L)
      BY <3>1
    <3>3. QED
      BY <1>2, <3>2 DEF L
  <2>2. CASE shift_held
    <3>1. Outcome(b, "shifted character")
      BY <1>1, <1>2, <2>1, <2>2 DEF Outcome, Did
    <3>2. QED
      BY <3>1
  <2>3. CASE ~shift_held
    <3>1. Outcome(b, "character")
      BY <1>1, <1>2, <2>1, <2>3 DEF Outcome, Did
    <3>2. QED
      BY <3>1
  <2>4. QED
    BY <2>2, <2>3
<1>3. CASE Took(b, "erase") /\ line' = IF line = <<>> THEN line ELSE SubSeq(line, 1, Len(line) - 1)
  <2> HIDE DEF Line
  <2>1. line' \in Line
    BY <1>1, <1>3, EraseType DEF Line
  <2> USE DEF Line
  <2>2. Outcome(b, "erase")
    BY <1>1, <1>3, <2>1 DEF Outcome, Did
  <2>3. QED
    BY <2>2
<1>4. CASE Took(b, "execute") /\ line' = <<>>
  <2>1. Outcome(b, "execute")
    BY <1>1, <1>4 DEF Outcome, Did
  <2>2. QED
    BY <2>1
<1>5. CASE Took(b, "nothing") /\ line' = line
  <2>1. Outcome(b, "nothing")
    BY <1>1, <1>5 DEF Outcome, Did
  <2>2. QED
    BY <2>1
<1>6. QED
  BY <1>2, <1>3, <1>4, <1>5 DEF Plain

(* Handling a byte keeps the invariant.                                    *)
LEMMA HandleKeeps == KeyboardIInv /\ Handle => KeyboardIInv'
<1> SUFFICES ASSUME KeyboardIInv, Handle PROVE KeyboardIInv'
  OBVIOUS
<1>1. KeyboardTypeOK /\ Replays(wire, pressed) /\ FlagsFollow
  BY DEF KeyboardIInv
<1> DEFINE b == Head(wire)
<1>2. wire # <<>>
  BY DEF Handle
<1>3. Modifier(b) \/ Prefix(b) \/ OtherRelease(b) \/ Control(b) \/ Extended(b) \/ Plain(b)
  BY DEF Handle
<1>4. b \in Byte
  BY <1>1, <1>2 DEF KeyboardTypeOK
<1> HIDE DEF b
<1>5. PICK did : Outcome(b, did)
  BY <1>1, <1>3, <1>4, QuietOutcome, ControlOutcome, ExtendedOutcome, PlainOutcome
<1>6. /\ keys' \in Users /\ pressed' \subseteq keys' /\ Byte' = Byte
      /\ wire' \in Seq(Byte) /\ wire' = Tail(wire) /\ keys' = keys /\ pressed' = pressed
      /\ last' = [key |-> b.key, held |-> b.held, did |-> did]
      /\ last' \in [key : keys' \cup {"none"}, held : SUBSET keys', did : Did]
  BY <1>1, <1>2, <1>5, TookTypes DEF Outcome, b
<1>7. FromItsKey(b) /\ b.held = Seen /\ Replays(wire', pressed') /\ Seen' = After(b)
  BY <1>1, <1>2, <1>6, OneByteLess DEF b
<1>8. KeyboardTypeOK'
  BY <1>5, <1>6, Zenon DEF Outcome, KeyboardTypeOK
<1>9. FlagsFollow'
  <2>1. CASE Modifier(b)
    BY <1>1, <1>4, <1>7, <2>1, FlagsMove
  <2>2. CASE ~Modifier(b)
    <3>1. Prefix(b) => ~IsModifier(b)
      <4>1. b.position = "E0" => b.position \notin Shifts \cup {"ctrl"} /\ ~IsMake(b, "caps lock")
        BY DEF Shifts, IsMake
      <4>2. QED
        BY <4>1 DEF Prefix, IsE0, IsModifier
    <3>2. OtherRelease(b) \/ Control(b) \/ Extended(b) \/ Plain(b) => ~IsModifier(b)
      BY DEF OtherRelease, Control, Extended, Plain, IsRelease, IsKey
    <3>3. UNCHANGED <<shift_held, ctrl_held>>
      BY <1>3, <2>2 DEF Prefix, OtherRelease, Control, Extended, Plain
    <3>4. QED
      BY <1>1, <1>3, <1>4, <1>6, <1>7, <2>2, <3>1, <3>2, <3>3, FlagsStay
  <2>3. QED
    BY <2>1, <2>2
<1>10. last'.did = did /\ last'.held = Seen
  BY <1>6, <1>7
<1>11. NoPhantomModifier'
  BY <1>1, <1>5, <1>10 DEF NoPhantomModifier, FlagsFollow, Outcome
<1>12. ShiftIsHonoured'
  BY <1>1, <1>5, <1>6, <1>10 DEF ShiftIsHonoured, FlagsFollow, Outcome, OneShift
<1>13. QED
  BY <1>7, <1>8, <1>9, <1>11, <1>12 DEF KeyboardIInv

-----------------------------------------------------------------------------
(* The invariant and what follows from it.                                 *)

(* The invariant holds before any key goes down.                           *)
LEMMA InitInvariant == KeyboardInit => KeyboardIInv
<1> SUFFICES ASSUME KeyboardInit PROVE KeyboardIInv
  OBVIOUS
<1>1. KeyboardTypeOK
  BY InitTypes
<1>2. Len(wire) = 0 /\ Seen = {}
  BY DEF KeyboardInit, Seen, HeldAt
<1>3. Replays(wire, pressed)
  BY <1>2 DEF Replays
<1>4. FlagsFollow
  BY <1>2 DEF KeyboardInit, FlagsFollow
<1>5. NoPhantomModifier /\ ShiftIsHonoured
  BY DEF KeyboardInit, NoPhantomModifier, ShiftIsHonoured
<1>6. QED
  BY <1>1, <1>3, <1>4, <1>5 DEF KeyboardIInv

(* A key going down or up keeps the invariant.                             *)
LEMMA SendKeeps ==
  ASSUME KeyboardIInv, NEW k \in keys, NEW up \in BOOLEAN, Send(k, up),
         pressed' = IF up THEN pressed \ {k} ELSE pressed \cup {k}
  PROVE  KeyboardIInv'
<1>1. KeyboardTypeOK /\ Replays(wire, pressed)
  BY DEF KeyboardIInv
<1>2. UNCHANGED <<keys, shift_held, ctrl_held, caps_lock, extended, line, last>>
  BY DEF Send
<1>3. wire' \in Seq(Byte) /\ Replays(wire', pressed') /\ Seen' = Seen
  BY <1>1, SendReplays DEF Seen
<1>4. pressed' \subseteq keys /\ Byte' = Byte
  BY <1>1, <1>2 DEF KeyboardTypeOK, Byte
<1>5. KeyboardTypeOK'
  BY <1>1, <1>2, <1>3, <1>4, Zenon DEF KeyboardTypeOK
<1>6. FlagsFollow'
  BY <1>2, <1>3 DEF KeyboardIInv, FlagsFollow, OneShift
<1>7. NoPhantomModifier' /\ ShiftIsHonoured'
  BY <1>2 DEF KeyboardIInv, NoPhantomModifier, ShiftIsHonoured
<1>8. QED
  BY <1>3, <1>5, <1>6, <1>7 DEF KeyboardIInv

(* Every step keeps the invariant.                                         *)
LEMMA NextKeeps == KeyboardIInv /\ [KeyboardNext]_keyboardVars => KeyboardIInv'
<1> SUFFICES ASSUME KeyboardIInv, [KeyboardNext]_keyboardVars PROVE KeyboardIInv'
  OBVIOUS
<1>1. ASSUME NEW k \in keys, Press(k)
      PROVE  KeyboardIInv'
  BY <1>1, SendKeeps DEF Press
<1>2. ASSUME NEW k \in keys, Release(k)
      PROVE  KeyboardIInv'
  BY <1>2, SendKeeps DEF Release
<1>3. CASE Handle
  BY <1>3, HandleKeeps
<1>4. CASE UNCHANGED keyboardVars
  <2>1. UNCHANGED <<Byte, Seen, OneShift>>
    BY <1>4 DEF keyboardVars, Byte, Seen, HeldAt, OneShift
  <2>2. KeyboardTypeOK'
    BY <1>4, <2>1, Zenon DEF keyboardVars, KeyboardIInv, KeyboardTypeOK
  <2>3. QED
    BY <1>4, <2>1, <2>2
    DEF keyboardVars, KeyboardIInv, FlagsFollow, NoPhantomModifier, ShiftIsHonoured
<1>5. QED
  BY <1>1, <1>2, <1>3, <1>4 DEF KeyboardNext

(* The invariant holds in every reachable state.                           *)
THEOREM KeyboardInvariant == KeyboardSpec => []KeyboardIInv
BY InitInvariant, NextKeeps, PTL DEF KeyboardSpec

(* The flags shift_held and ctrl_held follow the keys (the head of the     *)
(* keyboard branch of interrupt_handler): once all bytes are read no       *)
(* modifier is stuck, none acts that was not held when the key went down,  *)
(* and with one shift key shift is never missed, however the bytes queue.  *)
THEOREM ModifiersAreSound == KeyboardSpec => []ModifiersFollowKeys
<1>1. KeyboardIInv => ModifiersFollowKeys
  <2> SUFFICES ASSUME KeyboardIInv PROVE ModifiersFollowKeys
    OBVIOUS
  <2>1. ASSUME wire = <<>>
        PROVE  Seen = pressed
    BY <2>1 DEF Seen, HeldAt
  <2>2. NoStuckModifier
    BY <2>1 DEF KeyboardIInv, FlagsFollow, NoStuckModifier
  <2>3. QED
    BY <2>2 DEF KeyboardIInv, ModifiersFollowKeys
<1>2. QED
  BY KeyboardInvariant, <1>1, PTL
=============================================================================
