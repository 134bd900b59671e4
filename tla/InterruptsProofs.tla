-------------------------- MODULE InterruptsProofs ---------------------------
(***************************************************************************)
(* Proofs about module Interrupts: the controller and the handlers agree   *)
(* on who is served, nothing comes before kernel_main has prepared for it, *)
(* and a reported exception is the end, for any devices, any program in    *)
(* ring 3 and any number of bytes in the keyboard.                         *)
(*                                                                         *)
(* The argument: what may run over what is fixed (a call over kernel_main's*)
(* program, a device over either, a fault over any of them that does what  *)
(* may fault), because interrupts are on only where nothing but kernel_main*)
(* or a call is on top; and kernel_main does its work in the order of Main.*)
(***************************************************************************)
EXTENDS Interrupts, TLAPS

(* The work of a device's handler, of a fault's, of a system call.         *)
Executing   == <<"execute", "print", "eoi">>
Hanging     == <<"loop", "print", "eoi">>
Rebooting   == <<"int 0", "print", "eoi">>
DeviceTodos == {<<>>, <<"eoi">>, <<"print", "eoi">>, <<"tick", "eoi">>, <<"read">>,
                Executing, Hanging, Rebooting}
FaultTodos  == {<<"message", "cli", "hlt">>, <<"cli", "hlt">>, <<"message", "hlt">>, <<"hlt">>}
CallWords   == {"write", "print", "print_prompt", "sti", "hlt", "eoi"}

MainFrame(f)   == f.vector = None
CallFrame(f)   == f.vector \in {128, SYSCALL} /\ f.todo \in Seq(CallWords)
DeviceFrame(f) == f.vector \in 32..39 /\ f.todo \in DeviceTodos
FaultFrame(f)  == f.vector \in 0..21 /\ f.todo \in FaultTodos

(* g may run over f.                                                       *)
Over(f, g) ==
  \/ CallFrame(g) /\ MainFrame(f)
  \/ DeviceFrame(g) /\ (MainFrame(f) \/ CallFrame(f))
  \/ /\ FaultFrame(g) /\ g.vector \in Exceptions
     /\ MainFrame(f) \/ CallFrame(f) \/ DeviceFrame(f)
     /\ Head(f.todo) \in Faulting

Words == {Main[j] : j \in DOMAIN Main} \cup Calls \cup Plain
           \cup {"tick", "read", "eoi", "execute", "loop", "int 0", "sti", "cli", "hlt"}

Frame == [vector : 0..None, todo : Seq(Words), saved : BOOLEAN]
Pic   == [irr : SUBSET Lines, isr : SUBSET Lines, imr : SUBSET Lines, base : {8, 32}]

Types ==
  /\ stack \in Seq(Frame) /\ pic \in Pic /\ keys \in Seq(Kinds)
  /\ interrupts \in BOOLEAN /\ muted \in BOOLEAN
  /\ idt \in {"none", "ours", "null"} /\ machine \in {"running", "reset"}
  /\ Len(keys) <= MaxKeys /\ ticks \in 0..(TICKS - 1)

StackShape ==
  /\ Len(stack) > 0 /\ MainFrame(stack[1])
  /\ \A n \in 2..Len(stack) : Over(stack[n - 1], stack[n])

(* kernel_main has done the first n things on its list.                    *)
MainFrom(todo, n) ==
  /\ Len(todo) + n >= 15
  /\ \A i \in 1..Len(todo) : IF i + n <= 15 THEN todo[i] = Main[i + n] ELSE todo[i] \in Calls

MainInOrder == \E n \in 0..15 : MainFrom(stack[1].todo, n)

(* What kernel_main has prepared when it gets to a point, and what cannot  *)
(* have come before.                                                       *)
Prepared ==
  /\ ~Done("load_idt") => ~interrupts /\ idt = "none" /\ Len(stack) = 1 /\ pic.isr = {}
  /\ Done("load_idt") => idt # "none"
  /\ pic.base = IF Done("icw2") THEN 32 ELSE 8

(* Interrupts are on only where a device may come, except on the way to a  *)
(* reset.                                                                  *)
OnWhereSafe ==
  /\ interrupts /\ idt # "null" => MainFrame(Top) \/ CallFrame(Top)
  /\ idt = "null" <=> DeviceFrame(Top) /\ Top.todo = Rebooting

(* What ServiceIsOwed and AskedToRead say of the frames there may be: a    *)
(* device's handler has its line in service until it has nothing to do.    *)
Owed ==
  machine = "running" =>
    \A i \in Lines : i \in pic.isr <=>
      \E n \in 2..Len(stack) : stack[n].vector = 32 + i /\ stack[n].todo # <<>>

Asked ==
  machine = "running" /\ keys # <<>> /\ ~muted =>
    \/ KeyLine \in pic.irr
    \/ \E n \in 2..Len(stack) : stack[n].vector = 33 /\ stack[n].todo = <<"read">>

IInv == /\ Types /\ StackShape /\ MainInOrder /\ Prepared /\ OnWhereSafe
        /\ Owed /\ Asked /\ ResetOnlyWhenAsked

-----------------------------------------------------------------------------
(* The list of kernel_main.                                                *)

(* Two lists one after the other, place by place.                          *)
LEMMA ConcatFacts ==
  ASSUME NEW S, NEW s \in Seq(S), NEW t \in Seq(S), NEW st, st = s \o t
  PROVE  /\ st \in Seq(S) /\ Len(st) = Len(s) + Len(t)
         /\ \A n \in 1..Len(s) : st[n] = s[n]
         /\ \A n \in 1..Len(t) : st[n + Len(s)] = t[n]
OBVIOUS

(* A list of things of S is one of things of any larger set.               *)
LEMMA WiderLists ==
  ASSUME NEW S, NEW T, S \subseteq T, NEW s \in Seq(S)
  PROVE  s \in Seq(T)
<1>1. Len(s) \in Nat /\ \A n \in 1..Len(s) : s[n] \in T
  OBVIOUS
<1>2. QED
  BY <1>1

(* A list of three things is what it holds.                                *)
LEMMA ThreeThings ==
  ASSUME NEW S, NEW st \in Seq(S)
  PROVE  Len(st) = 3 => st = <<st[1], st[2], st[3]>>
OBVIOUS

(* One thing before two others.                                            *)
LEMMA OneAndTwo ==
  ASSUME NEW S, NEW s \in Seq(S), NEW t \in Seq(S), NEW st, st = s \o t
  PROVE  Len(s) = 1 /\ Len(t) = 2 => st = <<s[1], t[1], t[2]>>
<1>1. /\ st \in Seq(S) /\ Len(st) = Len(s) + Len(t)
      /\ \A n \in 1..Len(s) : st[n] = s[n]
      /\ \A n \in 1..Len(t) : st[n + Len(s)] = t[n]
  BY ConcatFacts
<1>2. \A m \in Nat : Len(s) = m => \A n \in 1..Len(t) : st[n + m] = t[n]
  BY <1>1
<1>3. Len(s) = 1 => \A n \in 1..Len(t) : st[n + 1] = t[n]
  BY <1>2
<1>4. Len(s) = 1 /\ Len(t) = 2 => Len(st) = 3 /\ st[1] = s[1] /\ st[2] = t[1] /\ st[3] = t[2]
  BY <1>1, <1>3
<1>5. Len(st) = 3 => st = <<st[1], st[2], st[3]>>
  <2>1. \A q \in Seq(S) : Len(q) = 3 => q = <<q[1], q[2], q[3]>>
    BY ThreeThings
  <2>2. QED
    BY <1>1, <2>1, Zenon
<1>6. QED
  BY <1>4, <1>5

(* A list with one more thing at its end.                                  *)
LEMMA OneMore ==
  ASSUME NEW S, NEW e \in S, NEW s \in Seq(S)
  PROVE  /\ Append(s, e) \in Seq(S) /\ Len(Append(s, e)) = Len(s) + 1
         /\ Append(s, e)[Len(s) + 1] = e
         /\ \A n \in 1..Len(s) : Append(s, e)[n] = s[n]
OBVIOUS

(* The words of the list.                                                  *)
Chores == {"mask", "icw1", "icw2", "unmask", "idt_set_entry", "load_idt", "syscall_init",
           "pmm_setup", "vmm_init", "heap_init", "tss_install", "init_filesystem",
           "print_prompt", "user pages", "jump_to_ring3"}

(* The list, word by word.                                                 *)
LEMMA MainWords ==
  /\ Main \in Seq(Chores) /\ Len(Main) = 15 /\ DOMAIN Main = 1..15
  /\ Main[1] = "mask" /\ Main[2] = "icw1" /\ Main[3] = "icw2" /\ Main[4] = "unmask"
  /\ Main[5] = "idt_set_entry" /\ Main[6] = "load_idt" /\ Main[7] = "syscall_init"
  /\ Main[8] = "pmm_setup" /\ Main[9] = "vmm_init" /\ Main[10] = "heap_init"
  /\ Main[11] = "tss_install" /\ Main[12] = "init_filesystem"
  /\ Main[13] = "print_prompt" /\ Main[14] = "user pages" /\ Main[15] = "jump_to_ring3"
<1> DEFINE mask == <<"mask">>
           rest == <<"idt_set_entry", "load_idt", "syscall_init", "pmm_setup", "vmm_init",
                     "heap_init", "tss_install", "init_filesystem", "print_prompt",
                     "user pages", "jump_to_ring3">>
           first == mask \o PicInit
<1>1. Main = first \o rest
  BY DEF Main
<1>2. mask \in Seq(Chores) /\ Len(mask) = 1 /\ mask[1] = "mask"
  BY DEF Chores
<1>3. /\ PicInit \in Seq(Chores) /\ Len(PicInit) = 3
      /\ PicInit[1] = "icw1" /\ PicInit[2] = "icw2" /\ PicInit[3] = "unmask"
  BY DEF PicInit, Chores
<1>4. /\ rest \in Seq(Chores) /\ Len(rest) = 11
      /\ rest[1] = "idt_set_entry" /\ rest[2] = "load_idt" /\ rest[3] = "syscall_init"
      /\ rest[4] = "pmm_setup" /\ rest[5] = "vmm_init" /\ rest[6] = "heap_init"
      /\ rest[7] = "tss_install" /\ rest[8] = "init_filesystem" /\ rest[9] = "print_prompt"
      /\ rest[10] = "user pages" /\ rest[11] = "jump_to_ring3"
  BY DEF Chores
<1> HIDE DEF mask, rest
<1>5. /\ first \in Seq(Chores) /\ Len(first) = 4 /\ first[1] = "mask"
      /\ first[2] = "icw1" /\ first[3] = "icw2" /\ first[4] = "unmask"
  <2>1. /\ first \in Seq(Chores) /\ Len(first) = Len(mask) + Len(PicInit)
        /\ \A n \in 1..Len(mask) : first[n] = mask[n]
        /\ \A n \in 1..Len(PicInit) : first[n + Len(mask)] = PicInit[n]
    <3>1. mask \in Seq(Chores) /\ PicInit \in Seq(Chores) /\ first = mask \o PicInit
      BY <1>2, <1>3
    <3> HIDE DEF first
    <3>2. QED
      BY <3>1, ConcatFacts
  <2> HIDE DEF first
  <2>2. QED
    BY <1>2, <1>3, <2>1
<1> HIDE DEF first
<1>6. /\ Main \in Seq(Chores) /\ Len(Main) = Len(first) + Len(rest)
      /\ \A n \in 1..Len(first) : Main[n] = first[n]
      /\ \A n \in 1..Len(rest) : Main[n + Len(first)] = rest[n]
  <2>1. first \in Seq(Chores) /\ rest \in Seq(Chores)
    BY <1>4, <1>5
  <2>2. QED
    BY <1>1, <2>1, ConcatFacts
<1>7. Len(Main) = 15
  <2>1. Len(first) = 4
    BY <1>5
  <2>2. Len(rest) = 11
    BY <1>4
  <2>3. Len(Main) = Len(first) + Len(rest)
    BY <1>6
  <2>4. QED
    BY <2>1, <2>2, <2>3
<1>8. DOMAIN Main = 1..15
  <2>1. Main \in Seq(Chores)
    BY <1>6
  <2>2. QED
    BY <1>7, <2>1
<1>9. /\ Main[1] = "mask" /\ Main[2] = "icw1" /\ Main[3] = "icw2" /\ Main[4] = "unmask"
  BY <1>5, <1>6
<1>10. \A n \in 1..11 : Main[n + 4] = rest[n]
  BY <1>4, <1>5, <1>6
<1>11. /\ Main[5] = rest[1] /\ Main[6] = rest[2] /\ Main[7] = rest[3] /\ Main[8] = rest[4]
       /\ Main[9] = rest[5] /\ Main[10] = rest[6] /\ Main[11] = rest[7] /\ Main[12] = rest[8]
       /\ Main[13] = rest[9] /\ Main[14] = rest[10] /\ Main[15] = rest[11]
  BY <1>10
<1>12. QED
  BY <1>4, <1>6, <1>7, <1>8, <1>9, <1>11, ZenonT(40)

(* The place of a word on the list.                                        *)
Place(w) ==
  CASE w = "mask" -> 1 [] w = "icw1" -> 2 [] w = "icw2" -> 3 [] w = "unmask" -> 4
    [] w = "idt_set_entry" -> 5 [] w = "load_idt" -> 6 [] w = "syscall_init" -> 7
    [] w = "pmm_setup" -> 8 [] w = "vmm_init" -> 9 [] w = "heap_init" -> 10
    [] w = "tss_install" -> 11 [] w = "init_filesystem" -> 12 [] w = "print_prompt" -> 13
    [] w = "user pages" -> 14 [] w = "jump_to_ring3" -> 15 [] OTHER -> 16

(* No word comes twice, and none is a call.                                *)
LEMMA MainDistinct ==
  ASSUME NEW n \in 1..15
  PROVE  Place(Main[n]) = n /\ Main[n] \notin Calls
<1>1. n = 1 \/ n = 2 \/ n = 3 \/ n = 4 \/ n = 5 \/ n = 6 \/ n = 7 \/ n = 8 \/ n = 9 \/ n = 10
        \/ n = 11 \/ n = 12 \/ n = 13 \/ n = 14 \/ n = 15
  OBVIOUS
<1>2. QED
  BY <1>1, MainWords, ZenonT(40) DEF Place, Calls

-----------------------------------------------------------------------------
(* How far kernel_main is.                                                 *)

(* A chore is still to be done exactly when it comes after the n that are. *)
LEMMA WhatIsLeft ==
  ASSUME NEW n \in 0..15, NEW S, NEW todo \in Seq(S), MainFrom(todo, n), NEW m \in 1..15
  PROVE  Has(todo, Main[m]) <=> m > n
<1>1. Len(todo) \in Nat /\ DOMAIN todo = 1..Len(todo)
  OBVIOUS
<1>2. ASSUME m > n
      PROVE  Has(todo, Main[m])
  <2>1. m - n \in 1..Len(todo) /\ (m - n) + n = m
    BY <1>1, <1>2 DEF MainFrom
  <2>2. todo[m - n] = Main[m]
    BY <2>1 DEF MainFrom
  <2>3. QED
    BY <1>1, <2>1, <2>2 DEF Has
<1>3. ASSUME Has(todo, Main[m])
      PROVE  m > n
  <2>1. PICK i \in 1..Len(todo) : todo[i] = Main[m]
    BY <1>1, <1>3 DEF Has
  <2>2. i + n <= 15
    BY <2>1, MainDistinct DEF MainFrom
  <2>3. i + n \in 1..15
    BY <1>1, <2>2
  <2>4. Main[i + n] = Main[m]
    BY <2>1, <2>2 DEF MainFrom
  <2>5. i + n = m
    BY <2>3, <2>4, MainDistinct
  <2>6. QED
    BY <2>5
<1>4. QED
  BY <1>2, <1>3

(* kernel_main does the next chore: it is the next one on the list, and    *)
(* nothing else is done with it.                                           *)
LEMMA NextChore ==
  ASSUME NEW n \in 0..15, NEW S, NEW todo \in Seq(S), MainFrom(todo, n), todo # <<>>,
         NEW k \in 1..15, Head(todo) = Main[k]
  PROVE  /\ n = k - 1 /\ MainFrom(Tail(todo), k)
         /\ \A m \in 1..15 : Has(todo, Main[m]) <=> m >= k
         /\ \A m \in 1..15 : Has(Tail(todo), Main[m]) <=> m > k
<1>1. /\ Len(todo) \in Nat /\ Len(todo) > 0 /\ Tail(todo) \in Seq(S)
      /\ Len(Tail(todo)) = Len(todo) - 1 /\ todo[1] = Head(todo)
      /\ \A i \in 1..(Len(todo) - 1) : Tail(todo)[i] = todo[i + 1]
  OBVIOUS
<1>2. n = k - 1
  <2>1. 1 + n <= 15
    <3>1. 1 \in 1..Len(todo) /\ todo[1] = Main[k]
      BY <1>1
    <3>2. Main[k] \notin Calls
      BY MainDistinct
    <3>3. QED
      BY <3>1, <3>2 DEF MainFrom
  <2>2. Main[1 + n] = Main[k] /\ 1 + n \in 1..15
    BY <1>1, <2>1 DEF MainFrom
  <2>3. 1 + n = k
    BY <2>2, MainDistinct
  <2>4. QED
    BY <2>3
<1>3. MainFrom(Tail(todo), k)
  <2>1. Len(Tail(todo)) + k >= 15
    BY <1>1, <1>2 DEF MainFrom
  <2>2. ASSUME NEW i \in 1..Len(Tail(todo))
        PROVE  IF i + k <= 15 THEN Tail(todo)[i] = Main[i + k] ELSE Tail(todo)[i] \in Calls
    <3>1. i + 1 \in 1..Len(todo) /\ (i + 1) + n = i + k /\ Tail(todo)[i] = todo[i + 1]
      BY <1>1, <1>2
    <3>2. QED
      BY <3>1 DEF MainFrom
  <2>3. QED
    BY <2>1, <2>2 DEF MainFrom
<1>4. ASSUME NEW m \in 1..15
      PROVE  /\ Has(todo, Main[m]) <=> m >= k
             /\ Has(Tail(todo), Main[m]) <=> m > k
  <2>1. Has(todo, Main[m]) <=> m > n
    BY WhatIsLeft
  <2>2. Has(Tail(todo), Main[m]) <=> m > k
    <3>1. k \in 0..15 /\ Tail(todo) \in Seq(S)
      BY <1>1
    <3>2. QED
      BY <1>3, <3>1, WhatIsLeft
  <2>3. QED
    BY <1>2, <2>1, <2>2
<1>5. QED
  BY <1>2, <1>3, <1>4

(* The program in ring 3 makes a call: everything was done before.         *)
LEMMA NextCall ==
  ASSUME NEW n \in 0..15, NEW S, NEW todo \in Seq(S), MainFrom(todo, n), todo # <<>>,
         Head(todo) \in Calls
  PROVE  /\ n = 15 /\ MainFrom(Tail(todo), 15)
         /\ \A m \in 1..15 : ~Has(todo, Main[m]) /\ ~Has(Tail(todo), Main[m])
<1>1. /\ Len(todo) \in Nat /\ Len(todo) > 0 /\ Tail(todo) \in Seq(S)
      /\ Len(Tail(todo)) = Len(todo) - 1 /\ todo[1] = Head(todo)
      /\ \A i \in 1..(Len(todo) - 1) : Tail(todo)[i] = todo[i + 1]
  OBVIOUS
<1>2. n = 15
  <2>1. ~(1 + n <= 15)
    <3>1. 1 \in 1..Len(todo) /\ todo[1] \in Calls
      BY <1>1
    <3>2. 1 + n <= 15 => todo[1] = Main[1 + n] /\ 1 + n \in 1..15
      BY <3>1 DEF MainFrom
    <3>3. QED
      BY <3>1, <3>2, MainDistinct
  <2>2. QED
    BY <2>1
<1>3. MainFrom(Tail(todo), 15)
  <2>1. ASSUME NEW i \in 1..Len(Tail(todo))
        PROVE  ~(i + 15 <= 15) /\ Tail(todo)[i] \in Calls
    <3>1. i + 1 \in 1..Len(todo) /\ Tail(todo)[i] = todo[i + 1] /\ ~((i + 1) + 15 <= 15)
      BY <1>1
    <3>2. QED
      BY <1>2, <3>1 DEF MainFrom
  <2>2. QED
    BY <1>1, <2>1 DEF MainFrom
<1>4. ASSUME NEW m \in 1..15
      PROVE  ~Has(todo, Main[m]) /\ ~Has(Tail(todo), Main[m])
  <2>1. Has(todo, Main[m]) <=> m > n
    BY WhatIsLeft
  <2>2. Has(Tail(todo), Main[m]) <=> m > 15
    <3>1. 15 \in 0..15 /\ Tail(todo) \in Seq(S)
      BY <1>1
    <3>2. QED
      BY <1>3, <3>1, WhatIsLeft
  <2>3. QED
    BY <1>2, <2>1, <2>2
<1>5. QED
  BY <1>2, <1>3, <1>4

-----------------------------------------------------------------------------
(* The constants.                                                          *)

(* The lines that devices use.                                             *)
LEMMA LinesAre == Lines \subseteq 0..6 /\ TimerLine \in Lines /\ KeyLine \in Lines
BY InterruptsAssumption, Zenon

(* The vector of a line is one of those the controller was given.          *)
LEMMA VectorOfLine == ASSUME NEW i \in Lines PROVE i \in 0..6 /\ 32 + i \in 32..39
<1>1. i \in 0..6
  BY LinesAre
<1>2. QED
  BY <1>1

(* The bounds are numbers.                                                 *)
LEMMA CountsAre == MaxKeys \in Nat /\ TICKS \in Nat \ {0, 1}
BY InterruptsAssumption, Zenon

(* A program in ring 3 makes calls.                                        *)
LEMMA ProgramsAre == Programs \subseteq Seq(Calls)
BY InterruptsAssumption, Zenon

(* The exceptions have vectors of their own.                               *)
LEMMA ExceptionsAre == Exceptions \subseteq 0..21
BY InterruptsAssumption, Zenon

(* The words that the handlers use are words.                              *)
LEMMA WordsAre ==
  /\ CallWords \subseteq Words /\ Chores \subseteq Words /\ Calls \subseteq Words
  /\ {"tick", "read", "eoi", "execute", "loop", "int 0", "sti", "cli", "hlt", "print", "message"}
       \subseteq Words
<1>1. ASSUME NEW x \in Chores
      PROVE  x \in {Main[j] : j \in DOMAIN Main}
  <2>1. \/ x = Main[1] \/ x = Main[2] \/ x = Main[3] \/ x = Main[4] \/ x = Main[5]
        \/ x = Main[6] \/ x = Main[7] \/ x = Main[8] \/ x = Main[9] \/ x = Main[10]
        \/ x = Main[11] \/ x = Main[12] \/ x = Main[13] \/ x = Main[14] \/ x = Main[15]
    BY MainWords, ZenonT(40) DEF Chores
  <2>2. DOMAIN Main = 1..15
    BY MainWords
  <2>3. \A j \in 1..15 : Main[j] \in {Main[k] : k \in DOMAIN Main}
    BY <2>2
  <2>4. QED
    BY <2>1, <2>3
<1>2. {"print", "print_prompt", "message", "write"} \subseteq Words
  BY DEF Words, Plain
<1>3. {"tick", "read", "eoi", "execute", "loop", "int 0", "sti", "cli", "hlt"} \subseteq Words
  BY DEF Words
<1>4. Chores \subseteq Words /\ Calls \subseteq Words
  BY <1>1 DEF Words
<1>5. QED
  BY <1>2, <1>3, <1>4 DEF CallWords

(* Short lists.                                                            *)
LEMMA ShortLists ==
  ASSUME NEW S, NEW a \in S, NEW b \in S, NEW c \in S
  PROVE  /\ <<>> \in Seq(S) /\ <<a>> \in Seq(S) /\ <<a, b>> \in Seq(S) /\ <<a, b, c>> \in Seq(S)
OBVIOUS

(* What is in the lists of the handlers: which word is next, what is left  *)
(* after it.                                                               *)
LEMMA DeviceLists ==
  /\ DeviceTodos \subseteq Seq(Words) /\ FaultTodos \subseteq Seq(Words)
  /\ Tail(<<"eoi">>) = <<>> /\ Tail(<<"read">>) = <<>>
  /\ Tail(<<"print", "eoi">>) = <<"eoi">> /\ Tail(<<"tick", "eoi">>) = <<"eoi">>
  /\ Tail(Executing) = <<"print", "eoi">> /\ Tail(<<"message", "hlt">>) = <<"hlt">>
  /\ Tail(<<"message", "cli", "hlt">>) = <<"cli", "hlt">> /\ Tail(<<"cli", "hlt">>) = <<"hlt">>
<1>1. /\ "eoi" \in Words /\ "read" \in Words /\ "print" \in Words /\ "tick" \in Words
      /\ "execute" \in Words /\ "int 0" \in Words /\ "message" \in Words /\ "hlt" \in Words
      /\ "loop" \in Words /\ "cli" \in Words
  BY WordsAre
<1>2. DeviceTodos \subseteq Seq(Words)
  BY <1>1, ShortLists, ZenonT(40) DEF DeviceTodos, Executing, Hanging, Rebooting
<1>3. FaultTodos \subseteq Seq(Words)
  BY <1>1, ShortLists DEF FaultTodos
<1>4. QED
  BY <1>2, <1>3 DEF Executing

(* Which word is next on each list of a handler.                           *)
LEMMA DeviceHeads ==
  /\ Head(<<"eoi">>) = "eoi" /\ Head(<<"print", "eoi">>) = "print" /\ Head(<<"tick", "eoi">>) = "tick"
  /\ Head(<<"read">>) = "read" /\ Head(Executing) = "execute" /\ Head(Rebooting) = "int 0"
  /\ Head(<<"message", "hlt">>) = "message" /\ Head(<<"hlt">>) = "hlt"
  /\ Head(<<"message", "cli", "hlt">>) = "message" /\ Head(<<"cli", "hlt">>) = "cli"
  /\ Head(Hanging) = "loop"
BY DEF Executing, Hanging, Rebooting

(* A device's handler has its line to acknowledge until it is done.        *)
LEMMA DeviceOwes ==
  ASSUME NEW t \in DeviceTodos
  PROVE  /\ Has(t, "eoi") \/ Has(t, "read") <=> t # <<>>
         /\ Has(t, "read") <=> t = <<"read">>
<1>1. ~Has(<<>>, "eoi") /\ ~Has(<<>>, "read")
  BY DEF Has
<1>2. Has(<<"eoi">>, "eoi") /\ ~Has(<<"eoi">>, "read") /\ <<"eoi">> # <<>>
  BY DEF Has
<1>3. Has(<<"print", "eoi">>, "eoi") /\ ~Has(<<"print", "eoi">>, "read")
  BY DEF Has
<1>4. Has(<<"tick", "eoi">>, "eoi") /\ ~Has(<<"tick", "eoi">>, "read")
  BY DEF Has
<1>5. Has(<<"read">>, "read")
  BY DEF Has
<1>6. Has(Executing, "eoi") /\ ~Has(Executing, "read")
  BY DEF Has, Executing
<1>7. Has(Hanging, "eoi") /\ ~Has(Hanging, "read")
  <2>1. Hanging[3] = "eoi" /\ DOMAIN Hanging = 1..3
    BY DEF Hanging
  <2>2. Hanging[1] = "loop" /\ Hanging[2] = "print"
    BY DEF Hanging
  <2>3. Has(Hanging, "eoi")
    BY <2>1 DEF Has
  <2>4. \A i \in 1..3 : i = 1 \/ i = 2 \/ i = 3
    OBVIOUS
  <2>5. ~Has(Hanging, "read")
    BY <2>1, <2>2, <2>4 DEF Has
  <2>6. QED
    BY <2>3, <2>5
<1>8. Has(Rebooting, "eoi") /\ ~Has(Rebooting, "read")
  <2>1. Rebooting[3] = "eoi" /\ DOMAIN Rebooting = 1..3
    BY DEF Rebooting
  <2>2. Rebooting[1] = "int 0" /\ Rebooting[2] = "print"
    BY DEF Rebooting
  <2>3. Has(Rebooting, "eoi")
    BY <2>1 DEF Has
  <2>4. \A i \in 1..3 : i = 1 \/ i = 2 \/ i = 3
    OBVIOUS
  <2>5. ~Has(Rebooting, "read")
    BY <2>1, <2>2, <2>4 DEF Has
  <2>6. QED
    BY <2>3, <2>5
<1>9. Executing # <<>> /\ Hanging # <<>> /\ Rebooting # <<>>
  BY <1>1, <1>6, <1>7, <1>8
<1>10. Executing # <<"read">> /\ Hanging # <<"read">> /\ Rebooting # <<"read">>
  BY <1>5, <1>6, <1>7, <1>8
<1>11. QED
  BY <1>1, <1>2, <1>3, <1>4, <1>5, <1>6, <1>7, <1>8, <1>9, <1>10 DEF DeviceTodos

-----------------------------------------------------------------------------
(* What is on the stack.                                                   *)

(* The vector of an exception is not that of anything else.                *)
LEMMA FaultVectors ==
  ASSUME NEW f, FaultFrame(f)
  PROVE  /\ f.vector # None /\ f.vector # SYSCALL /\ f.vector # 128 /\ f.vector \notin 32..39
         /\ f.vector \notin {128, SYSCALL} /\ f.todo \in FaultTodos
<1>1. \A v \in 0..21 : v # 257 /\ v # 256 /\ v # 128 /\ v \notin 32..39
  OBVIOUS
<1>2. f.vector \in 0..21 /\ f.todo \in FaultTodos
  BY DEF FaultFrame
<1>3. f.vector # 257 /\ f.vector # 256 /\ f.vector # 128 /\ f.vector \notin 32..39
  BY <1>1, <1>2, Zenon
<1>4. QED
  BY <1>2, <1>3, Zenon DEF None, SYSCALL

(* The vectors of the devices are neither kernel_main's nor a call's.      *)
LEMMA DeviceVectors ==
  ASSUME NEW f, DeviceFrame(f)
  PROVE  f.vector # None /\ f.vector \notin {128, SYSCALL}
<1>1. \A v \in 32..39 : v # 257 /\ v # 256 /\ v # 128
  OBVIOUS
<1>2. f.vector \in 32..39
  BY DEF DeviceFrame
<1>3. f.vector # 257 /\ f.vector # 256 /\ f.vector # 128
  BY <1>1, <1>2, Zenon
<1>4. QED
  BY <1>3, Zenon DEF None, SYSCALL

(* What runs is kernel_main, or a call over it, or a device's handler, or  *)
(* a fault over any of them that does what may fault.                      *)
LEMMA WhatRuns ==
  ASSUME Types, StackShape
  PROVE  /\ Len(stack) \in Nat /\ Len(stack) > 0 /\ Top \in Frame /\ Top = stack[Len(stack)]
         /\ \/ Len(stack) = 1 /\ Top = stack[1] /\ MainFrame(Top)
            \/ /\ Len(stack) > 1 /\ Over(stack[Len(stack) - 1], Top)
               /\ ~MainFrame(Top)
               /\ CallFrame(Top) \/ DeviceFrame(Top) \/ FaultFrame(Top)
<1>1. Len(stack) \in Nat /\ Len(stack) > 0 /\ Top \in Frame /\ Top = stack[Len(stack)]
  BY DEF Types, StackShape, Top
<1>2. CASE Len(stack) = 1
  BY <1>1, <1>2 DEF StackShape
<1>3. CASE Len(stack) > 1
  <2>1. Over(stack[Len(stack) - 1], Top)
    BY <1>1, <1>3 DEF StackShape
  <2>2. CallFrame(Top) \/ DeviceFrame(Top) \/ FaultFrame(Top)
    BY <2>1 DEF Over
  <2>3. ~MainFrame(Top)
    <3>1. CallFrame(Top) => Top.vector # None
      BY DEF CallFrame, None, SYSCALL
    <3>2. QED
      BY <2>2, <3>1, DeviceVectors, FaultVectors, Zenon DEF MainFrame
  <2>4. QED
    BY <1>1, <1>3, <2>1, <2>2, <2>3
<1>4. QED
  BY <1>1, <1>2, <1>3, SMTT(30)

(* The classes of frames exclude each other.                               *)
LEMMA FramesDiffer ==
  ASSUME NEW f
  PROVE  /\ MainFrame(f) => ~CallFrame(f) /\ ~DeviceFrame(f) /\ ~FaultFrame(f)
         /\ CallFrame(f) => ~DeviceFrame(f) /\ ~FaultFrame(f)
         /\ DeviceFrame(f) => ~FaultFrame(f)
<1>1. MainFrame(f) => ~CallFrame(f)
  BY DEF MainFrame, CallFrame, None, SYSCALL
<1>2. MainFrame(f) \/ CallFrame(f) => ~DeviceFrame(f)
  BY DeviceVectors, Zenon DEF MainFrame, CallFrame
<1>3. MainFrame(f) \/ CallFrame(f) => ~FaultFrame(f)
  BY FaultVectors, Zenon DEF MainFrame, CallFrame
<1>4. DeviceFrame(f) => ~FaultFrame(f)
  BY FaultVectors, Zenon DEF DeviceFrame
<1>5. QED
  BY <1>1, <1>2, <1>3, <1>4

(* Below what runs there is a device's handler only under a fault.         *)
LEMMA DeviceOnTop ==
  ASSUME Types, StackShape, NEW n \in 2..Len(stack), DeviceFrame(stack[n])
  PROVE  n = Len(stack) \/ (n = Len(stack) - 1 /\ FaultFrame(Top))
<1>1. Len(stack) \in Nat
  BY DEF Types
<1>2. SUFFICES ASSUME n < Len(stack) PROVE n = Len(stack) - 1 /\ FaultFrame(Top)
  BY <1>1
<1>3. n + 1 \in 2..Len(stack) /\ (n + 1) - 1 = n
  BY <1>1, <1>2
<1>4. Over(stack[n], stack[n + 1])
  BY <1>3 DEF StackShape
<1>5. FaultFrame(stack[n + 1])
  BY <1>4, FramesDiffer DEF Over
<1>6. n + 1 = Len(stack)
  <2>1. SUFFICES ASSUME n + 2 \in 2..Len(stack) PROVE FALSE
    BY <1>1, <1>3
  <2>2. (n + 2) - 1 = n + 1
    OBVIOUS
  <2>3. Over(stack[n + 1], stack[n + 2])
    BY <2>1, <2>2 DEF StackShape
  <2>4. QED
    BY <1>5, <2>3, FramesDiffer DEF Over
<1>7. QED
  BY <1>1, <1>5, <1>6 DEF Top

(* The next thing to do tells who runs.                                    *)
LEMMA WhoRuns ==
  ASSUME Types, StackShape, MainInOrder, NEW x, Running(x)
  PROVE  /\ MainFrame(Top) => x \in Chores \cup Calls
         /\ CallFrame(Top) => x \in CallWords
         /\ DeviceFrame(Top) =>
              \/ x = "eoi" /\ Top.todo = <<"eoi">>
              \/ x = "print" /\ Top.todo = <<"print", "eoi">>
              \/ x = "tick" /\ Top.todo = <<"tick", "eoi">>
              \/ x = "read" /\ Top.todo = <<"read">>
              \/ x = "execute" /\ Top.todo = Executing
              \/ x = "loop" /\ Top.todo = Hanging
              \/ x = "int 0" /\ Top.todo = Rebooting
         /\ FaultFrame(Top) =>
              \/ x = "message" /\ Top.todo = <<"message", "cli", "hlt">>
              \/ x = "cli" /\ Top.todo = <<"cli", "hlt">>
              \/ x = "message" /\ Top.todo = <<"message", "hlt">>
              \/ x = "hlt" /\ Top.todo = <<"hlt">>
<1>1. Top.todo # <<>> /\ x = Head(Top.todo)
  BY DEF Running
<1>2. ASSUME MainFrame(Top)
      PROVE  x \in Chores \cup Calls
  <2>1. Top = stack[1] /\ Top \in Frame
    BY <1>2, WhatRuns
  <2>2. PICK n \in 0..15 : MainFrom(Top.todo, n)
    BY <2>1 DEF MainInOrder
  <2>3. Top.todo \in Seq(Words) /\ Len(Top.todo) \in Nat /\ Len(Top.todo) > 0 /\ x = Top.todo[1]
    BY <1>1, <2>1 DEF Frame
  <2>4. CASE 1 + n <= 15
    <3>1. x = Main[1 + n] /\ 1 + n \in 1..15
      BY <2>2, <2>3, <2>4 DEF MainFrom
    <3>2. \A m \in 1..15 : Main[m] \in Chores
      <4>1. Main \in Seq(Chores) /\ Len(Main) = 15
        BY MainWords
      <4>2. \A S : \A s \in Seq(S) : \A m \in 1..Len(s) : s[m] \in S
        OBVIOUS
      <4>3. QED
        BY <4>1, <4>2, Zenon
    <3>3. QED
      BY <3>1, <3>2
  <2>5. CASE ~(1 + n <= 15)
    BY <2>2, <2>3, <2>5 DEF MainFrom
  <2>6. QED
    BY <2>4, <2>5
<1>3. ASSUME CallFrame(Top)
      PROVE  x \in CallWords
  BY <1>1, <1>3 DEF CallFrame
<1>4. ASSUME DeviceFrame(Top)
      PROVE  \/ x = "eoi" /\ Top.todo = <<"eoi">>
             \/ x = "print" /\ Top.todo = <<"print", "eoi">>
             \/ x = "tick" /\ Top.todo = <<"tick", "eoi">>
             \/ x = "read" /\ Top.todo = <<"read">>
             \/ x = "execute" /\ Top.todo = Executing
             \/ x = "loop" /\ Top.todo = Hanging
             \/ x = "int 0" /\ Top.todo = Rebooting
  BY <1>1, <1>4, DeviceHeads, Zenon DEF DeviceFrame, DeviceTodos
<1>5. ASSUME FaultFrame(Top)
      PROVE  \/ x = "message" /\ Top.todo = <<"message", "cli", "hlt">>
             \/ x = "cli" /\ Top.todo = <<"cli", "hlt">>
             \/ x = "message" /\ Top.todo = <<"message", "hlt">>
             \/ x = "hlt" /\ Top.todo = <<"hlt">>
  BY <1>1, <1>5, DeviceHeads, Zenon DEF FaultFrame, FaultTodos
<1>6. QED
  BY <1>2, <1>3, <1>4, <1>5

-----------------------------------------------------------------------------
(* How the stack moves.                                                    *)

(* The topmost activity goes on: nothing else of the stack changes.        *)
LEMMA GoesOn ==
  ASSUME Types, StackShape, NEW more \in Seq(Words), Top.todo # <<>>, Continue(more)
  PROVE  /\ stack' \in Seq(Frame) /\ Len(stack') = Len(stack)
         /\ \A n \in 1..(Len(stack) - 1) : stack'[n] = stack[n]
         /\ Top' = stack'[Len(stack)] /\ Top'.vector = Top.vector /\ Top'.saved = Top.saved
         /\ Top'.todo = more \o Tail(Top.todo)
<1>1. /\ stack \in Seq(Frame) /\ Len(stack) \in Nat /\ Len(stack) > 0
      /\ Top \in Frame /\ Top = stack[Len(stack)]
  BY WhatRuns DEF Types
<1>2. more \o Tail(Top.todo) \in Seq(Words)
  BY <1>1 DEF Frame
<1> DEFINE moved == [Top EXCEPT !.todo = more \o Tail(@)]
<1>3. /\ moved \in Frame /\ moved.vector = Top.vector /\ moved.saved = Top.saved
      /\ moved.todo = more \o Tail(Top.todo)
  BY <1>1, <1>2 DEF Frame
<1>4. stack' = [stack EXCEPT ![Len(stack)] = moved]
  BY <1>1 DEF Continue
<1> HIDE DEF moved
<1>5. /\ stack' \in Seq(Frame) /\ Len(stack') = Len(stack)
      /\ \A n \in 1..(Len(stack) - 1) : stack'[n] = stack[n]
      /\ stack'[Len(stack)] = moved
  BY <1>1, <1>3, <1>4
<1>6. Top' = stack'[Len(stack)]
  BY <1>5 DEF Top
<1>7. QED
  BY <1>3, <1>5, <1>6

(* A handler goes on with something it may do.                             *)
LEMMA HandlerGoesOn ==
  ASSUME Types, StackShape, MainInOrder, Len(stack) > 1,
         NEW more \in Seq(Words), Top.todo # <<>>, Continue(more),
         NEW t, t = more \o Tail(Top.todo),
         \/ CallFrame(Top) /\ t \in Seq(CallWords)
         \/ DeviceFrame(Top) /\ t \in DeviceTodos
         \/ FaultFrame(Top) /\ t \in FaultTodos
  PROVE  /\ stack' \in Seq(Frame) /\ Len(stack') = Len(stack) /\ StackShape' /\ MainInOrder'
         /\ \A n \in 1..(Len(stack) - 1) : stack'[n] = stack[n]
         /\ Top' = stack'[Len(stack)] /\ Top'.vector = Top.vector /\ Top'.todo = t
         /\ stack'[1] = stack[1] /\ \A x : Done(x)' <=> Done(x)
         /\ CallFrame(Top') <=> CallFrame(Top)
         /\ DeviceFrame(Top') <=> DeviceFrame(Top)
         /\ FaultFrame(Top') <=> FaultFrame(Top)
<1>1. /\ stack' \in Seq(Frame) /\ Len(stack') = Len(stack)
      /\ \A n \in 1..(Len(stack) - 1) : stack'[n] = stack[n]
      /\ Top' = stack'[Len(stack)] /\ Top'.vector = Top.vector /\ Top'.todo = t
  BY GoesOn
<1>2. /\ Len(stack) \in Nat /\ Over(stack[Len(stack) - 1], Top)
      /\ \A n \in 2..Len(stack) : Over(stack[n - 1], stack[n])
  BY WhatRuns DEF StackShape
<1>3. stack'[1] = stack[1]
  BY <1>1, <1>2
<1>4. /\ CallFrame(Top') <=> CallFrame(Top)
      /\ DeviceFrame(Top') <=> DeviceFrame(Top)
      /\ FaultFrame(Top') <=> FaultFrame(Top)
  BY <1>1, FramesDiffer DEF CallFrame, DeviceFrame, FaultFrame
<1>5. Over(stack[Len(stack) - 1], Top')
  BY <1>1, <1>2, <1>4, FramesDiffer, Zenon DEF Over
<1>6. ASSUME NEW n \in 2..Len(stack')
      PROVE  Over(stack'[n - 1], stack'[n])
  <2>1. n - 1 \in 1..(Len(stack) - 1)
    BY <1>1, <1>2
  <2>2. CASE n = Len(stack)
    BY <1>1, <1>5, <2>1, <2>2
  <2>3. CASE n # Len(stack)
    <3>1. n \in 1..(Len(stack) - 1) /\ n \in 2..Len(stack)
      BY <1>1, <1>2, <2>3
    <3>2. QED
      BY <1>1, <1>2, <2>1, <3>1
  <2>4. QED
    BY <2>2, <2>3
<1>7. StackShape'
  BY <1>1, <1>3, <1>6 DEF StackShape, MainFrame
<1>8. MainInOrder' /\ \A x : Done(x)' <=> Done(x)
  BY <1>3 DEF MainInOrder, Done
<1>9. QED
  BY <1>1, <1>3, <1>4, <1>7, <1>8

(* Another activity begins over what runs.                                 *)
LEMMA BeginsOver ==
  ASSUME Types, StackShape, MainInOrder, NEW f \in Frame, Over(Top, f),
         stack' = Append(stack, f)
  PROVE  /\ stack' \in Seq(Frame) /\ Len(stack') = Len(stack) + 1 /\ StackShape' /\ MainInOrder'
         /\ \A n \in 1..Len(stack) : stack'[n] = stack[n]
         /\ stack'[Len(stack) + 1] = f /\ Top' = f
         /\ stack'[1] = stack[1] /\ \A x : Done(x)' <=> Done(x)
<1>1. stack \in Seq(Frame) /\ Len(stack) \in Nat /\ Len(stack) > 0 /\ Top = stack[Len(stack)]
  BY WhatRuns DEF Types
<1>2. /\ stack' \in Seq(Frame) /\ Len(stack') = Len(stack) + 1
      /\ \A n \in 1..Len(stack) : stack'[n] = stack[n]
      /\ stack'[Len(stack) + 1] = f
  BY <1>1
<1>3. stack'[1] = stack[1] /\ Top' = f
  BY <1>1, <1>2 DEF Top
<1>4. ASSUME NEW n \in 2..Len(stack')
      PROVE  Over(stack'[n - 1], stack'[n])
  <2>1. CASE n = Len(stack) + 1
    BY <1>1, <1>2, <2>1
  <2>2. CASE n # Len(stack) + 1
    <3>1. n \in 2..Len(stack) /\ n \in 1..Len(stack) /\ n - 1 \in 1..Len(stack)
      BY <1>1, <1>2, <2>2
    <3>2. Over(stack[n - 1], stack[n])
      BY <3>1 DEF StackShape
    <3>3. QED
      BY <1>2, <3>1, <3>2
  <2>3. QED
    BY <2>1, <2>2
<1>5. StackShape'
  BY <1>1, <1>2, <1>3, <1>4 DEF StackShape, MainFrame
<1>6. MainInOrder' /\ \A x : Done(x)' <=> Done(x)
  BY <1>3 DEF MainInOrder, Done
<1>7. QED
  BY <1>2, <1>3, <1>5, <1>6

(* What runs is done, and what it had interrupted goes on.                 *)
LEMMA GoesBack ==
  ASSUME Types, StackShape, MainInOrder, Len(stack) > 1, stack' = Front(stack)
  PROVE  /\ stack' \in Seq(Frame) /\ Len(stack') = Len(stack) - 1 /\ StackShape' /\ MainInOrder'
         /\ \A n \in 1..(Len(stack) - 1) : stack'[n] = stack[n]
         /\ Top' = stack[Len(stack) - 1]
         /\ stack'[1] = stack[1] /\ \A x : Done(x)' <=> Done(x)
<1>1. stack \in Seq(Frame) /\ Len(stack) \in Nat
  BY DEF Types
<1>2. /\ stack' \in Seq(Frame) /\ Len(stack') = Len(stack) - 1
      /\ \A n \in 1..(Len(stack) - 1) : stack'[n] = stack[n]
  BY <1>1 DEF Front
<1>3. stack'[1] = stack[1] /\ Top' = stack[Len(stack) - 1]
  BY <1>1, <1>2 DEF Top
<1>4. ASSUME NEW n \in 2..Len(stack')
      PROVE  Over(stack'[n - 1], stack'[n])
  <2>1. n \in 2..Len(stack) /\ n \in 1..(Len(stack) - 1) /\ n - 1 \in 1..(Len(stack) - 1)
    BY <1>1, <1>2
  <2>2. Over(stack[n - 1], stack[n])
    BY <2>1 DEF StackShape
  <2>3. QED
    BY <1>2, <2>1, <2>2
<1>5. StackShape'
  BY <1>1, <1>2, <1>3, <1>4 DEF StackShape, MainFrame
<1>6. MainInOrder' /\ \A x : Done(x)' <=> Done(x)
  BY <1>3 DEF MainInOrder, Done
<1>7. QED
  BY <1>2, <1>3, <1>5, <1>6

(* kernel_main does its k-th chore, which only it does.                    *)
LEMMA DoesChore ==
  ASSUME Types, StackShape, MainInOrder, NEW k \in 1..15, Running(Main[k]), MainFrame(Top),
         Continue(<<>>)
  PROVE  /\ stack' \in Seq(Frame) /\ Len(stack) = 1 /\ Len(stack') = 1
         /\ StackShape' /\ MainInOrder' /\ MainFrame(Top)' /\ Top' = stack'[1]
         /\ \A m \in 1..15 : Done(Main[m]) <=> m < k
         /\ \A m \in 1..15 : Done(Main[m])' <=> m <= k
<1>1. Len(stack) = 1 /\ Top = stack[1] /\ Top \in Frame
  BY WhatRuns
<1>2. PICK n \in 0..15 : MainFrom(Top.todo, n)
  BY <1>1 DEF MainInOrder
<1>3. Top.todo \in Seq(Words) /\ Top.todo # <<>> /\ Head(Top.todo) = Main[k]
  BY <1>1 DEF Frame, Running
<1>4. <<>> \in Seq(Words) /\ <<>> \o Tail(Top.todo) = Tail(Top.todo)
  BY <1>3
<1>5. /\ stack' \in Seq(Frame) /\ Len(stack') = 1 /\ Top' = stack'[1]
      /\ Top'.vector = Top.vector /\ Top'.todo = Tail(Top.todo)
  BY <1>1, <1>3, <1>4, GoesOn
<1>6. /\ MainFrom(Tail(Top.todo), k)
      /\ \A m \in 1..15 : Has(Top.todo, Main[m]) <=> m >= k
      /\ \A m \in 1..15 : Has(Tail(Top.todo), Main[m]) <=> m > k
  BY <1>2, <1>3, NextChore
<1>7. MainInOrder'
  BY <1>5, <1>6 DEF MainInOrder
<1>8. StackShape' /\ MainFrame(Top)'
  BY <1>5 DEF StackShape, MainFrame
<1>9. ASSUME NEW m \in 1..15
      PROVE  (Done(Main[m]) <=> m < k) /\ (Done(Main[m])' <=> m <= k)
  <2>1. Has(Top.todo, Main[m]) <=> m >= k
    BY <1>6
  <2>2. Has(Tail(Top.todo), Main[m]) <=> m > k
    BY <1>6
  <2>3. Main[m]' = Main[m]
    BY DEF Main, PicInit
  <2>4. QED
    BY <1>1, <1>5, <2>1, <2>2, <2>3 DEF Done
<1>10. QED
  BY <1>1, <1>5, <1>7, <1>8, <1>9

-----------------------------------------------------------------------------
(* What the invariant says of a state.                                     *)

(* kernel_main does nothing before what comes earlier on its list.         *)
LEMMA DoneInOrder ==
  ASSUME Types, StackShape, MainInOrder, NEW k \in 1..15, NEW m \in 1..15, m <= k, Done(Main[k])
  PROVE  Done(Main[m])
<1>1. PICK n \in 0..15 : MainFrom(stack[1].todo, n)
  BY DEF MainInOrder
<1>2. stack[1].todo \in Seq(Words)
  <2>1. stack[1] \in Frame
    BY WhatRuns DEF Types
  <2>2. QED
    BY <2>1 DEF Frame
<1>3. \A j \in 1..15 : Done(Main[j]) <=> ~(j > n)
  BY <1>1, <1>2, WhatIsLeft DEF Done
<1>4. QED
  BY <1>3

(* The names of the chores that matter, by their places.                   *)
LEMMA ChoresByPlace ==
  ASSUME Types, StackShape, MainInOrder
  PROVE  /\ Done("load_idt") => Done("icw2")
         /\ Done("jump_to_ring3") => Done("tss_install") /\ Done("load_idt")
<1>1. Done(Main[6]) => Done(Main[3])
  BY DoneInOrder
<1>2. Done(Main[15]) => Done(Main[11]) /\ Done(Main[6])
  BY DoneInOrder
<1>3. QED
  BY <1>1, <1>2, MainWords, Zenon

(* An activity over kernel_main: the table is loaded, and the controller   *)
(* has left the vectors of the exceptions.                                 *)
LEMMA AfterLoading ==
  ASSUME IInv, Len(stack) > 1 \/ interrupts
  PROVE  Done("load_idt") /\ idt # "none" /\ Done("icw2") /\ pic.base = 32
<1>1. Done("load_idt")
  BY WhatRuns DEF IInv, Prepared
<1>2. QED
  BY <1>1, ChoresByPlace DEF IInv, Prepared

(* An interrupt is taken, unless the table was taken away.                 *)
LEMMA IsAccepted ==
  ASSUME IInv, Done("load_idt"), idt # "null"
  PROVE  Accepted
<1>1. idt = "ours"
  BY DEF IInv, Prepared, Types
<1>2. UserMode => Done("tss_install")
  BY ChoresByPlace DEF IInv, UserMode
<1>3. QED
  BY <1>1, <1>2 DEF Accepted

(* The vectors of the devices are those of their handlers only.            *)
LEMMA VectorTells ==
  ASSUME StackShape, NEW n \in 2..Len(stack), stack[n].vector \in 32..39
  PROVE  DeviceFrame(stack[n])
<1>1. Over(stack[n - 1], stack[n])
  BY DEF StackShape
<1>2. ~CallFrame(stack[n])
  BY DEF CallFrame, SYSCALL
<1>3. ~FaultFrame(stack[n])
  BY FaultVectors, Zenon
<1>4. QED
  BY <1>1, <1>2, <1>3, Zenon DEF Over

(* Where no device's handler is on top or under a fault, none is in        *)
(* service.                                                                *)
LEMMA NoneServed ==
  ASSUME IInv, machine = "running", MainFrame(Top) \/ CallFrame(Top)
  PROVE  pic.isr = {} /\ \A n \in 2..Len(stack) : stack[n].vector \notin 32..39
<1>1. ASSUME NEW n \in 2..Len(stack), stack[n].vector \in 32..39
      PROVE  FALSE
  <2>1. DeviceFrame(stack[n])
    BY <1>1, VectorTells DEF IInv
  <2>2. n = Len(stack) \/ FaultFrame(Top)
    BY <2>1, DeviceOnTop DEF IInv
  <2>3. QED
    BY <2>1, <2>2, FramesDiffer DEF Top
<1>2. ASSUME NEW i \in Lines, i \in pic.isr
      PROVE  FALSE
  <2>1. PICK n \in 2..Len(stack) : stack[n].vector = 32 + i
    BY <1>2 DEF IInv, Owed
  <2>2. 32 + i \in 32..39
    BY VectorOfLine
  <2>3. QED
    BY <1>1, <2>1, <2>2
<1>3. pic.isr \subseteq Lines
  BY DEF IInv, Types, Pic
<1>4. QED
  BY <1>1, <1>2, <1>3

(* A device's handler on top: it is the only one, and what is in service is*)
(* its line if it has something left to do.                                *)
LEMMA OneServed ==
  ASSUME IInv, machine = "running", DeviceFrame(Top), Top.todo # <<>>
  PROVE  /\ \A n \in 2..Len(stack) : stack[n].vector \in 32..39 => n = Len(stack)
         /\ pic.isr = {i \in Lines : Top.vector = 32 + i}
<1>1. ASSUME NEW n \in 2..Len(stack), stack[n].vector \in 32..39
      PROVE  n = Len(stack)
  <2>1. DeviceFrame(stack[n])
    BY <1>1, VectorTells DEF IInv
  <2>2. QED
    BY <2>1, DeviceOnTop, FramesDiffer DEF IInv
<1>2. Len(stack) \in 2..Len(stack) /\ Top = stack[Len(stack)]
  BY WhatRuns, FramesDiffer DEF IInv
<1>3. ASSUME NEW i \in Lines
      PROVE  i \in pic.isr <=> Top.vector = 32 + i
  <2>1. i \in pic.isr <=> \E n \in 2..Len(stack) : stack[n].vector = 32 + i /\ stack[n].todo # <<>>
    BY DEF IInv, Owed
  <2>2. 32 + i \in 32..39
    BY VectorOfLine
  <2>3. QED
    BY <1>1, <1>2, <2>1, <2>2
<1>4. pic.isr \subseteq Lines
  BY DEF IInv, Types, Pic
<1>5. QED
  BY <1>1, <1>3, <1>4

-----------------------------------------------------------------------------
(* The steps of kernel_main.                                               *)

(* A chore keeps the invariant if it does to the controller, the table and *)
(* the flag what is due at its place.                                      *)
LEMMA ChoreKeeps ==
  ASSUME IInv, NEW k \in 1..15, Running(Main[k]), MainFrame(Top), Continue(<<>>),
         UNCHANGED <<keys, ticks, machine>>,
         pic' \in Pic, interrupts' \in BOOLEAN, idt' \in {"none", "ours"}, muted' \in BOOLEAN,
         k < 6 => ~interrupts' /\ idt' = "none",
         k >= 6 => idt' # "none",
         pic'.base = (IF k >= 3 THEN 32 ELSE 8),
         pic'.isr = {},
         keys # <<>> /\ ~muted' => KeyLine \in pic'.irr
  PROVE  IInv'
<1>1. /\ stack' \in Seq(Frame) /\ Len(stack) = 1 /\ Len(stack') = 1
      /\ StackShape' /\ MainInOrder' /\ MainFrame(Top)' /\ Top' = stack'[1]
      /\ \A m \in 1..15 : Done(Main[m]) <=> m < k
      /\ \A m \in 1..15 : Done(Main[m])' <=> m <= k
  BY DoesChore DEF IInv
<1>2. /\ Done("load_idt")' <=> k >= 6
      /\ Done("icw2")' <=> k >= 3
  <2>1. /\ Done(Main[6])' <=> 6 <= k
        /\ Done(Main[3])' <=> 3 <= k
    BY <1>1
  <2>2. Main[6] = "load_idt" /\ Main[3] = "icw2"
    BY MainWords
  <2>3. QED
    BY <2>1, <2>2
<1>3. Types'
  BY <1>1, CountsAre DEF IInv, Types
<1>4. Prepared'
  <2>1. /\ ~Done("load_idt")' => ~interrupts' /\ idt' = "none" /\ Len(stack') = 1 /\ pic'.isr = {}
        /\ Done("load_idt")' => idt' # "none"
    BY <1>1, <1>2
  <2>2. pic'.base = IF Done("icw2")' THEN 32 ELSE 8
    BY <1>2
  <2>3. QED
    BY <2>1, <2>2, Zenon DEF Prepared
<1>5. OnWhereSafe'
  <2>1. idt' # "null" /\ Top'.vector = None
    BY <1>1 DEF MainFrame
  <2>2. ~DeviceFrame(Top')
    BY <2>1 DEF DeviceFrame, None
  <2>3. QED
    BY <2>1, <2>2 DEF OnWhereSafe, MainFrame, DeviceFrame
<1>6. Owed' /\ Asked'
  BY <1>1 DEF Owed, Asked
<1>7. ResetOnlyWhenAsked'
  <2>1. machine = "running"
    BY DEF Running
  <2>2. QED
    BY <2>1 DEF ResetOnlyWhenAsked
<1>8. QED
  BY <1>1, <1>3, <1>4, <1>5, <1>6, <1>7 DEF IInv

(* What kernel_main finds when it gets to a chore.                         *)
LEMMA ChoreFinds ==
  ASSUME IInv, NEW k \in 1..15, Running(Main[k]), MainFrame(Top)
  PROVE  /\ k <= 6 => ~interrupts /\ idt = "none"
         /\ k > 6 => idt # "none"
         /\ idt # "null" /\ pic \in Pic /\ pic.isr = {} /\ pic.base = (IF k > 3 THEN 32 ELSE 8)
         /\ keys # <<>> /\ ~muted => KeyLine \in pic.irr
<1>1. Len(stack) = 1 /\ Top = stack[1] /\ Top \in Frame /\ machine = "running"
  BY WhatRuns DEF IInv, Running
<1>2. \A m \in 1..15 : Done(Main[m]) <=> m < k
  <2>1. PICK n \in 0..15 : MainFrom(Top.todo, n)
    BY <1>1 DEF IInv, MainInOrder
  <2>2. Top.todo \in Seq(Words) /\ Top.todo # <<>> /\ Head(Top.todo) = Main[k]
    BY <1>1 DEF Frame, Running
  <2>3. \A m \in 1..15 : Has(Top.todo, Main[m]) <=> m >= k
    BY <2>1, <2>2, NextChore
  <2>4. QED
    BY <1>1, <2>3 DEF Done
<1>3. (Done("load_idt") <=> 6 < k) /\ (Done("icw2") <=> 3 < k)
  <2>1. (Done(Main[6]) <=> 6 < k) /\ (Done(Main[3]) <=> 3 < k)
    BY <1>2
  <2>2. QED
    BY <2>1, MainWords, Zenon
<1>4. idt # "null"
  BY FramesDiffer DEF IInv, OnWhereSafe
<1>5. pic.isr = {}
  BY <1>1, NoneServed
<1>6. keys # <<>> /\ ~muted => KeyLine \in pic.irr
  BY <1>1 DEF IInv, Asked
<1>7. QED
  BY <1>3, <1>4, <1>5, <1>6 DEF IInv, Types, Prepared

(* The chores that only kernel_main has are done by it.                    *)
LEMMA OnlyMain ==
  ASSUME IInv, NEW x \in Chores, x # "print_prompt", Running(x)
  PROVE  MainFrame(Top)
<1>1. x \notin CallWords /\ x \notin {"eoi", "print", "tick", "read", "execute", "loop", "int 0"}
        /\ x \notin {"message", "cli", "hlt"}
  BY DEF Chores, CallWords
<1>2. QED
  BY <1>1, WhatRuns, WhoRuns DEF IInv

(* pic_disable masks every line.                                           *)
LEMMA MaskKeeps == IInv /\ Mask => IInv'
<1> SUFFICES ASSUME IInv, Mask PROVE IInv'
  OBVIOUS
<1>1. Running(Main[1]) /\ MainFrame(Top) /\ Continue(<<>>)
  BY OnlyMain, MainWords DEF Mask, Chores
<1>2. /\ pic' \in Pic /\ pic'.isr = pic.isr /\ pic'.irr = pic.irr /\ pic'.base = pic.base
      /\ UNCHANGED <<interrupts, idt, keys, muted, ticks, machine>>
  BY DEF Mask, IInv, Types, Pic
<1>3. /\ ~interrupts /\ idt = "none"
      /\ pic \in Pic /\ pic.isr = {} /\ pic.base = 8
      /\ keys # <<>> /\ ~muted => KeyLine \in pic.irr
  BY <1>1, ChoreFinds
<1>4. pic' \in Pic /\ interrupts' \in BOOLEAN /\ idt' \in {"none", "ours"} /\ muted' \in BOOLEAN
  BY <1>2, <1>3 DEF IInv, Types
<1>5. keys # <<>> /\ ~muted' => KeyLine \in pic'.irr
  BY <1>2, <1>3
<1>6. pic'.isr = {} /\ pic'.base = 8
  BY <1>2, <1>3
<1>7. ~interrupts' /\ idt' = "none"
  BY <1>2, <1>3
<1>8. QED
  BY <1>1, <1>2, <1>4, <1>5, <1>6, <1>7, ChoreKeeps

(* The first word of pic_init: requests, service and mask are forgotten.   *)
LEMMA Icw1Keeps == IInv /\ Icw1 => IInv'
<1> SUFFICES ASSUME IInv, Icw1 PROVE IInv'
  OBVIOUS
<1>1. Running(Main[2]) /\ MainFrame(Top) /\ Continue(<<>>)
  BY OnlyMain, MainWords DEF Icw1, Chores
<1>2. /\ pic' \in Pic /\ pic'.isr = {} /\ pic'.base = pic.base /\ muted' = (keys # <<>>)
      /\ UNCHANGED <<interrupts, idt, keys, ticks, machine>>
  <2>1. \A r \in Pic : /\ [r EXCEPT !.irr = {}, !.isr = {}, !.imr = {}] \in Pic
                       /\ [r EXCEPT !.irr = {}, !.isr = {}, !.imr = {}].isr = {}
                       /\ [r EXCEPT !.irr = {}, !.isr = {}, !.imr = {}].base = r.base
    BY DEF Pic
  <2>2. QED
    BY <2>1 DEF Icw1, IInv, Types
<1>3. /\ ~interrupts /\ idt = "none"
      /\ pic \in Pic /\ pic.isr = {} /\ pic.base = 8
      /\ keys # <<>> /\ ~muted => KeyLine \in pic.irr
  BY <1>1, ChoreFinds
<1>4. pic' \in Pic /\ interrupts' \in BOOLEAN /\ idt' \in {"none", "ours"} /\ muted' \in BOOLEAN
  BY <1>2, <1>3 DEF IInv, Types
<1>5. keys # <<>> /\ ~muted' => KeyLine \in pic'.irr
  BY <1>2, <1>3
<1>6. pic'.isr = {} /\ pic'.base = 8
  BY <1>2, <1>3
<1>7. ~interrupts' /\ idt' = "none"
  BY <1>2, <1>3
<1>8. QED
  BY <1>1, <1>2, <1>4, <1>5, <1>6, <1>7, ChoreKeeps

(* The second word of pic_init: the vectors of the devices.                *)
LEMMA Icw2Keeps == IInv /\ Icw2 => IInv'
<1> SUFFICES ASSUME IInv, Icw2 PROVE IInv'
  OBVIOUS
<1>1. Running(Main[3]) /\ MainFrame(Top) /\ Continue(<<>>)
  BY OnlyMain, MainWords DEF Icw2, Chores
<1>2. /\ pic' \in Pic /\ pic'.isr = pic.isr /\ pic'.irr = pic.irr /\ pic'.base = 32
      /\ UNCHANGED <<interrupts, idt, keys, muted, ticks, machine>>
  BY DEF Icw2, IInv, Types, Pic
<1>3. /\ ~interrupts /\ idt = "none"
      /\ pic \in Pic /\ pic.isr = {} /\ pic.base = 8
      /\ keys # <<>> /\ ~muted => KeyLine \in pic.irr
  BY <1>1, ChoreFinds
<1>4. pic' \in Pic /\ interrupts' \in BOOLEAN /\ idt' \in {"none", "ours"} /\ muted' \in BOOLEAN
  BY <1>2, <1>3 DEF IInv, Types
<1>5. keys # <<>> /\ ~muted' => KeyLine \in pic'.irr
  BY <1>2, <1>3
<1>6. pic'.isr = {} /\ pic'.base = 32
  BY <1>2, <1>3
<1>7. ~interrupts' /\ idt' = "none"
  BY <1>2, <1>3
<1>8. QED
  BY <1>1, <1>2, <1>4, <1>5, <1>6, <1>7, ChoreKeeps

(* The end of pic_init lets the timer and the keyboard ask.                *)
LEMMA UnmaskKeeps == IInv /\ Unmask => IInv'
<1> SUFFICES ASSUME IInv, Unmask PROVE IInv'
  OBVIOUS
<1>1. Running(Main[4]) /\ MainFrame(Top) /\ Continue(<<>>)
  BY OnlyMain, MainWords DEF Unmask, Chores
<1>2. /\ pic' \in Pic /\ pic'.isr = pic.isr /\ pic'.irr = pic.irr /\ pic'.base = pic.base
      /\ UNCHANGED <<interrupts, idt, keys, muted, ticks, machine>>
  BY DEF Unmask, IInv, Types, Pic
<1>3. /\ ~interrupts /\ idt = "none"
      /\ pic \in Pic /\ pic.isr = {} /\ pic.base = 32
      /\ keys # <<>> /\ ~muted => KeyLine \in pic.irr
  BY <1>1, ChoreFinds
<1>4. pic' \in Pic /\ interrupts' \in BOOLEAN /\ idt' \in {"none", "ours"} /\ muted' \in BOOLEAN
  BY <1>2, <1>3 DEF IInv, Types
<1>5. keys # <<>> /\ ~muted' => KeyLine \in pic'.irr
  BY <1>2, <1>3
<1>6. pic'.isr = {} /\ pic'.base = 32
  BY <1>2, <1>3
<1>7. ~interrupts' /\ idt' = "none"
  BY <1>2, <1>3
<1>8. QED
  BY <1>1, <1>2, <1>4, <1>5, <1>6, <1>7, ChoreKeeps

(* load_idt loads the table and turns interrupts on.                       *)
LEMMA LoadIdtKeeps == IInv /\ LoadIdt => IInv'
<1> SUFFICES ASSUME IInv, LoadIdt PROVE IInv'
  OBVIOUS
<1>1. Running(Main[6]) /\ MainFrame(Top) /\ Continue(<<>>)
  BY OnlyMain, MainWords DEF LoadIdt, Chores
<1>2. idt' = "ours" /\ interrupts' = TRUE /\ UNCHANGED <<pic, keys, muted, ticks, machine>>
  BY DEF LoadIdt
<1>3. /\ ~interrupts /\ idt = "none"
      /\ pic \in Pic /\ pic.isr = {} /\ pic.base = 32
      /\ keys # <<>> /\ ~muted => KeyLine \in pic.irr
  BY <1>1, ChoreFinds
<1>4. pic' \in Pic /\ interrupts' \in BOOLEAN /\ idt' \in {"none", "ours"} /\ muted' \in BOOLEAN
  BY <1>2, <1>3 DEF IInv, Types
<1>5. keys # <<>> /\ ~muted' => KeyLine \in pic'.irr
  BY <1>2, <1>3
<1>6. pic'.isr = {} /\ pic'.base = 32
  BY <1>2, <1>3
<1>7. idt' # "none"
  BY <1>2, <1>3
<1>8. QED
  BY <1>1, <1>2, <1>4, <1>5, <1>6, <1>7, ChoreKeeps

(* kernel_main goes to ring 3.                                             *)
LEMMA JumpToRing3Keeps == IInv /\ JumpToRing3 => IInv'
<1> SUFFICES ASSUME IInv, JumpToRing3 PROVE IInv'
  OBVIOUS
<1>1. Running(Main[15]) /\ MainFrame(Top) /\ Continue(<<>>)
  BY OnlyMain, MainWords DEF JumpToRing3, Chores
<1>2. interrupts' = TRUE /\ UNCHANGED <<idt, pic, keys, muted, ticks, machine>>
  BY DEF JumpToRing3
<1>3. /\ idt # "none" /\ idt # "null"
      /\ pic \in Pic /\ pic.isr = {} /\ pic.base = 32
      /\ keys # <<>> /\ ~muted => KeyLine \in pic.irr
  BY <1>1, ChoreFinds
<1>4. pic' \in Pic /\ interrupts' \in BOOLEAN /\ idt' \in {"none", "ours"} /\ muted' \in BOOLEAN
  BY <1>2, <1>3 DEF IInv, Types
<1>5. keys # <<>> /\ ~muted' => KeyLine \in pic'.irr
  BY <1>2, <1>3
<1>6. pic'.isr = {} /\ pic'.base = 32
  BY <1>2, <1>3
<1>7. idt' # "none"
  BY <1>2, <1>3
<1>8. QED
  BY <1>1, <1>2, <1>4, <1>5, <1>6, <1>7, ChoreKeeps
-----------------------------------------------------------------------------
(* The steps of what runs over kernel_main.                                *)

(* Where what runs goes on, the frames keep their vectors and, but for the *)
(* topmost, their lists.                                                   *)
LEMMA FramesKept ==
  ASSUME Types, StackShape, MainInOrder, Len(stack) > 1,
         NEW more \in Seq(Words), Top.todo # <<>>, Continue(more),
         NEW t, t = more \o Tail(Top.todo), NEW n \in 2..Len(stack)
  PROVE  /\ Len(stack') = Len(stack) /\ stack'[n].vector = stack[n].vector
         /\ n # Len(stack) => stack'[n] = stack[n]
         /\ n = Len(stack) => stack[n] = Top /\ stack'[n].todo = t
<1>1. /\ Len(stack') = Len(stack)
      /\ \A m \in 1..(Len(stack) - 1) : stack'[m] = stack[m]
      /\ Top' = stack'[Len(stack)] /\ Top'.vector = Top.vector /\ Top'.todo = t
  BY GoesOn
<1>2. Len(stack) \in Nat /\ Top = stack[Len(stack)]
  BY WhatRuns
<1>3. n # Len(stack) => n \in 1..(Len(stack) - 1)
  BY <1>2
<1>4. QED
  BY <1>1, <1>2, <1>3

(* A handler or a call goes on: it leaves its line in service until it has *)
(* nothing left to do, and the keyboard asks again when it is read.        *)
LEMMA HandlerKeeps ==
  ASSUME IInv, machine = "running", Len(stack) > 1,
         NEW more \in Seq(Words), Top.todo # <<>>, Continue(more),
         NEW t, t = more \o Tail(Top.todo),
         \/ CallFrame(Top) /\ t \in Seq(CallWords)
         \/ DeviceFrame(Top) /\ t \in DeviceTodos
         \/ FaultFrame(Top) /\ t \in FaultTodos,
         machine' = machine, muted' = muted, ticks' \in 0..(TICKS - 1),
         keys' \in Seq(Kinds), Len(keys') <= MaxKeys,
         pic' \in Pic, pic'.base = pic.base,
         pic'.isr = (IF DeviceFrame(Top) /\ t = <<>> THEN {} ELSE pic.isr),
         interrupts' \in BOOLEAN, idt' \in {"ours", "null"},
         interrupts' /\ idt' # "null" => CallFrame(Top),
         idt' = "null" <=> DeviceFrame(Top) /\ t = Rebooting,
         keys' # <<>> /\ ~muted =>
           KeyLine \in pic'.irr \/ (keys # <<>> /\ pic'.irr = pic.irr /\ Top.todo # <<"read">>)
  PROVE  IInv'
<1>1. /\ stack' \in Seq(Frame) /\ Len(stack') = Len(stack) /\ StackShape' /\ MainInOrder'
      /\ Top' = stack'[Len(stack)] /\ Top'.vector = Top.vector /\ Top'.todo = t
      /\ \A x : Done(x)' <=> Done(x)
      /\ CallFrame(Top') <=> CallFrame(Top)
      /\ DeviceFrame(Top') <=> DeviceFrame(Top)
      /\ FaultFrame(Top') <=> FaultFrame(Top)
  BY HandlerGoesOn DEF IInv
<1>2. \A n \in 2..Len(stack) :
        /\ stack'[n].vector = stack[n].vector
        /\ n # Len(stack) => stack'[n] = stack[n]
        /\ n = Len(stack) => stack[n] = Top /\ stack'[n].todo = t
  BY FramesKept DEF IInv
<1>3. Len(stack) \in 2..Len(stack) /\ Top \in Frame
  BY WhatRuns DEF IInv
<1>4. Done("load_idt") /\ Done("icw2") /\ pic.base = 32
  BY AfterLoading
<1>5. Types'
  BY <1>1, CountsAre DEF IInv, Types
<1>6. Prepared'
  <2>1. Done("load_idt")' /\ Done("icw2")' /\ idt' # "none"
    BY <1>1, <1>4
  <2>2. pic'.base = IF Done("icw2")' THEN 32 ELSE 8
    BY <1>4, <2>1
  <2>3. QED
    BY <2>1, <2>2, Zenon DEF Prepared
<1>7. OnWhereSafe'
  BY <1>1 DEF OnWhereSafe
<1>8. Owed'
  <2>1. ASSUME NEW i \in Lines
        PROVE  i \in pic'.isr <=>
                 \E n \in 2..Len(stack') : stack'[n].vector = 32 + i /\ stack'[n].todo # <<>>
    <3>1. 32 + i \in 32..39
      BY VectorOfLine
    <3>2. i \in pic.isr <=> \E n \in 2..Len(stack) : stack[n].vector = 32 + i /\ stack[n].todo # <<>>
      BY DEF IInv, Owed
    <3>3. CASE CallFrame(Top)
      <4>1. pic.isr = {} /\ \A n \in 2..Len(stack) : stack[n].vector \notin 32..39
        BY <3>3, NoneServed
      <4>2. pic'.isr = {}
        BY <4>1
      <4>3. QED
        BY <1>1, <1>2, <3>1, <4>1, <4>2, SMTT(30)
    <3>4. CASE DeviceFrame(Top)
      <4>1. /\ \A n \in 2..Len(stack) : stack[n].vector \in 32..39 => n = Len(stack)
            /\ pic.isr = {j \in Lines : Top.vector = 32 + j}
        BY <3>4, OneServed
      <4>2. i \in pic'.isr <=> Top.vector = 32 + i /\ t # <<>>
        BY <3>4, <4>1
      <4>3. (\E n \in 2..Len(stack') : stack'[n].vector = 32 + i /\ stack'[n].todo # <<>>)
              <=> Top.vector = 32 + i /\ t # <<>>
        <5>1. \A n \in 2..Len(stack) : stack'[n].vector = 32 + i => n = Len(stack)
          BY <1>2, <3>1, <4>1, ZenonT(40)
        <5>2. /\ Len(stack) \in 2..Len(stack') /\ stack'[Len(stack)].vector = Top.vector
              /\ stack'[Len(stack)].todo = t
          BY <1>1, <1>2, <1>3
        <5>3. Len(stack') = Len(stack)
          BY <1>1
        <5>4. QED
          BY <5>1, <5>2, <5>3
      <4>4. QED
        BY <4>2, <4>3
    <3>5. CASE FaultFrame(Top)
      <4>1. Top.vector # 32 + i /\ ~DeviceFrame(Top)
        BY <3>1, <3>5, FramesDiffer, FaultVectors, Zenon
      <4>2. pic'.isr = pic.isr
        BY <4>1
      <4>3. \A n \in 2..Len(stack) :
              stack'[n].vector = 32 + i /\ stack'[n].todo # <<>>
                <=> stack[n].vector = 32 + i /\ stack[n].todo # <<>>
        BY <1>2, <4>1
      <4>4. QED
        BY <1>1, <3>2, <4>2, <4>3
    <3>6. QED
      BY <3>3, <3>4, <3>5
  <2>2. QED
    BY <2>1 DEF Owed
<1>9. Asked'
  <2>1. SUFFICES ASSUME keys' # <<>>, ~muted, KeyLine \notin pic'.irr
                 PROVE  \E n \in 2..Len(stack') : stack'[n].vector = 33 /\ stack'[n].todo = <<"read">>
    BY DEF Asked
  <2>2. keys # <<>> /\ KeyLine \notin pic.irr /\ Top.todo # <<"read">>
    BY <2>1
  <2>3. PICK n \in 2..Len(stack) : stack[n].vector = 33 /\ stack[n].todo = <<"read">>
    BY <2>1, <2>2 DEF IInv, Asked
  <2>4. QED
    BY <1>1, <1>2, <2>2, <2>3
<1>10. ResetOnlyWhenAsked'
  BY DEF ResetOnlyWhenAsked
<1>11. QED
  BY <1>1, <1>5, <1>6, <1>7, <1>8, <1>9, <1>10 DEF IInv

(* A device or a fault begins over what runs: interrupts are off, and the  *)
(* line of the device is in service.                                       *)
LEMMA BeginKeeps ==
  ASSUME IInv, machine = "running", idt = "ours", Done("load_idt"), NEW f \in Frame, Over(Top, f),
         stack' = Append(stack, f), DeviceFrame(f) \/ FaultFrame(f),
         f.todo # Rebooting, f.todo # <<>>,
         interrupts' = FALSE, UNCHANGED <<idt, keys, muted, ticks, machine>>,
         pic' \in Pic, pic'.base = pic.base,
         DeviceFrame(f) => pic'.isr = {i \in Lines : f.vector = 32 + i},
         FaultFrame(f) => pic'.isr = pic.isr,
         KeyLine \in pic'.irr \/ KeyLine \notin pic.irr \/ (f.vector = 33 /\ f.todo = <<"read">>)
  PROVE  IInv'
<1>1. /\ stack' \in Seq(Frame) /\ Len(stack') = Len(stack) + 1 /\ StackShape' /\ MainInOrder'
      /\ \A n \in 1..Len(stack) : stack'[n] = stack[n]
      /\ stack'[Len(stack) + 1] = f /\ Top' = f
      /\ \A x : Done(x)' <=> Done(x)
  BY BeginsOver DEF IInv
<1>2. Len(stack) \in Nat /\ Len(stack) > 0
  BY WhatRuns DEF IInv
<1>3. /\ \A n \in 2..Len(stack) : n \in 2..Len(stack') /\ stack'[n] = stack[n]
      /\ Len(stack) + 1 \in 2..Len(stack')
      /\ \A n \in 2..Len(stack') : n = Len(stack) + 1 \/ n \in 2..Len(stack)
  BY <1>1, <1>2
<1>4. Types'
  BY <1>1 DEF IInv, Types
<1>5. Prepared'
  <2>1. Done("load_idt")' /\ idt' # "none"
    BY <1>1
  <2>2. pic'.base = IF Done("icw2")' THEN 32 ELSE 8
    BY <1>1 DEF IInv, Prepared
  <2>3. QED
    BY <2>1, <2>2, Zenon DEF Prepared
<1>6. OnWhereSafe'
  BY <1>1 DEF OnWhereSafe
<1>7. Owed'
  <2>1. ASSUME NEW i \in Lines
        PROVE  i \in pic'.isr <=>
                 \E n \in 2..Len(stack') : stack'[n].vector = 32 + i /\ stack'[n].todo # <<>>
    <3>1. 32 + i \in 32..39
      BY VectorOfLine
    <3>2. i \in pic.isr <=> \E n \in 2..Len(stack) : stack[n].vector = 32 + i /\ stack[n].todo # <<>>
      BY DEF IInv, Owed
    <3>3. CASE DeviceFrame(f)
      <4>1. MainFrame(Top) \/ CallFrame(Top)
        BY <3>3, FramesDiffer DEF Over
      <4>2. \A n \in 2..Len(stack) : stack[n].vector \notin 32..39
        BY <4>1, NoneServed
      <4>3. QED
        BY <1>1, <1>3, <3>1, <3>3, <4>2
    <3>4. CASE FaultFrame(f)
      <4>1. f.vector # 32 + i
        <5>1. f.vector \notin 32..39
          BY <3>4, FaultVectors
        <5>2. QED
          BY <3>1, <5>1, Zenon
      <4>2. QED
        BY <1>1, <1>3, <3>2, <3>4, <4>1
    <3>5. QED
      BY <3>3, <3>4
  <2>2. QED
    BY <2>1 DEF Owed
<1>8. Asked'
  <2>1. SUFFICES ASSUME keys # <<>>, ~muted, KeyLine \notin pic'.irr
                 PROVE  \E n \in 2..Len(stack') : stack'[n].vector = 33 /\ stack'[n].todo = <<"read">>
    BY DEF Asked
  <2>2. CASE KeyLine \notin pic.irr
    <3>1. PICK n \in 2..Len(stack) : stack[n].vector = 33 /\ stack[n].todo = <<"read">>
      BY <2>1, <2>2 DEF IInv, Asked
    <3>2. QED
      BY <1>3, <3>1
  <2>3. CASE f.vector = 33 /\ f.todo = <<"read">>
    BY <1>1, <1>3, <2>3
  <2>4. QED
    BY <2>1, <2>2, <2>3
<1>9. ResetOnlyWhenAsked'
  BY DEF ResetOnlyWhenAsked
<1>10. QED
  BY <1>1, <1>4, <1>5, <1>6, <1>7, <1>8, <1>9 DEF IInv

(* An interrupt without a table resets the machine, and that is all.       *)
LEMMA ResetKeeps ==
  ASSUME IInv, idt = "null", machine' = "reset", UNCHANGED <<stack, interrupts, idt>>,
         UNCHANGED <<keys, muted, ticks>>, pic' \in Pic, pic'.base = pic.base
  PROVE  IInv'
<1>1. \A x : Done(x)' <=> Done(x)
  BY DEF Done
<1>2. Types' /\ StackShape' /\ MainInOrder'
  BY DEF IInv, Types, StackShape, MainInOrder
<1>3. OnWhereSafe' /\ ResetOnlyWhenAsked'
  BY DEF IInv, OnWhereSafe, Top, ResetOnlyWhenAsked
<1>4. Owed' /\ Asked'
  BY DEF Owed, Asked
<1>5. Prepared'
  <2>1. Done("load_idt")' /\ idt' # "none"
    BY <1>1 DEF IInv, Prepared
  <2>2. pic'.base = IF Done("icw2")' THEN 32 ELSE 8
    BY <1>1 DEF IInv, Prepared
  <2>3. QED
    BY <2>1, <2>2, Zenon DEF Prepared
<1>6. QED
  BY <1>2, <1>3, <1>4, <1>5 DEF IInv

-----------------------------------------------------------------------------
(* What each of the other actions does.                                    *)

(* What runs when a step is taken, by who it is.                           *)
LEMMA OnTop ==
  ASSUME IInv
  PROVE  /\ Top \in Frame /\ Top.todo \in Seq(Words) /\ Tail(Top.todo) = <<>> \o Tail(Top.todo)
         /\ \/ Len(stack) = 1 /\ MainFrame(Top)
            \/ Len(stack) > 1 /\ (CallFrame(Top) \/ DeviceFrame(Top) \/ FaultFrame(Top))
         /\ MainFrame(Top) => Len(stack) = 1
<1>1. Top \in Frame
  BY WhatRuns DEF IInv
<1>2. Top.todo \in Seq(Words)
  BY <1>1 DEF Frame
<1>3. /\ \/ Len(stack) = 1 /\ MainFrame(Top)
         \/ Len(stack) > 1 /\ (CallFrame(Top) \/ DeviceFrame(Top) \/ FaultFrame(Top))
      /\ MainFrame(Top) => Len(stack) = 1
  BY WhatRuns DEF IInv
<1>4. Tail(Top.todo) = <<>> \o Tail(Top.todo)
  <2>1. \A S : \A s \in Seq(S) : Tail(s) = <<>> \o Tail(s) \/ s = <<>>
    OBVIOUS
  <2>2. Tail(<<>>) = <<>> \o Tail(<<>>)
    OBVIOUS
  <2>3. QED
    BY <1>2, <2>1, <2>2
<1>5. QED
  BY <1>1, <1>2, <1>3, <1>4

(* What is left to a call is still of a call's words.                      *)
LEMMA CallGoesOn ==
  ASSUME CallFrame(Top), Top.todo # <<>>
  PROVE  Tail(Top.todo) \in Seq(CallWords)
BY DEF CallFrame

(* A step of a handler, or of a call, that touches nothing but its list.   *)
LEMMA QuietKeeps ==
  ASSUME IInv, machine = "running", Top.todo # <<>>, Continue(<<>>), Len(stack) > 1,
         \/ CallFrame(Top)
         \/ DeviceFrame(Top) /\ Tail(Top.todo) \in DeviceTodos /\ Tail(Top.todo) # <<>>
              /\ Tail(Top.todo) # Rebooting
              /\ Top.todo # <<"read">> /\ Top.todo # Rebooting
         \/ FaultFrame(Top) /\ Tail(Top.todo) \in FaultTodos,
         ticks' \in 0..(TICKS - 1), UNCHANGED <<interrupts, idt, pic, keys, muted, machine>>
  PROVE  IInv'
<1>1. <<>> \in Seq(Words)
  OBVIOUS
<1>2. Tail(Top.todo) = <<>> \o Tail(Top.todo)
  BY OnTop
<1>3. Top.todo # <<"read">>
  <2>1. CASE CallFrame(Top)
    <3>1. Head(Top.todo) \in CallWords
      BY <2>1 DEF CallFrame
    <3>2. QED
      BY <3>1, DeviceHeads DEF CallWords
  <2>2. CASE FaultFrame(Top)
    <3>1. Head(Top.todo) \in {"message", "cli", "hlt"}
      BY <2>2, DeviceHeads DEF FaultFrame, FaultTodos
    <3>2. QED
      BY <3>1, DeviceHeads
  <2>3. QED
    BY <2>1, <2>2
<1>4. idt = "ours"
  <2>1. idt # "none"
    BY AfterLoading
  <2>2. idt # "null"
    BY FramesDiffer DEF IInv, OnWhereSafe
  <2>3. QED
    BY <2>1, <2>2 DEF IInv, Types
<1>5. interrupts => CallFrame(Top)
  BY <1>4, FramesDiffer, Zenon DEF IInv, OnWhereSafe
<1>6. /\ keys \in Seq(Kinds) /\ Len(keys) <= MaxKeys /\ pic \in Pic /\ interrupts \in BOOLEAN
      /\ keys # <<>> /\ ~muted => KeyLine \in pic.irr \/ keys # <<>>
  BY DEF IInv, Types
<1>7. /\ \/ CallFrame(Top) /\ Tail(Top.todo) \in Seq(CallWords)
         \/ DeviceFrame(Top) /\ Tail(Top.todo) \in DeviceTodos
         \/ FaultFrame(Top) /\ Tail(Top.todo) \in FaultTodos
      /\ ~(DeviceFrame(Top) /\ Tail(Top.todo) = <<>>)
      /\ ~(DeviceFrame(Top) /\ Tail(Top.todo) = Rebooting)
  <2>1. CASE CallFrame(Top)
    <3>1. Tail(Top.todo) \in Seq(CallWords)
      BY <2>1, CallGoesOn
    <3>2. QED
      BY <2>1, <3>1, FramesDiffer
  <2>2. CASE DeviceFrame(Top)
    BY <2>2, FramesDiffer
  <2>3. CASE FaultFrame(Top)
    BY <2>3, FramesDiffer
  <2>4. QED
    BY <2>1, <2>2, <2>3
<1>8. QED
  BY <1>1, <1>2, <1>3, <1>4, <1>5, <1>6, <1>7, HandlerKeeps

(* Work of any kind keeps the invariant.                                   *)
LEMMA WorkKeeps == IInv /\ Work => IInv'
<1> SUFFICES ASSUME IInv, Work PROVE IInv'
  OBVIOUS
<1>1. PICK x \in Plain : Running(x) /\ Continue(<<>>)
  BY DEF Work
<1>2. UNCHANGED <<interrupts, idt, pic, keys, muted, ticks, machine>>
  BY DEF Work
<1>3. machine = "running" /\ Top.todo # <<>>
  BY <1>1 DEF Running
<1>4. CASE MainFrame(Top)
  <2>1. x \in Chores \cup Calls
    BY <1>1, <1>4, WhoRuns DEF IInv
  <2>2. PICK k \in 1..15 : x = Main[k] /\ (k = 5 \/ k > 6) /\ k < 15
    <3>1. x = "idt_set_entry" \/ x = "syscall_init" \/ x = "pmm_setup" \/ x = "vmm_init"
            \/ x = "heap_init" \/ x = "tss_install" \/ x = "init_filesystem"
            \/ x = "print_prompt" \/ x = "user pages"
      BY <2>1 DEF Plain, Chores, Calls
    <3>2. x = Main[5] \/ x = Main[7] \/ x = Main[8] \/ x = Main[9] \/ x = Main[10]
            \/ x = Main[11] \/ x = Main[12] \/ x = Main[13] \/ x = Main[14]
      BY <3>1, MainWords
    <3>3. QED
      BY <3>2
  <2>3. Running(Main[k]) /\ Continue(<<>>)
    BY <1>1, <2>2
  <2>4. /\ k <= 6 => ~interrupts /\ idt = "none"
        /\ k > 6 => idt # "none"
        /\ idt # "null" /\ pic \in Pic /\ pic.isr = {} /\ pic.base = (IF k > 3 THEN 32 ELSE 8)
        /\ keys # <<>> /\ ~muted => KeyLine \in pic.irr
    BY <1>4, <2>3, ChoreFinds
  <2>5. /\ k < 6 => ~interrupts' /\ idt' = "none"
        /\ k >= 6 => idt' # "none"
        /\ pic'.base = (IF k >= 3 THEN 32 ELSE 8)
        /\ pic' \in Pic /\ interrupts' \in BOOLEAN /\ muted' \in BOOLEAN
        /\ idt' \in {"none", "ours"} /\ pic'.isr = {}
        /\ keys # <<>> /\ ~muted' => KeyLine \in pic'.irr
    BY <1>2, <2>2, <2>4 DEF IInv, Types
  <2>6. QED
    BY <1>2, <1>4, <2>3, <2>5, ChoreKeeps
<1>5. CASE CallFrame(Top)
  <2>1. Len(stack) > 1 /\ ticks' \in 0..(TICKS - 1)
    BY <1>2, <1>5, OnTop, FramesDiffer DEF IInv, Types
  <2>2. QED
    BY <1>1, <1>2, <1>3, <1>5, <2>1, QuietKeeps
<1>6. CASE DeviceFrame(Top)
  <2>1. Len(stack) > 1 /\ ticks' \in 0..(TICKS - 1)
    BY <1>2, <1>6, OnTop, FramesDiffer DEF IInv, Types
  <2>2. Top.todo = <<"print", "eoi">>
    BY <1>1, <1>6, WhoRuns DEF IInv, Plain
  <2>3. Tail(Top.todo) = <<"eoi">>
    BY <2>2, DeviceLists
  <2>4. <<"eoi">> \in DeviceTodos /\ <<"eoi">> # <<>> /\ <<"eoi">> # Rebooting
          /\ Top.todo # <<"read">> /\ Top.todo # Rebooting
    BY <2>2 DEF DeviceTodos, Executing, Rebooting
  <2>5. QED
    BY <1>1, <1>2, <1>3, <1>6, <2>1, <2>3, <2>4, QuietKeeps
<1>7. CASE FaultFrame(Top)
  <2>1. Len(stack) > 1 /\ ticks' \in 0..(TICKS - 1)
    BY <1>2, <1>7, OnTop, FramesDiffer DEF IInv, Types
  <2>2. Top.todo = <<"message", "hlt">> \/ Top.todo = <<"message", "cli", "hlt">>
    BY <1>1, <1>7, WhoRuns DEF IInv, Plain
  <2>3. Tail(Top.todo) \in FaultTodos
    BY <2>2, DeviceLists DEF FaultTodos
  <2>4. QED
    BY <1>1, <1>2, <1>3, <1>7, <2>1, <2>3, QuietKeeps
<1>8. QED
  BY <1>4, <1>5, <1>6, <1>7, OnTop

(* The tick of the clock.                                                  *)
LEMMA TickKeeps == IInv /\ Tick => IInv'
<1> SUFFICES ASSUME IInv, Tick PROVE IInv'
  OBVIOUS
<1>1. /\ Running("tick") /\ Continue(<<>>) /\ machine = "running" /\ Top.todo # <<>>
      /\ UNCHANGED <<interrupts, idt, pic, keys, muted, machine>>
  BY DEF Tick, Running
<1>2. DeviceFrame(Top) /\ Top.todo = <<"tick", "eoi">>
  <2>1. "tick" \notin Chores \cup Calls /\ "tick" \notin CallWords
    BY DEF Chores, Calls, CallWords
  <2>2. QED
    BY <1>1, <2>1, OnTop, WhoRuns DEF IInv
<1>3. Len(stack) > 1 /\ Tail(Top.todo) = <<"eoi">>
  BY <1>2, OnTop, FramesDiffer, DeviceLists
<1>4. ticks' \in 0..(TICKS - 1)
  <2>1. ticks \in 0..(TICKS - 1) /\ TICKS \in Nat /\ TICKS > 0
    BY CountsAre DEF IInv, Types
  <2>2. QED
    BY <2>1 DEF Tick
<1>5. <<"eoi">> \in DeviceTodos /\ <<"eoi">> # <<>> /\ <<"eoi">> # Rebooting
        /\ Top.todo # <<"read">> /\ Top.todo # Rebooting
  BY <1>2 DEF DeviceTodos, Executing, Rebooting
<1>6. QED
  BY <1>1, <1>2, <1>3, <1>4, <1>5, QuietKeeps

(* A command returns to its handler.                                       *)
LEMMA ExecuteKeeps == IInv /\ Execute => IInv'
<1> SUFFICES ASSUME IInv, Execute PROVE IInv'
  OBVIOUS
<1>1. /\ Running("execute") /\ Continue(<<>>) /\ machine = "running" /\ Top.todo # <<>>
      /\ UNCHANGED <<interrupts, idt, pic, keys, muted, ticks, machine>>
  BY DEF Execute, Running
<1>2. DeviceFrame(Top) /\ Top.todo = Executing
  <2>1. "execute" \notin Chores \cup Calls /\ "execute" \notin CallWords
    BY DEF Chores, Calls, CallWords
  <2>2. QED
    BY <1>1, <2>1, OnTop, WhoRuns DEF IInv
<1>3. Len(stack) > 1 /\ Tail(Top.todo) = <<"print", "eoi">>
  BY <1>2, OnTop, FramesDiffer, DeviceLists
<1>4. ticks' \in 0..(TICKS - 1)
  BY <1>1 DEF IInv, Types
<1>5. /\ <<"print", "eoi">> \in DeviceTodos /\ <<"print", "eoi">> # <<>>
      /\ <<"print", "eoi">> # Rebooting /\ Top.todo # <<"read">> /\ Top.todo # Rebooting
  BY <1>2 DEF DeviceTodos, Executing, Rebooting
<1>6. QED
  BY <1>1, <1>2, <1>3, <1>4, <1>5, QuietKeeps

(* Interrupts back on, in sys_exit, which is a call.                       *)
LEMMA StiKeeps == IInv /\ Sti => IInv'
<1> SUFFICES ASSUME IInv, Sti PROVE IInv'
  OBVIOUS
<1>1. /\ Running("sti") /\ Continue(<<>>) /\ machine = "running" /\ Top.todo # <<>>
      /\ interrupts' = TRUE /\ UNCHANGED <<idt, pic, keys, muted, ticks, machine>>
  BY DEF Sti, Running
<1>2. CallFrame(Top) /\ ~DeviceFrame(Top) /\ Len(stack) > 1
  <2>1. "sti" \notin Chores \cup Calls
    BY DEF Chores, Calls
  <2>2. ~MainFrame(Top) /\ ~DeviceFrame(Top) /\ ~FaultFrame(Top)
    BY <1>1, <2>1, WhoRuns DEF IInv
  <2>3. QED
    BY <2>2, OnTop
<1>3. idt = "ours"
  BY <1>2, AfterLoading DEF IInv, Types, OnWhereSafe
<1>4. /\ <<>> \in Seq(Words) /\ Tail(Top.todo) = <<>> \o Tail(Top.todo)
      /\ Tail(Top.todo) \in Seq(CallWords)
  BY <1>1, <1>2, OnTop, CallGoesOn
<1>5. Top.todo # <<"read">>
  <2>1. Head(Top.todo) = "sti"
    BY <1>1 DEF Running
  <2>2. QED
    BY <2>1, DeviceHeads
<1>6. /\ keys \in Seq(Kinds) /\ Len(keys) <= MaxKeys /\ pic \in Pic /\ ticks \in 0..(TICKS - 1)
  BY DEF IInv, Types
<1>7. QED
  BY <1>1, <1>2, <1>3, <1>4, <1>5, <1>6, HandlerKeeps

(* The acknowledgement: from a device's handler, which is then done with   *)
(* its line, or from the gate of the system calls, where nothing is in     *)
(* service.                                                                *)
LEMMA PicEoiKeeps == IInv /\ PicEoi => IInv'
<1> SUFFICES ASSUME IInv, PicEoi PROVE IInv'
  OBVIOUS
<1>1. /\ Running("eoi") /\ Continue(<<>>) /\ machine = "running" /\ Top.todo # <<>>
      /\ Head(Top.todo) = "eoi"
      /\ pic' = [pic EXCEPT !.isr = {i \in @ : \E j \in @ : j < i}]
      /\ UNCHANGED <<interrupts, idt, keys, muted, ticks, machine>>
  BY DEF PicEoi, Running
<1>2. (CallFrame(Top) \/ DeviceFrame(Top)) /\ Len(stack) > 1
  <2>1. "eoi" \notin Chores \cup Calls
    BY DEF Chores, Calls
  <2>2. ~MainFrame(Top) /\ ~FaultFrame(Top)
    BY <1>1, <2>1, WhoRuns DEF IInv
  <2>3. QED
    BY <2>2, OnTop
<1>3. /\ DeviceFrame(Top) => Top.todo = <<"eoi">> /\ Tail(Top.todo) = <<>> /\ ~CallFrame(Top)
      /\ CallFrame(Top) => Tail(Top.todo) \in Seq(CallWords) /\ ~DeviceFrame(Top)
  BY <1>1, WhoRuns, DeviceLists, CallGoesOn, FramesDiffer DEF IInv
<1>4. idt = "ours" /\ (interrupts => CallFrame(Top))
  <2>1. ~(DeviceFrame(Top) /\ Top.todo = Rebooting)
    BY <1>1, DeviceHeads
  <2>2. idt # "null" /\ idt # "none" /\ idt \in {"none", "ours", "null"}
    BY <1>2, <2>1, AfterLoading DEF IInv, Types, OnWhereSafe
  <2>3. interrupts => MainFrame(Top) \/ CallFrame(Top)
    BY <2>2 DEF IInv, OnWhereSafe
  <2>4. ~MainFrame(Top)
    BY <1>2, FramesDiffer
  <2>5. QED
    BY <2>2, <2>3, <2>4
<1>5. <<>> \in Seq(Words) /\ Tail(Top.todo) = <<>> \o Tail(Top.todo) /\ <<>> \in DeviceTodos
  BY OnTop DEF DeviceTodos
<1>7. pic' \in Pic /\ pic'.base = pic.base /\ pic'.irr = pic.irr /\ pic'.isr = {}
  <2>1. pic \in Pic
    BY DEF IInv, Types
  <2>2. \A i, j \in pic.isr : ~(j < i)
    <3>1. CASE CallFrame(Top)
      BY <1>1, <3>1, NoneServed
    <3>2. CASE DeviceFrame(Top)
      <4>1. pic.isr = {i \in Lines : Top.vector = 32 + i}
        BY <1>1, <3>2, OneServed
      <4>2. \A i, j \in Lines : 32 + i = 32 + j => ~(j < i)
        BY LinesAre
      <4>3. QED
        BY <4>1, <4>2
    <3>3. QED
      BY <1>2, <3>1, <3>2
  <2>3. {i \in pic.isr : \E j \in pic.isr : j < i} = {}
    BY <2>2
  <2>4. QED
    BY <1>1, <2>1, <2>3 DEF Pic
<1>8. DeviceFrame(Top) \/ pic.isr = {}
  BY <1>1, <1>2, NoneServed
<1>9. Tail(Top.todo) # Rebooting \/ CallFrame(Top)
  <2>1. Rebooting # <<>>
    BY DEF Rebooting
  <2>2. QED
    BY <1>1, <1>2, <1>3, <2>1, DeviceHeads
<1>10. Top.todo # <<"read">>
  BY <1>1, DeviceHeads
<1>11. /\ keys \in Seq(Kinds) /\ Len(keys) <= MaxKeys /\ ticks \in 0..(TICKS - 1)
       /\ interrupts \in BOOLEAN
  BY DEF IInv, Types
<1>12. pic'.isr = (IF DeviceFrame(Top) /\ Tail(Top.todo) = <<>> THEN {} ELSE pic.isr)
  BY <1>3, <1>7, <1>8
<1>13. \/ CallFrame(Top) /\ Tail(Top.todo) \in Seq(CallWords)
       \/ DeviceFrame(Top) /\ Tail(Top.todo) \in DeviceTodos
       \/ FaultFrame(Top) /\ Tail(Top.todo) \in FaultTodos
  BY <1>2, <1>3, <1>5
<1>14. idt' = "null" <=> DeviceFrame(Top) /\ Tail(Top.todo) = Rebooting
  BY <1>1, <1>3, <1>4, <1>9
<1>15. QED
  BY <1>1, <1>2, <1>4, <1>5, <1>7, <1>10, <1>11, <1>12, <1>13, <1>14, HandlerKeeps

(* What a byte makes the handler do.                                       *)
LEMMA PathsAre ==
  ASSUME NEW k \in Kinds
  PROVE  KeyPath(k) \in {<<"eoi">>, <<"print", "eoi">>, Executing}
<1>1. CASE k = "noted"
  BY <1>1 DEF KeyPath, Executing
<1>2. CASE k = "shown"
  BY <1>2 DEF KeyPath, Executing
<1>3. CASE k = "enter"
  BY <1>3 DEF KeyPath, Executing
<1>4. QED
  BY <1>1, <1>2, <1>3 DEF Kinds

(* The handler reads a byte; the keyboard asks again if it has another.    *)
LEMMA ReadKeeps == IInv /\ Read => IInv'
<1> SUFFICES ASSUME IInv, Read PROVE IInv'
  OBVIOUS
<1> DEFINE k == Head(keys)
           t == KeyPath(k)
<1>1. /\ Running("read") /\ keys # <<>> /\ Continue(t) /\ machine = "running" /\ Top.todo # <<>>
      /\ keys' = Tail(keys)
      /\ pic' = IF keys' # <<>> THEN [pic EXCEPT !.irr = @ \cup {KeyLine}] ELSE pic
      /\ UNCHANGED <<interrupts, idt, muted, ticks, machine>>
  BY DEF Read, Running
<1>2. DeviceFrame(Top) /\ Top.todo = <<"read">> /\ Len(stack) > 1 /\ ~CallFrame(Top)
  <2>1. "read" \notin Chores \cup Calls /\ "read" \notin CallWords
    BY DEF Chores, Calls, CallWords
  <2>2. DeviceFrame(Top) /\ Top.todo = <<"read">>
    BY <1>1, <2>1, OnTop, WhoRuns DEF IInv
  <2>3. QED
    BY <2>2, OnTop, FramesDiffer
<1>3. idt = "ours" /\ ~interrupts
  <2>1. Top.todo # Rebooting
    BY <1>2, DeviceHeads
  <2>2. idt # "null" /\ idt # "none" /\ idt \in {"none", "ours", "null"}
    BY <1>2, <2>1, AfterLoading DEF IInv, Types, OnWhereSafe
  <2>3. QED
    BY <1>2, <2>2, FramesDiffer DEF IInv, OnWhereSafe
<1>4. /\ keys \in Seq(Kinds) /\ Len(keys) \in Nat /\ Len(keys) > 0 /\ k = keys[1] /\ k \in Kinds
      /\ keys' \in Seq(Kinds) /\ Len(keys') = Len(keys) - 1 /\ Len(keys') <= MaxKeys
      /\ \A n \in 1..Len(keys') : keys'[n] = keys[n + 1] /\ n + 1 \in 1..Len(keys)
  BY <1>1, CountsAre DEF IInv, Types
<1>6. t \in {<<"eoi">>, <<"print", "eoi">>, Executing}
  BY <1>4, PathsAre
<1>8. t \in DeviceTodos /\ t # <<>> /\ t # Rebooting
  <2>1. <<"eoi">> # Rebooting /\ <<"print", "eoi">> # Rebooting /\ Executing # Rebooting
    BY DeviceHeads
  <2>2. <<"eoi">> # <<>> /\ <<"print", "eoi">> # <<>> /\ Executing # <<>>
    BY DEF Executing
  <2>3. QED
    BY <1>6, <2>1, <2>2 DEF DeviceTodos
<1>9. t \in Seq(Words) /\ t = t \o Tail(Top.todo)
  <2>1. t \in Seq(Words)
    BY <1>8, DeviceLists
  <2>2. Tail(Top.todo) = <<>>
    BY <1>2, DeviceLists
  <2>3. \A S : \A s \in Seq(S) : s = s \o <<>>
    OBVIOUS
  <2>4. t = t \o <<>>
    BY <2>1, <2>3
  <2>5. QED
    BY <2>1, <2>2, <2>4
<1>10. /\ pic' \in Pic /\ pic'.base = pic.base /\ pic'.isr = pic.isr
       /\ keys' # <<>> => KeyLine \in pic'.irr
  <2>1. pic \in Pic /\ KeyLine \in Lines
    BY LinesAre DEF IInv, Types
  <2>2. \A r \in Pic : /\ [r EXCEPT !.irr = @ \cup {KeyLine}] \in Pic
                       /\ [r EXCEPT !.irr = @ \cup {KeyLine}].base = r.base
                       /\ [r EXCEPT !.irr = @ \cup {KeyLine}].isr = r.isr
                       /\ KeyLine \in [r EXCEPT !.irr = @ \cup {KeyLine}].irr
    BY <2>1 DEF Pic
  <2>3. QED
    BY <1>1, <2>1, <2>2
<1>11. ticks' \in 0..(TICKS - 1)
  BY <1>1 DEF IInv, Types
<1>13. pic'.isr = (IF DeviceFrame(Top) /\ t = <<>> THEN {} ELSE pic.isr)
  BY <1>8, <1>10
<1>14. idt' \in {"ours", "null"} /\ ~interrupts' /\ interrupts' \in BOOLEAN /\ idt' # "null"
  BY <1>1, <1>3 DEF IInv, Types
<1>15. keys' # <<>> /\ ~muted =>
         KeyLine \in pic'.irr \/ (keys # <<>> /\ pic'.irr = pic.irr /\ Top.todo # <<"read">>)
  BY <1>10
<1>16. idt' = "null" <=> DeviceFrame(Top) /\ t = Rebooting
  BY <1>8, <1>14
<1>17. Continue(t) /\ machine' = machine /\ muted' = muted
  BY <1>1
<1> HIDE DEF t, k
<1>18. QED
  BY <1>1, <1>2, <1>4, <1>8, <1>9, <1>10, <1>11, <1>13, <1>14, <1>15, <1>16, <1>17,
     HandlerKeeps

(* cmd_reboot: the handler that runs it is the one on top, and will be     *)
(* when it interrupts itself.                                              *)
LEMMA ExecutesOnTop ==
  ASSUME IInv, Running("execute")
  PROVE  /\ DeviceFrame(Top) /\ Top.todo = Executing /\ Len(stack) > 1 /\ ~CallFrame(Top)
         /\ idt = "ours" /\ ~interrupts /\ Done("load_idt")
<1>1. "execute" \notin Chores \cup Calls /\ "execute" \notin CallWords
  BY DEF Chores, Calls, CallWords
<1>2. DeviceFrame(Top) /\ Top.todo = Executing
  BY <1>1, OnTop, WhoRuns DEF IInv
<1>3. Len(stack) > 1 /\ ~CallFrame(Top)
  BY <1>2, OnTop, FramesDiffer
<1>4. Top.todo # Rebooting
  BY <1>2, DeviceHeads
<1>5. idt # "null" /\ idt # "none" /\ idt \in {"none", "ours", "null"} /\ Done("load_idt")
  BY <1>2, <1>3, <1>4, AfterLoading DEF IInv, Types, OnWhereSafe
<1>6. ~interrupts
  BY <1>2, <1>5, FramesDiffer DEF IInv, OnWhereSafe
<1>7. QED
  BY <1>2, <1>3, <1>5, <1>6

(* A command goes on with something else than to return.                   *)
LEMMA InsteadOfReturning ==
  ASSUME Top.todo = Executing, NEW w \in Words
  PROVE  <<w>> \in Seq(Words) /\ <<w, "print", "eoi">> = <<w>> \o Tail(Top.todo)
<1>1. <<w>> \in Seq(Words) /\ <<"print", "eoi">> \in Seq(Words)
  BY WordsAre, ShortLists
<1>2. <<w>> \o <<"print", "eoi">> = <<w, "print", "eoi">>
  <2> DEFINE s  == <<w>>
             u  == <<"print", "eoi">>
             st == s \o u
  <2>1. s \in Seq(Words) /\ u \in Seq(Words) /\ st = s \o u
    BY <1>1
  <2>2. Len(s) = 1 /\ s[1] = w /\ Len(u) = 2 /\ u[1] = "print" /\ u[2] = "eoi"
    OBVIOUS
  <2> HIDE DEF s, u, st
  <2>3. Len(s) = 1 /\ Len(u) = 2 => st = <<s[1], u[1], u[2]>>
    BY <2>1, OneAndTwo
  <2>4. st = <<w, "print", "eoi">>
    BY <2>2, <2>3
  <2>5. QED
    BY <2>4 DEF st, s, u
<1>3. Tail(Top.todo) = <<"print", "eoi">>
  BY DeviceLists
<1>4. QED
  BY <1>1, <1>2, <1>3

(* cmd_reboot takes the table away.                                        *)
LEMMA RebootKeeps == IInv /\ Reboot => IInv'
<1> SUFFICES ASSUME IInv, Reboot PROVE IInv'
  OBVIOUS
<1> DEFINE more == <<"int 0">>
           t    == Rebooting
<1>1. /\ Running("execute") /\ Continue(more) /\ machine = "running" /\ Top.todo # <<>>
      /\ idt' = "null" /\ interrupts' = TRUE /\ UNCHANGED <<pic, keys, muted, ticks, machine>>
  BY DEF Reboot, Running
<1>2. DeviceFrame(Top) /\ Top.todo = Executing /\ Len(stack) > 1 /\ ~CallFrame(Top)
  BY <1>1, ExecutesOnTop
<1>3. t = more \o Tail(Top.todo) /\ more \in Seq(Words)
  <2>1. "int 0" \in Words
    BY WordsAre
  <2>2. QED
    BY <1>2, <2>1, InsteadOfReturning DEF Rebooting
<1>4. t \in DeviceTodos /\ t # <<>> /\ t = Rebooting /\ Top.todo # <<"read">>
  <2>1. Rebooting # <<>>
    BY DEF Rebooting
  <2>2. QED
    BY <1>2, <2>1, DeviceHeads DEF DeviceTodos
<1>5. keys \in Seq(Kinds) /\ Len(keys) <= MaxKeys /\ pic \in Pic /\ ticks \in 0..(TICKS - 1)
  BY DEF IInv, Types
<1> HIDE DEF more, t
<1>6. pic'.isr = (IF DeviceFrame(Top) /\ t = <<>> THEN {} ELSE pic.isr)
  BY <1>1, <1>4
<1>7. QED
  BY <1>1, <1>2, <1>3, <1>4, <1>5, <1>6, HandlerKeeps

(* A command never returns.                                                *)
LEMMA HangKeeps == IInv /\ Hang => IInv'
<1> SUFFICES ASSUME IInv, Hang PROVE IInv'
  OBVIOUS
<1> DEFINE more == <<"loop">>
           t    == Hanging
<1>1. /\ Running("execute") /\ Continue(more) /\ machine = "running" /\ Top.todo # <<>>
      /\ UNCHANGED <<interrupts, idt, pic, keys, muted, ticks, machine>>
  BY DEF Hang, Running
<1>2. /\ DeviceFrame(Top) /\ Top.todo = Executing /\ Len(stack) > 1 /\ ~CallFrame(Top)
      /\ idt = "ours" /\ ~interrupts
  BY <1>1, ExecutesOnTop
<1>3. t = more \o Tail(Top.todo) /\ more \in Seq(Words)
  <2>1. "loop" \in Words
    BY WordsAre
  <2>2. QED
    BY <1>2, <2>1, InsteadOfReturning DEF Hanging
<1>4. t \in DeviceTodos /\ t # <<>> /\ t # Rebooting /\ Top.todo # <<"read">>
  <2>1. Hanging # <<>>
    BY DEF Hanging
  <2>2. QED
    BY <1>2, <2>1, DeviceHeads DEF DeviceTodos
<1>5. /\ keys \in Seq(Kinds) /\ Len(keys) <= MaxKeys /\ pic \in Pic /\ ticks \in 0..(TICKS - 1)
      /\ interrupts \in BOOLEAN
  BY DEF IInv, Types
<1> HIDE DEF more, t
<1>6. pic'.isr = (IF DeviceFrame(Top) /\ t = <<>> THEN {} ELSE pic.isr)
  BY <1>1, <1>4
<1>7. /\ idt' = "ours" /\ idt' # "null" /\ ~interrupts' /\ interrupts' \in BOOLEAN
      /\ pic'.base = pic.base /\ pic' \in Pic /\ pic'.irr = pic.irr /\ idt' \in {"ours", "null"}
      /\ keys' = keys /\ muted' = muted /\ machine' = machine /\ ticks' \in 0..(TICKS - 1)
  BY <1>1, <1>2, <1>5
<1>8. /\ idt' = "null" <=> DeviceFrame(Top) /\ t = Rebooting
      /\ interrupts' /\ idt' # "null" => CallFrame(Top)
      /\ keys' # <<>> /\ ~muted =>
           KeyLine \in pic'.irr \/ (keys # <<>> /\ pic'.irr = pic.irr /\ Top.todo # <<"read">>)
  BY <1>4, <1>7, Zenon
<1>9. /\ DeviceFrame(Top) /\ t \in DeviceTodos /\ Len(stack) > 1 /\ Top.todo # <<>>
      /\ more \in Seq(Words) /\ t = more \o Tail(Top.todo) /\ Continue(more)
      /\ machine = "running" /\ keys' \in Seq(Kinds) /\ Len(keys') <= MaxKeys
  BY <1>1, <1>2, <1>3, <1>4, <1>5
<1>10. /\ pic'.base = pic.base /\ pic' \in Pic /\ idt' \in {"ours", "null"} /\ interrupts' \in BOOLEAN
       /\ muted' = muted /\ machine' = machine /\ ticks' \in 0..(TICKS - 1)
  BY <1>7
<1>11. QED
  BY <1>6, <1>8, <1>9, <1>10, HandlerKeeps

(* The frames of the exceptions and of the devices.                        *)
LEMMA NewFrames ==
  /\ \A v \in 0..21 :
       /\ \A s \in BOOLEAN : [vector |-> v, todo |-> Handler(v), saved |-> s] \in Frame
       /\ Handler(v) \in {<<"message", "hlt">>, <<"message", "cli", "hlt">>}
  /\ \A i \in 0..7 : /\ Handler(32 + i) \in {<<"tick", "eoi">>, <<"read">>, <<"eoi">>}
                     /\ i = 1 <=> Handler(32 + i) = <<"read">>
                     /\ \A s \in BOOLEAN :
                          [vector |-> 32 + i, todo |-> Handler(32 + i), saved |-> s] \in Frame
<1>1. ASSUME NEW v \in 0..21
      PROVE  Handler(v) \in {<<"message", "hlt">>, <<"message", "cli", "hlt">>} /\ v \in 0..None
  <2>1. v = 13 \/ (v < 32 /\ v # 13)
    OBVIOUS
  <2>2. v # 32 /\ v # 33 /\ v \in 0..None
    BY DEF None
  <2>3. QED
    BY <2>1, <2>2 DEF Handler
<1>2. \A v \in 0..None : \A t \in Seq(Words) : \A s \in BOOLEAN :
        [vector |-> v, todo |-> t, saved |-> s] \in Frame
  BY DEF Frame
<1>3. /\ <<"message", "hlt">> \in Seq(Words) /\ <<"tick", "eoi">> \in Seq(Words)
      /\ <<"message", "cli", "hlt">> \in Seq(Words)
      /\ <<"read">> \in Seq(Words) /\ <<"eoi">> \in Seq(Words)
  BY DeviceLists DEF DeviceTodos, FaultTodos
<1>4. ASSUME NEW i \in 0..7
      PROVE  /\ Handler(32 + i) \in {<<"tick", "eoi">>, <<"read">>, <<"eoi">>}
             /\ i = 1 <=> Handler(32 + i) = <<"read">>
             /\ 32 + i \in 0..None
  <2>1. i = 0 \/ i = 1 \/ i > 1
    OBVIOUS
  <2>2. ~(32 + i < 32) /\ 32 + i # 13 /\ (32 + i = 32 <=> i = 0) /\ (32 + i = 33 <=> i = 1) /\ 32 + i \in 0..None
    BY DEF None
  <2>3. <<"tick", "eoi">> # <<"read">> /\ <<"eoi">> # <<"read">>
    OBVIOUS
  <2>4. QED
    BY <2>1, <2>2, <2>3 DEF Handler
<1>5. QED
  BY <1>1, <1>2, <1>3, <1>4, ZenonT(40)

(* What may fault runs with the table loaded.                              *)
LEMMA FaultsLoaded ==
  ASSUME IInv, NEW w \in Faulting, Running(w)
  PROVE  /\ idt = "ours" /\ Done("load_idt")
         /\ MainFrame(Top) \/ CallFrame(Top) \/ DeviceFrame(Top)
<1>1. Top.todo # <<>> /\ Head(Top.todo) = w
  BY DEF Running
<1>2. MainFrame(Top) \/ CallFrame(Top) \/ DeviceFrame(Top)
  <2>1. w \notin {"message", "cli", "hlt"}
    BY DEF Faulting
  <2>2. ~FaultFrame(Top)
    BY <2>1, WhoRuns DEF IInv
  <2>3. QED
    BY <2>2, OnTop
<1>3. idt # "null"
  <2>1. ~(DeviceFrame(Top) /\ Top.todo = Rebooting)
    BY <1>1, DeviceHeads DEF Faulting
  <2>2. QED
    BY <2>1 DEF IInv, OnWhereSafe
<1>4. Done("load_idt")
  <2>1. CASE MainFrame(Top)
    <3>1. w \in Chores \cup Calls
      BY <2>1, WhoRuns DEF IInv
    <3>2. Top = stack[1] /\ Top \in Frame /\ Top.todo \in Seq(Words)
      BY <2>1, OnTop, WhatRuns DEF IInv
    <3>3. PICK n \in 0..15 : MainFrom(Top.todo, n)
      BY <3>2 DEF IInv, MainInOrder
    <3>4. CASE w \in Calls
      <4>1. ~Has(Top.todo, Main[6])
        BY <1>1, <3>2, <3>3, <3>4, NextCall
      <4>2. QED
        BY <3>2, <4>1, MainWords DEF Done
    <3>5. CASE w \notin Calls
      <4>1. w = "heap_init" \/ w = "init_filesystem" \/ w = "user pages"
        BY <3>1, <3>5 DEF Faulting, Chores, Calls
      <4>2. PICK k \in 7..15 : w = Main[k]
        <5>1. w = Main[10] \/ w = Main[12] \/ w = Main[14]
          BY <4>1, MainWords, Zenon
        <5>2. 10 \in 7..15 /\ 12 \in 7..15 /\ 14 \in 7..15
          OBVIOUS
        <5>3. QED
          BY <5>1, <5>2, Zenon
      <4>3. k \in 1..15 /\ ~(6 >= k)
        OBVIOUS
      <4>4. \A m \in 1..15 : Has(Top.todo, Main[m]) <=> m >= k
        BY <1>1, <3>2, <3>3, <4>2, <4>3, NextChore
      <4>5. ~Has(Top.todo, Main[6])
        BY <4>3, <4>4
      <4>6. QED
        BY <3>2, <4>5, MainWords DEF Done
    <3>6. QED
      BY <3>4, <3>5
  <2>2. CASE ~MainFrame(Top)
    BY <2>2, OnTop, AfterLoading
  <2>3. QED
    BY <2>1, <2>2
<1>5. QED
  BY <1>2, <1>3, <1>4 DEF IInv, Types, Prepared

(* An exception: it is reported by a handler over what raised it.          *)
LEMMA FaultKeeps == IInv /\ Fault => IInv'
<1> SUFFICES ASSUME IInv, Fault PROVE IInv'
  OBVIOUS
<1>1. PICK w \in Faulting : Running(w)
  BY DEF Fault
<1>2. PICK v \in Exceptions : Vector(v, Handler(v))
  BY DEF Fault
<1>3. machine = "running" /\ Head(Top.todo) = w /\ UNCHANGED <<pic, keys, muted, ticks>>
  BY <1>1 DEF Fault, Running
<1>4. /\ idt = "ours" /\ Done("load_idt") /\ v \in 0..21
      /\ MainFrame(Top) \/ CallFrame(Top) \/ DeviceFrame(Top)
  BY <1>1, FaultsLoaded, ExceptionsAre
<1>5. Accepted
  BY <1>4, IsAccepted
<1> DEFINE f == [vector |-> v, todo |-> Handler(v), saved |-> interrupts]
<1>6. stack' = Append(stack, f) /\ interrupts' = FALSE /\ UNCHANGED <<idt, machine>>
  BY <1>2, <1>5 DEF Vector, Begin, Gate
<1>7. /\ f \in Frame /\ f.vector = v
      /\ f.todo \in {<<"message", "hlt">>, <<"message", "cli", "hlt">>}
  BY <1>4, NewFrames DEF IInv, Types
<1> HIDE DEF f
<1>8. FaultFrame(f) /\ f.vector \in Exceptions /\ ~DeviceFrame(f)
  BY <1>4, <1>7, FramesDiffer DEF FaultFrame, FaultTodos
<1>9. Over(Top, f)
  BY <1>3, <1>4, <1>8 DEF Over
<1>10. f.todo # Rebooting /\ f.todo # <<>>
  <2>1. Head(f.todo) = "message" /\ Head(Rebooting) = "int 0"
    BY <1>7, DeviceHeads
  <2>2. <<"message", "hlt">> # <<>> /\ <<"message", "cli", "hlt">> # <<>>
    OBVIOUS
  <2>3. QED
    BY <1>7, <2>1, <2>2
<1>11. pic \in Pic
  BY DEF IInv, Types
<1>12. QED
  BY <1>3, <1>4, <1>6, <1>7, <1>8, <1>9, <1>10, <1>11, BeginKeeps

(* Interrupts off, before the halt: they were.                             *)
LEMMA CliKeeps == IInv /\ Cli => IInv'
<1> SUFFICES ASSUME IInv, Cli PROVE IInv'
  OBVIOUS
<1>1. /\ Running("cli") /\ Continue(<<>>) /\ machine = "running" /\ Top.todo # <<>>
      /\ interrupts' = FALSE /\ UNCHANGED <<idt, pic, keys, muted, ticks, machine>>
  BY DEF Cli, Running
<1>2. FaultFrame(Top) /\ Top.todo = <<"cli", "hlt">>
  <2>1. "cli" \notin Chores \cup Calls /\ "cli" \notin CallWords
    BY DEF Chores, Calls, CallWords
  <2>2. QED
    BY <1>1, <2>1, OnTop, WhoRuns DEF IInv
<1>3. Len(stack) > 1 /\ ~MainFrame(Top) /\ ~CallFrame(Top) /\ ~DeviceFrame(Top)
  BY <1>2, OnTop, FramesDiffer
<1>4. interrupts' = interrupts
  <2>1. ~interrupts /\ interrupts \in BOOLEAN
    BY <1>3 DEF IInv, Types, OnWhereSafe
  <2>2. QED
    BY <1>1, <2>1
<1>5. Tail(Top.todo) \in FaultTodos /\ ticks' \in 0..(TICKS - 1)
  BY <1>1, <1>2, DeviceLists DEF FaultTodos, IInv, Types
<1>6. QED
  BY <1>1, <1>2, <1>3, <1>4, <1>5, QuietKeeps

(* cmd_reboot interrupts itself, with no table: the machine is reset.      *)
LEMMA Int0Keeps == IInv /\ Int0 => IInv'
<1> SUFFICES ASSUME IInv, Int0 PROVE IInv'
  OBVIOUS
<1>1. /\ Running("int 0") /\ Vector(0, Handler(0)) /\ UNCHANGED <<pic, keys, muted, ticks>>
  BY DEF Int0
<1>2. DeviceFrame(Top) /\ Top.todo = Rebooting
  <2>1. "int 0" \notin Chores \cup Calls /\ "int 0" \notin CallWords
    BY DEF Chores, Calls, CallWords
  <2>2. QED
    BY <1>1, <2>1, OnTop, WhoRuns DEF IInv
<1>3. idt = "null"
  BY <1>2 DEF IInv, OnWhereSafe
<1>4. machine' = "reset" /\ UNCHANGED <<stack, interrupts, idt>>
  BY <1>1, <1>3 DEF Vector, Accepted, cpu
<1>5. pic' \in Pic /\ pic'.base = pic.base
  BY <1>1 DEF IInv, Types
<1>6. QED
  BY <1>1, <1>3, <1>4, <1>5, ResetKeeps

(* The return from an interrupt or a call: nothing was left to do.         *)
LEMMA ReturnKeeps == IInv /\ Return => IInv'
<1> SUFFICES ASSUME IInv, Return PROVE IInv'
  OBVIOUS
<1>1. /\ machine = "running" /\ Len(stack) > 1 /\ Top.todo = <<>> /\ stack' = Front(stack)
      /\ interrupts' = Top.saved /\ UNCHANGED <<idt, pic, keys, muted, ticks, machine>>
  BY DEF Return
<1>2. /\ stack' \in Seq(Frame) /\ Len(stack') = Len(stack) - 1 /\ StackShape' /\ MainInOrder'
      /\ \A n \in 1..(Len(stack) - 1) : stack'[n] = stack[n]
      /\ Top' = stack[Len(stack) - 1]
      /\ \A x : Done(x)' <=> Done(x)
  BY <1>1, GoesBack DEF IInv
<1>3. /\ Len(stack) \in Nat /\ Top = stack[Len(stack)] /\ Top \in Frame
      /\ Over(stack[Len(stack) - 1], Top)
  BY <1>1, WhatRuns DEF IInv
<1>4. MainFrame(Top') \/ CallFrame(Top')
  <2>1. ~FaultFrame(Top)
    BY <1>1 DEF FaultFrame, FaultTodos
  <2>2. QED
    BY <1>2, <1>3, <2>1 DEF Over
<1>5. idt # "null" /\ idt # "none" /\ Done("load_idt") /\ Done("icw2") /\ pic.base = 32
  <2>1. Top.todo # Rebooting
    BY <1>1 DEF Rebooting
  <2>2. QED
    BY <1>1, <2>1, AfterLoading DEF IInv, OnWhereSafe
<1>6. /\ \A n \in 2..Len(stack') : n \in 2..Len(stack) /\ stack'[n] = stack[n]
      /\ \A n \in 2..Len(stack) : n \in 2..Len(stack') \/ stack[n].todo = <<>>
  BY <1>1, <1>2, <1>3
<1>7. Types'
  <2>1. interrupts' \in BOOLEAN
    BY <1>1, <1>3 DEF Frame
  <2>2. QED
    BY <1>1, <1>2, <2>1 DEF IInv, Types
<1>8. Prepared'
  <2>1. Done("load_idt")' /\ idt' # "none"
    BY <1>1, <1>2, <1>5
  <2>2. pic'.base = IF Done("icw2")' THEN 32 ELSE 8
    BY <1>1, <1>2, <1>5
  <2>3. QED
    BY <2>1, <2>2, Zenon DEF Prepared
<1>9. OnWhereSafe'
  <2>1. idt' # "null" /\ ~DeviceFrame(Top')
    BY <1>1, <1>4, <1>5, FramesDiffer
  <2>2. QED
    BY <1>4, <2>1 DEF OnWhereSafe, MainFrame, CallFrame, DeviceFrame
<1>10. Owed'
  BY <1>1, <1>6 DEF IInv, Owed
<1>11. Asked'
  BY <1>1, <1>6 DEF IInv, Asked
<1>12. ResetOnlyWhenAsked'
  BY <1>1 DEF IInv, ResetOnlyWhenAsked
<1>13. QED
  BY <1>2, <1>7, <1>8, <1>9, <1>10, <1>11, <1>12 DEF IInv

(* A device is let in where kernel_main or a call runs.                    *)
LEMMA LetIn ==
  ASSUME IInv, machine = "running", interrupts, idt # "null", NEW i \in 0..7,
         Vector(pic.base + i, Handler(pic.base + i)), UNCHANGED <<keys, muted, ticks>>,
         pic' \in Pic, pic'.base = pic.base, pic'.isr = {j \in Lines : 32 + i = 32 + j},
         KeyLine \in pic'.irr \/ KeyLine \notin pic.irr \/ i = KeyLine
  PROVE  IInv'
<1> DEFINE f == [vector |-> 32 + i, todo |-> Handler(32 + i), saved |-> interrupts]
<1>1. Done("load_idt") /\ idt = "ours" /\ pic.base = 32 /\ Accepted
  BY AfterLoading, IsAccepted DEF IInv, Types
<1>2. stack' = Append(stack, f) /\ interrupts' = FALSE /\ UNCHANGED <<idt, machine>>
  BY <1>1 DEF Vector, Begin, Gate
<1>3. /\ f \in Frame /\ f.vector = 32 + i /\ f.todo = Handler(32 + i)
      /\ f.todo \in {<<"tick", "eoi">>, <<"read">>, <<"eoi">>}
      /\ i = 1 <=> f.todo = <<"read">>
  BY NewFrames DEF IInv, Types
<1> HIDE DEF f
<1>4. DeviceFrame(f) /\ ~FaultFrame(f)
  <2>1. f.vector \in 32..39 /\ f.todo \in DeviceTodos
    BY <1>3 DEF DeviceTodos
  <2>2. QED
    BY <2>1, FramesDiffer DEF DeviceFrame
<1>5. Over(Top, f)
  <2>1. MainFrame(Top) \/ CallFrame(Top)
    BY DEF IInv, OnWhereSafe
  <2>2. QED
    BY <1>4, <2>1 DEF Over
<1>6. f.todo # Rebooting /\ f.todo # <<>>
  <2>1. Head(f.todo) \in {"tick", "read", "eoi"} /\ Head(Rebooting) = "int 0"
    BY <1>3, DeviceHeads
  <2>2. <<"tick", "eoi">> # <<>> /\ <<"read">> # <<>> /\ <<"eoi">> # <<>>
    OBVIOUS
  <2>3. QED
    BY <1>3, <2>1, <2>2
<1>7. pic'.isr = {j \in Lines : f.vector = 32 + j}
  BY <1>3
<1>8. KeyLine \in pic'.irr \/ KeyLine \notin pic.irr \/ (f.vector = 33 /\ f.todo = <<"read">>)
  BY <1>3 DEF KeyLine
<1>9. QED
  BY <1>1, <1>2, <1>3, <1>4, <1>5, <1>6, <1>7, <1>8, BeginKeeps

(* An interrupt is taken: a handler begins, or the machine is reset.       *)
LEMMA DeliverKeeps == ASSUME IInv, NEW i \in Lines, Deliver(i) PROVE IInv'
<1>1. /\ machine = "running" /\ interrupts /\ Vector(pic.base + i, Handler(pic.base + i))
      /\ pic' = [pic EXCEPT !.irr = @ \ {i}, !.isr = @ \cup {i}]
      /\ UNCHANGED <<keys, muted, ticks>>
  BY DEF Deliver
<1>2. /\ pic' \in Pic /\ pic'.base = pic.base /\ pic'.isr = pic.isr \cup {i}
      /\ pic'.irr = pic.irr \ {i}
  <2>1. \A r \in Pic :
          /\ [r EXCEPT !.irr = @ \ {i}, !.isr = @ \cup {i}] \in Pic
          /\ [r EXCEPT !.irr = @ \ {i}, !.isr = @ \cup {i}].base = r.base
          /\ [r EXCEPT !.irr = @ \ {i}, !.isr = @ \cup {i}].isr = r.isr \cup {i}
          /\ [r EXCEPT !.irr = @ \ {i}, !.isr = @ \cup {i}].irr = r.irr \ {i}
    BY DEF Pic
  <2>2. QED
    BY <1>1, <2>1 DEF IInv, Types
<1>3. CASE idt = "null"
  <2>1. machine' = "reset" /\ UNCHANGED <<stack, interrupts, idt>>
    BY <1>1, <1>3 DEF Vector, Accepted, cpu
  <2>2. QED
    BY <1>1, <1>2, <1>3, <2>1, ResetKeeps
<1>4. CASE idt # "null"
  <2>1. pic.isr = {}
    BY <1>1, <1>4, NoneServed DEF IInv, OnWhereSafe
  <2>2. i \in 0..7 /\ \A j \in Lines : 32 + i = 32 + j <=> i = j
    BY LinesAre
  <2>3. pic'.isr = {j \in Lines : 32 + i = 32 + j}
    BY <1>2, <2>1, <2>2
  <2>4. KeyLine \in pic'.irr \/ KeyLine \notin pic.irr \/ i = KeyLine
    BY <1>2
  <2>5. QED
    BY <1>1, <1>2, <1>4, <2>2, <2>3, <2>4, LetIn
<1>5. QED
  BY <1>3, <1>4

(* The request that nobody made is on a line that is never in service.     *)
LEMMA SpuriousKeeps == IInv /\ Spurious => IInv'
<1> SUFFICES ASSUME IInv, Spurious PROVE IInv'
  OBVIOUS
<1>1. /\ machine = "running" /\ interrupts /\ pic.isr = {}
      /\ Vector(pic.base + 7, Handler(pic.base + 7)) /\ UNCHANGED <<pic, keys, muted, ticks>>
  BY DEF Spurious
<1>2. pic' \in Pic /\ pic'.base = pic.base
  BY <1>1 DEF IInv, Types
<1>3. CASE idt = "null"
  <2>1. machine' = "reset" /\ UNCHANGED <<stack, interrupts, idt>>
    BY <1>1, <1>3 DEF Vector, Accepted, cpu
  <2>2. QED
    BY <1>1, <1>2, <1>3, <2>1, ResetKeeps
<1>4. CASE idt # "null"
  <2>1. \A j \in Lines : 32 + 7 # 32 + j
    BY LinesAre
  <2>2. pic'.isr = {j \in Lines : 32 + 7 = 32 + j} /\ 7 \in 0..7
    BY <1>1, <2>1
  <2>3. QED
    BY <1>1, <1>2, <1>4, <2>2, LetIn
<1>5. QED
  BY <1>3, <1>4

(* A device asks, or a key arrives: what runs goes on.                     *)
LEMMA AskingKeeps ==
  ASSUME IInv, UNCHANGED <<stack, interrupts, idt, muted, ticks, machine>>,
         pic' \in Pic, pic'.base = pic.base, pic'.isr = pic.isr,
         keys' \in Seq(Kinds), Len(keys') <= MaxKeys,
         KeyLine \in pic'.irr \/ (pic'.irr = pic.irr /\ (keys' = <<>> \/ keys # <<>>))
           \/ (keys' = keys /\ pic.irr \subseteq pic'.irr)
  PROVE  IInv'
<1>1. \A x : Done(x)' <=> Done(x)
  BY DEF Done
<1>2. Types' /\ StackShape' /\ MainInOrder'
  BY DEF IInv, Types, StackShape, MainInOrder
<1>3. OnWhereSafe' /\ ResetOnlyWhenAsked'
  BY DEF IInv, OnWhereSafe, Top, ResetOnlyWhenAsked
<1>4. Owed'
  BY DEF IInv, Owed
<1>5. Asked'
  BY DEF IInv, Asked
<1>6. Prepared'
  <2>1. /\ ~Done("load_idt")' => ~interrupts' /\ idt' = "none" /\ Len(stack') = 1 /\ pic'.isr = {}
        /\ Done("load_idt")' => idt' # "none"
    BY <1>1 DEF IInv, Prepared
  <2>2. pic'.base = IF Done("icw2")' THEN 32 ELSE 8
    BY <1>1 DEF IInv, Prepared
  <2>3. QED
    BY <2>1, <2>2, Zenon DEF Prepared
<1>7. QED
  BY <1>2, <1>3, <1>4, <1>5, <1>6 DEF IInv

(* A line rises.                                                           *)
LEMMA RaiseKeeps == ASSUME IInv, NEW i \in Lines, Raise(i) PROVE IInv'
<1>1. pic' = [pic EXCEPT !.irr = @ \cup {i}]
        /\ UNCHANGED <<stack, interrupts, idt, keys, muted, ticks, machine>>
  BY DEF Raise, cpu
<1>2. pic' \in Pic /\ pic'.base = pic.base /\ pic'.isr = pic.isr /\ pic.irr \subseteq pic'.irr
  BY <1>1 DEF IInv, Types, Pic
<1>3. keys' \in Seq(Kinds) /\ Len(keys') <= MaxKeys
  BY <1>1 DEF IInv, Types
<1>4. QED
  BY <1>1, <1>2, <1>3, AskingKeeps

(* A byte comes to the keyboard, which asks if it was empty.               *)
LEMMA KeyArrivesKeeps == ASSUME IInv, NEW k \in Kinds, KeyArrives(k) PROVE IInv'
<1>1. /\ machine = "running" /\ Len(keys) < MaxKeys
      /\ keys' = Append(keys, k)
      /\ pic' = IF keys = <<>> THEN [pic EXCEPT !.irr = @ \cup {KeyLine}] ELSE pic
      /\ UNCHANGED <<stack, interrupts, idt, muted, ticks, machine>>
  BY DEF KeyArrives, cpu
<1>2. /\ pic' \in Pic /\ pic'.base = pic.base /\ pic'.isr = pic.isr
      /\ keys = <<>> => KeyLine \in pic'.irr
      /\ keys # <<>> => pic' = pic
  <2>1. pic \in Pic /\ KeyLine \in Lines
    BY LinesAre DEF IInv, Types
  <2>2. \A r \in Pic : /\ [r EXCEPT !.irr = @ \cup {KeyLine}] \in Pic
                       /\ [r EXCEPT !.irr = @ \cup {KeyLine}].base = r.base
                       /\ [r EXCEPT !.irr = @ \cup {KeyLine}].isr = r.isr
                       /\ KeyLine \in [r EXCEPT !.irr = @ \cup {KeyLine}].irr
    BY <2>1 DEF Pic
  <2>3. QED
    BY <1>1, <2>1, <2>2
<1>3. keys \in Seq(Kinds) /\ MaxKeys \in Nat
  BY CountsAre DEF IInv, Types
<1>4. /\ keys' \in Seq(Kinds) /\ Len(keys') = Len(keys) + 1 /\ Len(keys') <= MaxKeys
      /\ \A n \in 1..Len(keys) : keys'[n] = keys[n]
      /\ keys'[Len(keys) + 1] = k
  BY <1>1, <1>3
<1>6. KeyLine \in pic'.irr \/ (pic'.irr = pic.irr /\ keys # <<>>)
  BY <1>2
<1>7. QED
  BY <1>1, <1>2, <1>4, <1>6, AskingKeeps

(* The program in ring 3 makes a call: the kernel goes on over it.         *)
LEMMA CallKeeps ==
  ASSUME IInv, NEW call \in Calls, Running(call), NEW f \in Frame, CallFrame(f),
         stack' = Append([stack EXCEPT ![1].todo = Tail(@)], f),
         interrupts' = FALSE, UNCHANGED <<idt, pic, keys, muted, ticks, machine>>
  PROVE  IInv'
<1>1. machine = "running" /\ Top.todo # <<>> /\ Head(Top.todo) = call
  BY DEF Running
<1>2. MainFrame(Top) /\ Len(stack) = 1 /\ Top = stack[1] /\ Top \in Frame
  <2>1. /\ call \notin CallWords
        /\ call \notin {"eoi", "print", "tick", "read", "execute", "loop", "int 0", "message", "cli", "hlt"}
    BY DEF Calls, CallWords
  <2>2. MainFrame(Top)
    BY <2>1, OnTop, WhoRuns DEF IInv
  <2>3. QED
    BY <2>2, OnTop, WhatRuns DEF IInv
<1>3. Top.todo \in Seq(Words) /\ Tail(Top.todo) \in Seq(Words)
  BY <1>1, <1>2 DEF Frame
<1>4. PICK done \in 0..15 : MainFrom(Top.todo, done)
  BY <1>2 DEF IInv, MainInOrder
<1>5. /\ MainFrom(Tail(Top.todo), 15)
      /\ \A m \in 1..15 : ~Has(Top.todo, Main[m]) /\ ~Has(Tail(Top.todo), Main[m])
  BY <1>1, <1>3, <1>4, NextCall
<1> DEFINE moved == [Top EXCEPT !.todo = Tail(@)]
<1>6. moved \in Frame /\ moved.vector = Top.vector /\ moved.todo = Tail(Top.todo)
  BY <1>2, <1>3 DEF Frame
<1>7. [stack EXCEPT ![1].todo = Tail(@)] = [stack EXCEPT ![1] = moved]
  BY <1>2
<1> HIDE DEF moved
<1>8. /\ stack' \in Seq(Frame) /\ Len(stack') = 2 /\ stack'[1] = moved /\ stack'[2] = f
  <2>1. stack \in Seq(Frame)
    BY DEF IInv, Types
  <2>2. ASSUME NEW st, st = [stack EXCEPT ![1] = moved]
        PROVE  st \in Seq(Frame) /\ Len(st) = 1 /\ st[1] = moved
    BY <1>2, <1>6, <2>1, <2>2
  <2>3. ASSUME NEW st \in Seq(Frame)
        PROVE  /\ Append(st, f) \in Seq(Frame) /\ Len(Append(st, f)) = Len(st) + 1
               /\ Append(st, f)[Len(st) + 1] = f
               /\ \A n \in 1..Len(st) : Append(st, f)[n] = st[n]
    BY OneMore
  <2>4. PICK st : st = [stack EXCEPT ![1] = moved]
    OBVIOUS
  <2>5. stack' = Append(st, f) /\ st \in Seq(Frame) /\ Len(st) = 1 /\ st[1] = moved
    BY <1>7, <2>2, <2>4
  <2>6. /\ stack' \in Seq(Frame) /\ Len(stack') = Len(st) + 1 /\ stack'[Len(st) + 1] = f
        /\ \A n \in 1..Len(st) : stack'[n] = st[n]
    BY <2>3, <2>5, Zenon
  <2>7. QED
    BY <2>5, <2>6
<1>9. Top' = f /\ \A n \in 2..Len(stack') : n = 2
  BY <1>8 DEF Top
<1>10. Done("load_idt") /\ Done("load_idt")' /\ Done("icw2") /\ Done("icw2")'
  <2>1. \A m \in 1..15 : ~Has(stack[1].todo, Main[m]) /\ ~Has(stack'[1].todo, Main[m])
    BY <1>2, <1>5, <1>6, <1>8
  <2>2. Main[6] = "load_idt" /\ Main[3] = "icw2"
    BY MainWords
  <2>3. QED
    BY <2>1, <2>2, SMTT(30) DEF Done
<1>11. StackShape'
  <2>1. MainFrame(stack'[1])
    BY <1>2, <1>6, <1>8 DEF MainFrame
  <2>2. ASSUME NEW n \in 2..Len(stack')
        PROVE  Over(stack'[n - 1], stack'[n])
    <3>1. n = 2 /\ n - 1 = 1
      BY <1>9
    <3>2. Over(stack'[1], stack'[2])
      BY <1>8, <2>1, Zenon DEF Over
    <3>3. QED
      BY <3>1, <3>2
  <2>3. Len(stack') > 0
    BY <1>8
  <2>4. QED
    BY <2>1, <2>2, <2>3 DEF StackShape, MainFrame
<1>12. MainInOrder'
  <2>1. stack'[1].todo = Tail(Top.todo)
    BY <1>6, <1>8, Zenon
  <2>2. MainFrom(stack'[1].todo, 15)
    BY <1>5, <2>1, Zenon
  <2>3. 15 \in 0..15
    OBVIOUS
  <2>4. QED
    BY <2>2, <2>3 DEF MainInOrder, MainFrom
<1>13. Types'
  BY <1>8 DEF IInv, Types
<1>14. idt # "null" /\ idt # "none"
  BY <1>2, <1>10, FramesDiffer DEF IInv, OnWhereSafe, Prepared
<1>15. Prepared'
  <2>1. pic'.base = IF Done("icw2")' THEN 32 ELSE 8
    BY <1>10 DEF IInv, Prepared
  <2>2. QED
    BY <1>10, <1>14, <2>1, Zenon DEF Prepared
<1>16. OnWhereSafe'
  <2>1. ~DeviceFrame(Top')
    BY <1>9, FramesDiffer
  <2>2. QED
    BY <1>14, <2>1 DEF OnWhereSafe, DeviceFrame
<1>17. Owed'
  <2>1. pic.isr = {}
    BY <1>1, <1>2, NoneServed
  <2>2. \A i \in Lines : f.vector # 32 + i
    <3>1. f.vector \notin 32..39
      BY DEF CallFrame, SYSCALL
    <3>2. QED
      BY <3>1, LinesAre, SMTT(30)
  <2>3. QED
    BY <1>8, <1>9, <2>1, <2>2 DEF Owed
<1>18. Asked'
  <2>1. ~\E n \in 2..Len(stack) : stack[n].vector = 33 /\ stack[n].todo = <<"read">>
    BY <1>2
  <2>2. QED
    BY <1>1, <2>1 DEF IInv, Asked
<1>19. ResetOnlyWhenAsked'
  BY <1>1 DEF ResetOnlyWhenAsked
<1>20. QED
  BY <1>11, <1>12, <1>13, <1>15, <1>16, <1>17, <1>18, <1>19 DEF IInv

(* What handle_syscall has to do, with and without the end of the gate.    *)
LEMMA SyscallWords ==
  ASSUME NEW call
  PROVE  /\ HandleSyscall(call) \in Seq(CallWords)
         /\ HandleSyscall(call) \o Handler(128) \in Seq(CallWords)
<1>1. /\ <<"print", "print_prompt", "sti", "hlt">> \in Seq(CallWords)
      /\ <<"write">> \in Seq(CallWords) /\ <<"eoi">> \in Seq(CallWords)
  BY DEF CallWords
<1>2. Handler(128) = <<"eoi">>
  BY DEF Handler
<1>3. HandleSyscall(call) \in Seq(CallWords)
  BY <1>1 DEF HandleSyscall
<1>4. HandleSyscall(call) \o <<"eoi">> \in Seq(CallWords)
  BY <1>1, <1>3
<1>5. QED
  BY <1>2, <1>3, <1>4

(* A system call by its instruction, or by the gate.                       *)
LEMMA SyscallsKeep ==
  ASSUME IInv, NEW call \in Calls, SyscallEntry(call) \/ Isr128(call)
  PROVE  IInv'
<1>1. \A v \in {128, SYSCALL} : \A t \in Seq(CallWords) :
        LET f == [vector |-> v, todo |-> t, saved |-> interrupts]
        IN  f \in Frame /\ CallFrame(f)
  <2>1. ASSUME NEW t \in Seq(CallWords)
        PROVE  t \in Seq(Words)
    BY WordsAre, WiderLists
  <2>2. 128 \in 0..None /\ SYSCALL \in 0..None /\ interrupts \in BOOLEAN
    BY DEF None, SYSCALL, IInv, Types
  <2>3. ASSUME NEW v \in {128, SYSCALL}, NEW t \in Seq(CallWords)
        PROVE  [vector |-> v, todo |-> t, saved |-> interrupts] \in Frame
    BY <2>1, <2>2 DEF Frame
  <2>4. QED
    BY <2>3 DEF CallFrame
<1>2. CASE SyscallEntry(call)
  <2> DEFINE f == [vector |-> SYSCALL, todo |-> HandleSyscall(call), saved |-> interrupts]
  <2>1. f \in Frame /\ CallFrame(f)
    BY <1>1, SyscallWords
  <2>2. /\ Running(call) /\ stack' = Append([stack EXCEPT ![1].todo = Tail(@)], f)
        /\ interrupts' = FALSE /\ UNCHANGED <<idt, pic, keys, muted, ticks, machine>>
    BY <1>2 DEF SyscallEntry
  <2> HIDE DEF f
  <2>3. QED
    BY <2>1, <2>2, CallKeeps
<1>3. CASE Isr128(call)
  <2> DEFINE f == [vector |-> 128, todo |-> HandleSyscall(call) \o Handler(128),
                   saved |-> interrupts]
  <2>1. f \in Frame /\ CallFrame(f)
    BY <1>1, SyscallWords
  <2>2. /\ Running(call) /\ stack' = Append([stack EXCEPT ![1].todo = Tail(@)], f)
        /\ interrupts' = FALSE /\ UNCHANGED <<idt, pic, keys, muted, ticks, machine>>
    BY <1>3 DEF Isr128, Gate
  <2> HIDE DEF f
  <2>3. QED
    BY <2>1, <2>2, CallKeeps
<1>4. QED
  BY <1>2, <1>3

(* Nothing happens.                                                        *)
LEMMA StutterKeeps == IInv /\ UNCHANGED vars => IInv'
<1> SUFFICES ASSUME IInv, UNCHANGED vars PROVE IInv'
  OBVIOUS
<1>1. UNCHANGED <<stack, interrupts, idt, pic, keys, muted, ticks, machine>>
  BY DEF vars
<1>2. /\ pic' \in Pic /\ pic'.base = pic.base /\ pic'.isr = pic.isr
      /\ keys' \in Seq(Kinds) /\ Len(keys') <= MaxKeys
      /\ keys' = keys /\ pic.irr \subseteq pic'.irr
  BY <1>1 DEF IInv, Types
<1>3. QED
  BY <1>1, <1>2, AskingKeeps

-----------------------------------------------------------------------------
(* The invariant.                                                          *)

(* It holds where kernel_main begins.                                      *)
LEMMA InitHolds == Init => IInv
<1> SUFFICES ASSUME Init PROVE IInv
  OBVIOUS
<1>1. PICK p \in Programs : stack = <<[vector |-> None, todo |-> Main \o p, saved |-> FALSE]>>
  BY DEF Init
<1> DEFINE todo == Main \o p
           f == [vector |-> None, todo |-> todo, saved |-> FALSE]
<1>2. p \in Seq(Calls) /\ Len(p) \in Nat
  BY ProgramsAre
<1>3. /\ todo \in Seq(Words) /\ Len(todo) = 15 + Len(p)
      /\ \A n \in 1..15 : todo[n] = Main[n]
      /\ \A n \in 1..Len(p) : todo[n + 15] = p[n]
  <2>1. Main \in Seq(Words)
    BY MainWords, WordsAre, WiderLists
  <2>2. p \in Seq(Words)
    BY <1>2, WordsAre, WiderLists
  <2>3. Len(Main) = 15
    BY MainWords
  <2>4. /\ todo \in Seq(Words) /\ Len(todo) = Len(Main) + Len(p)
        /\ \A n \in 1..Len(Main) : todo[n] = Main[n]
        /\ \A n \in 1..Len(p) : todo[n + Len(Main)] = p[n]
    <3> HIDE DEF todo
    <3>1. todo = Main \o p
      BY DEF todo
    <3>2. QED
      BY <2>1, <2>2, <3>1, ConcatFacts
  <2>5. QED
    BY <2>3, <2>4
<1> HIDE DEF todo
<1>4. f \in Frame /\ f.vector = None /\ f.todo = todo
  BY <1>3 DEF Frame, None
<1> HIDE DEF f
<1>5. stack = <<f>>
  BY <1>1 DEF f, todo
<1>6. stack \in Seq(Frame) /\ Len(stack) = 1 /\ stack[1] = f /\ Top = f
  BY <1>4, <1>5 DEF Top
<1>7. MainFrom(todo, 0)
  <2>1. Len(todo) + 0 >= 15
    BY <1>2, <1>3
  <2>2. ASSUME NEW i \in 1..Len(todo)
        PROVE  IF i + 0 <= 15 THEN todo[i] = Main[i + 0] ELSE todo[i] \in Calls
    <3>1. CASE i <= 15
      BY <1>3, <3>1
    <3>2. CASE ~(i <= 15)
      <4>1. i - 15 \in 1..Len(p) /\ (i - 15) + 15 = i
        BY <1>2, <1>3, <3>2
      <4>2. todo[i] = p[i - 15] /\ p[i - 15] \in Calls
        BY <1>2, <1>3, <4>1, SMTT(30)
      <4>3. QED
        BY <3>2, <4>2
    <3>3. QED
      BY <3>1, <3>2
  <2>3. QED
    BY <2>1, <2>2 DEF MainFrom
<1>8. MainInOrder
  BY <1>4, <1>6, <1>7 DEF MainInOrder
<1>9. ~Done("load_idt") /\ ~Done("icw2")
  <2>1. Has(todo, Main[6]) /\ Has(todo, Main[3])
    BY <1>3, <1>7, WhatIsLeft
  <2>2. Main[6] = "load_idt" /\ Main[3] = "icw2"
    BY MainWords
  <2>3. QED
    BY <1>4, <1>6, <2>1, <2>2 DEF Done
<1>10. /\ interrupts = FALSE /\ idt = "none" /\ keys = <<>> /\ muted = FALSE /\ ticks = 0
       /\ machine = "running" /\ pic = [irr |-> {}, isr |-> {}, imr |-> {}, base |-> 8]
  BY DEF Init
<1>11. pic \in Pic /\ pic.isr = {} /\ pic.base = 8
  BY <1>10 DEF Pic
<1>12. Types
  <2>1. ticks \in 0..(TICKS - 1) /\ Len(keys) <= MaxKeys /\ keys \in Seq(Kinds)
    BY <1>10, CountsAre
  <2>2. QED
    BY <1>6, <1>10, <1>11, <2>1 DEF Types
<1>13. StackShape /\ MainFrame(Top)
  BY <1>4, <1>6 DEF StackShape, MainFrame
<1>14. Prepared
  <2>1. pic.base = IF Done("icw2") THEN 32 ELSE 8
    BY <1>9, <1>11
  <2>2. QED
    BY <1>6, <1>9, <1>10, <1>11, <2>1, Zenon DEF Prepared
<1>15. OnWhereSafe
  BY <1>10, <1>13, FramesDiffer DEF OnWhereSafe
<1>16. Owed /\ Asked /\ ResetOnlyWhenAsked
  BY <1>6, <1>10, <1>11 DEF Owed, Asked, ResetOnlyWhenAsked
<1>17. QED
  BY <1>8, <1>12, <1>13, <1>14, <1>15, <1>16 DEF IInv

(* It holds whatever happens next.                                         *)
LEMMA NextHolds == IInv /\ [Next]_vars => IInv'
<1> SUFFICES ASSUME IInv, [Next]_vars PROVE IInv'
  OBVIOUS
<1>1. CASE Cpu
  <2>1. \A call \in {"syscall write", "syscall exit"} : call \in Calls
    BY DEF Calls
  <2>2. \A call \in {"int write", "int exit"} : call \in Calls
    BY DEF Calls
  <2>3. CASE Mask \/ Icw1 \/ Icw2 \/ Unmask \/ LoadIdt \/ Work \/ JumpToRing3
    BY <2>3, MaskKeeps, Icw1Keeps, Icw2Keeps, UnmaskKeeps, LoadIdtKeeps, WorkKeeps, JumpToRing3Keeps
  <2>4. CASE Tick \/ Read \/ PicEoi \/ Execute \/ Hang \/ Reboot \/ Int0 \/ Return \/ Sti
               \/ Fault \/ Cli
    BY <2>4, TickKeeps, ReadKeeps, PicEoiKeeps, ExecuteKeeps, HangKeeps, RebootKeeps, Int0Keeps,
       ReturnKeeps, StiKeeps, FaultKeeps, CliKeeps
  <2>5. CASE \E call \in {"syscall write", "syscall exit"} : SyscallEntry(call)
    BY <2>1, <2>5, SyscallsKeep
  <2>6. CASE \E call \in {"int write", "int exit"} : Isr128(call)
    BY <2>2, <2>6, SyscallsKeep
  <2>7. QED
    BY <1>1, <2>3, <2>4, <2>5, <2>6 DEF Cpu
<1>2. CASE Spurious
  BY <1>2, SpuriousKeeps
<1>3. CASE \E i \in Lines : Deliver(i)
  BY <1>3, DeliverKeeps
<1>4. CASE \E i \in Lines \ {KeyLine} : Raise(i)
  BY <1>4, RaiseKeeps
<1>5. CASE \E k \in Kinds : KeyArrives(k)
  BY <1>5, KeyArrivesKeeps
<1>6. CASE UNCHANGED vars
  BY <1>6, StutterKeeps
<1>7. QED
  BY <1>1, <1>2, <1>3, <1>4, <1>5, <1>6 DEF Next

(* What runs over what, who is in service and how far kernel_main is agree *)
(* in every state there can be.                                            *)
THEOREM InterruptsInvariant == Spec => []IInv
<1>1. Init => IInv
  BY InitHolds
<1>2. IInv /\ [Next]_vars => IInv'
  BY NextHolds
<1>3. QED
  BY <1>1, <1>2, PTL DEF Spec

-----------------------------------------------------------------------------
(* What follows.                                                           *)

(* The types that the runs check.                                          *)
LEMMA TypesSuffice == IInv => TypeOK
<1> SUFFICES ASSUME IInv PROVE TypeOK
  OBVIOUS
<1>1. /\ stack \in Seq(Frame) /\ pic \in Pic /\ keys \in Seq(Kinds)
      /\ interrupts \in BOOLEAN /\ muted \in BOOLEAN
      /\ idt \in {"none", "ours", "null"} /\ machine \in {"running", "reset"}
      /\ Len(keys) <= MaxKeys /\ ticks \in 0..(TICKS - 1)
  BY DEF IInv, Types
<1>2. ASSUME NEW n \in 1..Len(stack)
      PROVE  /\ stack[n].vector \in 0..None /\ stack[n].saved \in BOOLEAN
             /\ \A m \in 1..Len(stack[n].todo) : stack[n].todo[m] \in Words
  <2>1. stack[n] \in Frame
    BY <1>1
  <2>2. stack[n].todo \in Seq(Words)
    BY <2>1 DEF Frame
  <2>3. \A S : \A s \in Seq(S) : \A m \in 1..Len(s) : s[m] \in S
    OBVIOUS
  <2>4. \A m \in 1..Len(stack[n].todo) : stack[n].todo[m] \in Words
    BY <2>2, <2>3, Zenon
  <2>5. QED
    BY <2>1, <2>4 DEF Frame
<1>3. /\ pic.irr \subseteq Lines /\ pic.isr \subseteq Lines /\ pic.imr \subseteq Lines
      /\ pic.base \in {8, 32}
  BY <1>1 DEF Pic
<1>4. {keys[n] : n \in DOMAIN keys} \subseteq Kinds
  BY <1>1
<1>5. ticks \in 0..TICKS - 1
  BY <1>1
<1>6. QED
  BY <1>1, <1>2, <1>3, <1>4, <1>5, Zenon DEF TypeOK, Words

(* The handlers of devices do not nest.                                    *)
LEMMA NoNesting == IInv => OneAtATime
<1> SUFFICES ASSUME IInv,
                    NEW m \in 1..Len(stack), NEW n \in 1..Len(stack),
                    stack[m].vector \in 32..47, stack[n].vector \in 32..47
             PROVE  m = n
  BY DEF OneAtATime
<1>1. Len(stack) \in Nat /\ stack[1].vector = None
  BY WhatRuns DEF IInv, StackShape, MainFrame
<1>2. ASSUME NEW j \in 1..Len(stack), stack[j].vector \in 32..47
      PROVE  j = (IF FaultFrame(Top) THEN Len(stack) - 1 ELSE Len(stack))
  <2>1. j \in 2..Len(stack)
    <3>1. 257 \notin 32..47
      OBVIOUS
    <3>2. j # 1
      BY <1>1, <1>2, <3>1, SMTT(30) DEF None
    <3>3. QED
      BY <1>1, <3>2
  <2>2. Over(stack[j - 1], stack[j])
    BY <2>1 DEF IInv, StackShape
  <2>3. DeviceFrame(stack[j])
    <3>1. (\A v \in 0..21 : v \notin 32..47) /\ 128 \notin 32..47 /\ 256 \notin 32..47
      OBVIOUS
    <3>2. ~CallFrame(stack[j]) /\ ~FaultFrame(stack[j])
      BY <1>2, <3>1 DEF CallFrame, FaultFrame, SYSCALL
    <3>3. QED
      BY <2>2, <3>2 DEF Over
  <2>4. j = Len(stack) \/ (j = Len(stack) - 1 /\ FaultFrame(Top))
    BY <2>1, <2>3, DeviceOnTop DEF IInv
  <2>5. j = Len(stack) => ~FaultFrame(Top)
    BY <2>3, FramesDiffer DEF Top
  <2>6. QED
    BY <2>4, <2>5
<1>3. QED
  BY <1>2

(* A line is in service as long as a handler owes the acknowledgement, and *)
(* no longer.                                                              *)
LEMMA OwedSuffices == IInv => ServiceIsOwed
<1> SUFFICES ASSUME IInv, machine = "running", NEW i \in Lines
             PROVE  i \in pic.isr <=> \E f \in Frames : /\ f.vector = pic.base + i
                                                        /\ Has(f.todo, "eoi") \/ Has(f.todo, "read")
  BY DEF ServiceIsOwed
<1>1. Len(stack) \in Nat /\ Len(stack) > 0 /\ stack[1].vector = None
  BY WhatRuns DEF IInv, StackShape, MainFrame
<1>2. i \in 0..6
  BY VectorOfLine
<1>3. CASE Len(stack) = 1
  <2>1. pic.isr = {}
    BY <1>3, OnTop, NoneServed, FramesDiffer
  <2>2. pic.base \in {8, 32}
    BY DEF IInv, Types, Pic
  <2>3. \A f \in Frames : f.vector # pic.base + i
    BY <1>1, <1>2, <1>3, <2>2 DEF Frames, None
  <2>4. QED
    BY <2>1, <2>3
<1>4. CASE Len(stack) > 1
  <2>1. pic.base = 32
    BY <1>4, AfterLoading
  <2>2. i \in pic.isr <=> \E n \in 2..Len(stack) : stack[n].vector = 32 + i /\ stack[n].todo # <<>>
    BY DEF IInv, Owed
  <2>3. ASSUME NEW n \in 2..Len(stack), stack[n].vector = 32 + i
        PROVE  stack[n].todo # <<>> <=> Has(stack[n].todo, "eoi") \/ Has(stack[n].todo, "read")
    <3>1. DeviceFrame(stack[n])
      <4>1. stack[n].vector \in 32..39
        BY <1>2, <2>3
      <4>2. QED
        BY <4>1, VectorTells DEF IInv
    <3>2. stack[n].todo \in DeviceTodos
      BY <3>1 DEF DeviceFrame
    <3>3. QED
      BY <3>2, DeviceOwes
  <2>4. \A n \in 1..Len(stack) : stack[n].vector = 32 + i => n \in 2..Len(stack)
    BY <1>1, <1>2 DEF None
  <2>5. \A n \in 2..Len(stack) : stack[n] \in Frames
    BY <1>1 DEF Frames
  <2>6. \A f \in Frames : f.vector = 32 + i => \E n \in 2..Len(stack) : f = stack[n]
    BY <2>4 DEF Frames
  <2>7. QED
    BY <2>1, <2>2, <2>3, <2>5, <2>6
<1>5. Len(stack) = 1 \/ Len(stack) > 1
  BY <1>1
<1>6. QED
  BY <1>3, <1>4, <1>5, Zenon

(* A waiting byte was asked for, or is about to be read.                   *)
LEMMA AskedSuffices == IInv => AskedToRead
<1> SUFFICES ASSUME IInv, machine = "running", keys # <<>>, ~muted, KeyLine \notin pic.irr
             PROVE  \E f \in Frames : f.vector \in {9, 33} /\ Has(f.todo, "read")
  BY DEF AskedToRead
<1>1. PICK n \in 2..Len(stack) : stack[n].vector = 33 /\ stack[n].todo = <<"read">>
  BY DEF IInv, Asked
<1>2. Has(<<"read">>, "read")
  BY DEF Has
<1>3. stack[n] \in Frames
  BY WhatRuns DEF IInv, Frames
<1>4. QED
  BY <1>1, <1>2, <1>3

(* The controller and the handlers agree on who is being served, one at a  *)
(* time, and on who waits to be (interrupt_handler and pic.c), for any     *)
(* devices, keys and program.                                              *)
THEOREM Dispatched == Spec => []DispatchIsSound
<1>1. IInv => DispatchIsSound
  BY TypesSuffice, NoNesting, OwedSuffices, AskedSuffices DEF DispatchIsSound
<1>2. QED
  BY <1>1, InterruptsInvariant, PTL

(* Nothing comes before kernel_main has prepared for it: a handler of an   *)
(* exception runs over work that raised one and never because a device     *)
(* asked (pic_init comes before load_idt), and no interrupt resets the     *)
(* machine (load_idt before the first, tss_install before ring 3).         *)
THEOREM BootOrder == Spec => []BootIsInOrder
<1>1. ASSUME IInv
      PROVE  NoFalseException
  <2>1. SUFFICES ASSUME NEW n \in 2..Len(stack), stack[n].vector < 32
                 PROVE  stack[n].vector \in Exceptions /\ Head(stack[n - 1].todo) \in Faulting
    BY DEF NoFalseException
  <2>2. Over(stack[n - 1], stack[n])
    BY <1>1 DEF IInv, StackShape
  <2>3. ~CallFrame(stack[n]) /\ ~DeviceFrame(stack[n])
    BY <2>1 DEF CallFrame, DeviceFrame, SYSCALL
  <2>4. QED
    BY <2>2, <2>3 DEF Over
<1>2. IInv => BootIsInOrder
  BY <1>1 DEF BootIsInOrder, IInv
<1>3. QED
  BY <1>2, InterruptsInvariant, PTL

(* Once an exception was reported, the processor halts with interrupts off,*)
(* and nothing gets it on.                                                 *)
LEMMA HaltedStays == IInv /\ [Next]_vars => (Dead => UNCHANGED <<cpu, ticks, machine>>)
<1> SUFFICES ASSUME IInv, [Next]_vars, Dead PROVE UNCHANGED <<cpu, ticks, machine>>
  OBVIOUS
<1>1. Top.vector < 32 /\ Top.todo # <<>> /\ Head(Top.todo) = "hlt"
  BY DEF Dead
<1>2. ~MainFrame(Top) /\ ~CallFrame(Top) /\ ~DeviceFrame(Top)
  BY <1>1 DEF MainFrame, CallFrame, DeviceFrame, None, SYSCALL
<1>3. ~interrupts
  BY <1>2 DEF IInv, OnWhereSafe
<1>4. \A x : Running(x) => x = "hlt"
  BY <1>1 DEF Running
<1>5. ~Cpu
  <2>1. ~Mask /\ ~Icw1 /\ ~Icw2 /\ ~Unmask /\ ~LoadIdt /\ ~JumpToRing3
    BY <1>4 DEF Mask, Icw1, Icw2, Unmask, LoadIdt, JumpToRing3
  <2>2. ~Work
    BY <1>4 DEF Work, Plain
  <2>3. /\ ~Tick /\ ~Read /\ ~PicEoi /\ ~Execute /\ ~Hang /\ ~Reboot /\ ~Int0 /\ ~Sti
        /\ ~Fault /\ ~Cli
    BY <1>4 DEF Tick, Read, PicEoi, Execute, Hang, Reboot, Int0, Sti, Fault, Faulting, Cli
  <2>4. ~Return
    BY <1>1 DEF Return
  <2>5. ~\E call \in {"syscall write", "syscall exit"} : SyscallEntry(call)
    BY <1>4 DEF SyscallEntry
  <2>6. ~\E call \in {"int write", "int exit"} : Isr128(call)
    BY <1>4 DEF Isr128
  <2>7. QED
    BY <2>1, <2>2, <2>3, <2>4, <2>5, <2>6 DEF Cpu
<1>6. ~Spurious /\ ~\E i \in Lines : Deliver(i)
  BY <1>3 DEF Spurious, Deliver
<1>7. (\E i \in Lines \ {KeyLine} : Raise(i)) => UNCHANGED <<cpu, ticks, machine>>
  BY DEF Raise
<1>8. (\E k \in Kinds : KeyArrives(k)) => UNCHANGED <<cpu, ticks, machine>>
  BY DEF KeyArrives
<1>9. UNCHANGED vars => UNCHANGED <<cpu, ticks, machine>>
  BY DEF vars, cpu
<1>10. QED
  BY <1>5, <1>6, <1>7, <1>8, <1>9 DEF Next

(* "System halted" is the end: no interrupt, no key and no tick gets the   *)
(* processor on.                                                           *)
THEOREM HaltsForGood == Spec => HaltIsForGood
<1>1. IInv /\ [Next]_vars => [Dead => UNCHANGED <<cpu, ticks, machine>>]_vars
  BY HaltedStays
<1>2. QED
  BY <1>1, InterruptsInvariant, PTL DEF Spec, HaltIsForGood
=============================================================================
