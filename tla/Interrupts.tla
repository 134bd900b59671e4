----------------------------- MODULE Interrupts -----------------------------
(***************************************************************************)
(* Who runs when: kernel_main, the interrupt handler, the exceptions, the  *)
(* program in ring 3 and its system calls (src/impl/kernel/main.c,         *)
(* boot/main64.asm, syscall.c), with the interrupt controller (pic.c), the *)
(* interrupt flag of the processor and the output buffer of the keyboard.  *)
(*                                                                         *)
(* What runs is a stack of activities, each with the list of what it has   *)
(* still to do; only the topmost one moves.  What the work itself does is  *)
(* in the other modules: what counts here is when it is done, with which   *)
(* interrupts on, and what is acknowledged.                                *)
(***************************************************************************)
EXTENDS Integers, Sequences, SequencesExt

CONSTANTS Lines,      \* the lines of the first controller that devices use
          Programs,   \* what the program in ring 3 may do
          Exceptions, \* the vectors of the exceptions that the work may raise
          MaxKeys,    \* bound: bytes in the keyboard
          TICKS       \* ticks counts modulo this here, 2^64 in the code

TimerLine == 0
KeyLine   == 1

(* What the handler makes of a byte: a modifier, a prefix or a release is  *)
(* noted; a character, an arrow or Ctrl-C and Ctrl-L show.                 *)
Kinds == {"noted", "shown", "enter"}
Calls == {"syscall write", "syscall exit", "int write", "int exit", "fault"}

ASSUME InterruptsAssumption ==
  /\ {TimerLine, KeyLine} \subseteq Lines /\ Lines \subseteq 0..6
  /\ Programs \subseteq Seq(Calls) /\ Exceptions \subseteq 0..21
  /\ MaxKeys \in Nat /\ TICKS \in Nat \ {0, 1}

VARIABLES stack,       \* the activities, the one that runs last
          interrupts,  \* the interrupt flag
          idt,         \* "none" before load_idt, "null" after cmd_reboot
          pic,         \* requests, lines in service, mask, first vector
          keys,        \* the bytes that the keyboard holds
          muted,       \* ghost: a byte waited when the controller was reset
          ticks,
          machine      \* "reset" once the processor was reset

cpu  == <<stack, interrupts, idt>>
vars == <<stack, interrupts, idt, pic, keys, muted, ticks, machine>>

(* A vector no gate has: the frame of a syscall instruction.  None is that *)
(* of kernel_main and of the program it becomes.                           *)
SYSCALL == 256
None    == 257

PicInit == <<"icw1", "icw2", "unmask">>

(* kernel_main.                                                            *)
MainTssLate ==
  <<"mask">> \o PicInit \o
  <<"idt_set_entry", "load_idt", "syscall_init", "pmm_setup", "vmm_init", "heap_init",
    "init_filesystem", "print_prompt", "user pages", "jump_to_ring3", "tss_install">>
Main ==
  <<"mask">> \o PicInit \o
  <<"idt_set_entry", "load_idt", "syscall_init", "pmm_setup", "vmm_init", "heap_init",
    "tss_install", "init_filesystem", "print_prompt", "user pages", "jump_to_ring3">>

Has(todo, x) == \E i \in DOMAIN todo : todo[i] = x
Done(x) == ~Has(stack[1].todo, x)

Top == stack[Len(stack)]
UserMode == Len(stack) = 1 /\ Done("jump_to_ring3")

Init ==
  /\ \E p \in Programs :
       stack = <<[vector |-> None, todo |-> Main \o p, saved |-> FALSE]>>
  /\ interrupts = FALSE /\ idt = "none"
  /\ pic = [irr |-> {}, isr |-> {}, imr |-> {}, base |-> 8]
  /\ keys = <<>> /\ muted = FALSE
  /\ ticks = 0
  /\ machine = "running"

-----------------------------------------------------------------------------
(* The devices and the controller.  A line asks when it rises; the keyboard*)
(* holds its line up while it holds a byte, and lets go of it for a moment *)
(* when a byte is read.                                                    *)

Raise(i) ==
  /\ machine = "running"
  /\ pic' = [pic EXCEPT !.irr = @ \cup {i}]
  /\ UNCHANGED <<cpu, keys, muted, ticks, machine>>

(* Nobody has to wait for the prompt.                                      *)
KeyArrives(k) ==
  /\ machine = "running" /\ Len(keys) < MaxKeys
  /\ keys' = Append(keys, k)
  /\ pic' = IF keys = <<>> THEN [pic EXCEPT !.irr = @ \cup {KeyLine}] ELSE pic
  /\ UNCHANGED <<cpu, muted, ticks, machine>>

Deliverable ==
  {i \in pic.irr \ pic.imr : /\ \A j \in pic.irr \ pic.imr : i <= j
                             /\ \A j \in pic.isr : i < j}

-----------------------------------------------------------------------------
(* How an activity begins and ends.                                        *)

(* What a gate does with the interrupt flag: type_attr 0xEE is an interrupt*)
(* gate; 0xEF would be a trap gate, which leaves the flag as it is.        *)
GateTrapForExceptions(v) == v < 32 /\ interrupts
Gate(v) == FALSE

Begin(v, todo) ==
  /\ stack' = Append(stack, [vector |-> v, todo |-> todo, saved |-> interrupts])
  /\ interrupts' = Gate(v)
  /\ UNCHANGED <<idt, machine>>

(* Without a table, or with none of the stack to switch to, the processor  *)
(* fails to enter a handler, and to report that it failed: triple fault.   *)
Accepted == idt = "ours" /\ (UserMode => Done("tss_install"))

Vector(v, todo) ==
  \/ Accepted /\ Begin(v, todo)
  \/ ~Accepted /\ machine' = "reset" /\ UNCHANGED cpu

(* interrupt_handler, by vector.                                           *)
HandlerTickOnly(v) ==
  CASE v = 13  -> <<"message", "cli", "hlt">>
    [] v < 32 /\ v # 13 -> <<"message", "hlt">>
    [] v = 32  -> <<"tick">>
    [] v = 33  -> <<"read">>
    [] OTHER   -> <<"eoi">>
Handler(v) ==
  CASE v = 13  -> <<"message", "cli", "hlt">>
    [] v < 32 /\ v # 13 -> <<"message", "hlt">>
    [] v = 32  -> <<"tick", "eoi">>
    [] v = 33  -> <<"read">>
    [] OTHER   -> <<"eoi">>

Deliver(i) ==
  /\ machine = "running" /\ interrupts /\ i \in Deliverable
  /\ pic' = [pic EXCEPT !.irr = @ \ {i}, !.isr = @ \cup {i}]
  /\ Vector(pic.base + i, Handler(pic.base + i))
  /\ UNCHANGED <<keys, muted, ticks>>

(* A request that is gone when the controller is asked which one it was    *)
(* comes as line 7, and is not in service.                                 *)
Spurious ==
  /\ machine = "running" /\ interrupts /\ Deliverable = {} /\ pic.isr = {}
  /\ Vector(pic.base + 7, Handler(pic.base + 7))
  /\ UNCHANGED <<pic, keys, muted, ticks>>

Running(x) ==
  /\ machine = "running" /\ Top.todo # <<>> /\ Head(Top.todo) = x

(* The activity goes on, with more to do first.                            *)
Continue(more) == stack' = [stack EXCEPT ![Len(stack)].todo = more \o Tail(@)]

(* iretq and sysret.                                                       *)
Return ==
  /\ machine = "running" /\ Len(stack) > 1 /\ Top.todo = <<>>
  /\ stack' = Front(stack)
  /\ interrupts' = Top.saved
  /\ UNCHANGED <<idt, pic, keys, muted, ticks, machine>>

-----------------------------------------------------------------------------
(* kernel_main.  A step that changes nothing here is still a time at which *)
(* an interrupt may come.                                                  *)

Mask ==
  /\ Running("mask") /\ Continue(<<>>)
  /\ pic' = [pic EXCEPT !.imr = Lines]
  /\ UNCHANGED <<interrupts, idt, keys, muted, ticks, machine>>

(* The first command word forgets every request, and the mask; a line that *)
(* is up already has to fall and rise before it asks again.                *)
Icw1 ==
  /\ Running("icw1") /\ Continue(<<>>)
  /\ pic' = [pic EXCEPT !.irr = {}, !.isr = {}, !.imr = {}]
  /\ muted' = (keys # <<>>)
  /\ UNCHANGED <<interrupts, idt, keys, ticks, machine>>

Icw2 ==
  /\ Running("icw2") /\ Continue(<<>>)
  /\ pic' = [pic EXCEPT !.base = 32]
  /\ UNCHANGED <<interrupts, idt, keys, muted, ticks, machine>>

Unmask ==
  /\ Running("unmask") /\ Continue(<<>>)
  /\ pic' = [pic EXCEPT !.imr = Lines \ {TimerLine, KeyLine}]
  /\ UNCHANGED <<interrupts, idt, keys, muted, ticks, machine>>

LoadIdt ==
  /\ Running("load_idt") /\ Continue(<<>>)
  /\ idt' = "ours" /\ interrupts' = TRUE
  /\ UNCHANGED <<pic, keys, muted, ticks, machine>>

Plain == {"idt_set_entry", "syscall_init", "pmm_setup", "vmm_init", "heap_init",
          "tss_install", "init_filesystem", "print_prompt", "user pages",
          "message", "print", "write"}

Work ==
  /\ \E x \in Plain : Running(x) /\ Continue(<<>>)
  /\ UNCHANGED <<interrupts, idt, pic, keys, muted, ticks, machine>>

(* The flags that iretq loads have interrupts on.                          *)
JumpToRing3 ==
  /\ Running("jump_to_ring3") /\ Continue(<<>>)
  /\ interrupts' = TRUE
  /\ UNCHANGED <<idt, pic, keys, muted, ticks, machine>>

-----------------------------------------------------------------------------
(* interrupt_handler.                                                      *)

Tick ==
  /\ Running("tick") /\ Continue(<<>>)
  /\ ticks' = (ticks + 1) % TICKS
  /\ UNCHANGED <<interrupts, idt, pic, keys, muted, machine>>

(* What each byte makes the handler do.  Every return has its own pic_eoi. *)
KeyPathEarlyEoi(k) ==
  CASE k = "noted" -> <<"eoi">>
    [] k = "shown" -> <<"print", "eoi">>
    [] k = "enter" -> <<"eoi", "sti", "execute", "print">>
KeyPath(k) ==
  CASE k = "noted" -> <<"eoi">>
    [] k = "shown" -> <<"print", "eoi">>
    [] k = "enter" -> <<"execute", "print", "eoi">>

Read ==
  /\ Running("read") /\ keys # <<>> /\ Continue(KeyPath(Head(keys)))
  /\ keys' = Tail(keys)
  /\ pic' = IF keys' # <<>> THEN [pic EXCEPT !.irr = @ \cup {KeyLine}] ELSE pic
  /\ UNCHANGED <<interrupts, idt, muted, ticks, machine>>

(* The command does not say which interrupt it is for: the controller ends *)
(* the one that it holds to be the most urgent.                            *)
PicEoi ==
  /\ Running("eoi") /\ Continue(<<>>)
  /\ pic' = [pic EXCEPT !.isr = {i \in @ : \E j \in @ : j < i}]
  /\ UNCHANGED <<interrupts, idt, keys, muted, ticks, machine>>

(* execute: a command returns, or never does, as is_protected and rm -r on *)
(* a cycle of the tree; reboot asks for a reset, and then takes the table  *)
(* away and interrupts itself, with interrupts on since load_idt turns them*)
(* on.  What a command does before heap and tree are there is any of these,*)
(* or a fault.                                                             *)
Execute ==
  /\ Running("execute") /\ Continue(<<>>)
  /\ UNCHANGED <<interrupts, idt, pic, keys, muted, ticks, machine>>

Hang ==
  /\ Running("execute") /\ Continue(<<"loop">>)
  /\ UNCHANGED <<interrupts, idt, pic, keys, muted, ticks, machine>>

Reboot ==
  /\ Running("execute") /\ Continue(<<"int 0">>)
  /\ idt' = "null" /\ interrupts' = TRUE
  /\ UNCHANGED <<pic, keys, muted, ticks, machine>>

Int0 ==
  /\ Running("int 0")
  /\ Vector(0, Handler(0))
  /\ UNCHANGED <<pic, keys, muted, ticks>>

(* What may raise an exception: a command (panic divides by zero, the word *)
(* of an empty line may be no address), the buffer that sys_write is given,*)
(* what kernel_main does with memory that the page tables may not have, and*)
(* the program itself.                                                     *)
Faulting == {"execute", "write", "heap_init", "init_filesystem", "user pages", "fault"}

Fault ==
  /\ \E w \in Faulting : Running(w)
  /\ \E v \in Exceptions : Vector(v, Handler(v))
  /\ UNCHANGED <<pic, keys, muted, ticks>>

Cli ==
  /\ Running("cli") /\ Continue(<<>>)
  /\ interrupts' = FALSE
  /\ UNCHANGED <<idt, pic, keys, muted, ticks, machine>>

-----------------------------------------------------------------------------
(* System calls, by the instruction for them or by the gate of vector 128. *)

(* sys_exit is never back; it turns interrupts on for the shell.           *)
HandleSyscallStill(call) ==
  IF call \in {"syscall exit", "int exit"} THEN <<"print", "print_prompt", "hlt">>
  ELSE <<"write">>
HandleSyscall(call) ==
  IF call \in {"syscall exit", "int exit"} THEN <<"print", "print_prompt", "sti", "hlt">>
  ELSE <<"write">>

SyscallEntry(call) ==
  /\ Running(call)
  /\ stack' = Append([stack EXCEPT ![1].todo = Tail(@)],
                     [vector |-> SYSCALL, todo |-> HandleSyscall(call), saved |-> interrupts])
  /\ interrupts' = FALSE
  /\ UNCHANGED <<idt, pic, keys, muted, ticks, machine>>

Isr128(call) ==
  /\ Running(call)
  /\ stack' = Append([stack EXCEPT ![1].todo = Tail(@)],
                     [vector |-> 128, todo |-> HandleSyscall(call) \o Handler(128),
                      saved |-> interrupts])
  /\ interrupts' = Gate(128)
  /\ UNCHANGED <<idt, pic, keys, muted, ticks, machine>>

Sti ==
  /\ Running("sti") /\ Continue(<<>>)
  /\ interrupts' = TRUE
  /\ UNCHANGED <<idt, pic, keys, muted, ticks, machine>>

-----------------------------------------------------------------------------
Cpu ==
  \/ Mask \/ Icw1 \/ Icw2 \/ Unmask \/ LoadIdt \/ Work \/ JumpToRing3
  \/ Tick \/ Read \/ PicEoi \/ Execute \/ Hang \/ Reboot \/ Int0
  \/ Return \/ Sti \/ Fault \/ Cli
  \/ \E call \in {"syscall write", "syscall exit"} : SyscallEntry(call)
  \/ \E call \in {"int write", "int exit"} : Isr128(call)

Next ==
  \/ Cpu
  \/ Spurious
  \/ \E i \in Lines : Deliver(i)
  \/ \E i \in Lines \ {KeyLine} : Raise(i)
  \/ \E k \in Kinds : KeyArrives(k)

(* The processor goes on, the timer ticks, and an interrupt that asks at   *)
(* ever new times when nothing hinders it is taken.  Nobody has to type.   *)
Fairness ==
  /\ WF_vars(Cpu)
  /\ WF_vars(Raise(TimerLine))
  /\ WF_vars(Deliver(TimerLine))
  /\ SF_vars(Deliver(KeyLine))

Spec == Init /\ [][Next]_vars /\ Fairness

-----------------------------------------------------------------------------
TypeOK ==
  /\ \A n \in 1..Len(stack) :
       /\ stack[n].vector \in 0..None /\ stack[n].saved \in BOOLEAN
       /\ \A m \in 1..Len(stack[n].todo) :
            stack[n].todo[m] \in {Main[j] : j \in DOMAIN Main} \cup Calls \cup Plain
              \cup {"tick", "read", "eoi", "execute", "loop", "int 0", "sti", "cli", "hlt"}
  /\ interrupts \in BOOLEAN /\ muted \in BOOLEAN
  /\ idt \in {"none", "ours", "null"} /\ machine \in {"running", "reset"}
  /\ pic.irr \subseteq Lines /\ pic.isr \subseteq Lines /\ pic.imr \subseteq Lines
  /\ pic.base \in {8, 32}
  /\ Len(keys) <= MaxKeys /\ {keys[n] : n \in DOMAIN keys} \subseteq Kinds
  /\ ticks \in 0..TICKS - 1

Frames == {stack[n] : n \in 1..Len(stack)}

(* The handler of a device is never interrupted by a device: it shares the *)
(* line, the screen, the heap and the tree with every other handler.  (Only*)
(* after cmd_reboot are interrupts on in one, and then they reset.)        *)
OneAtATime ==
  \A m, n \in 1..Len(stack) :
    stack[m].vector \in 32..47 /\ stack[n].vector \in 32..47 => m = n

(* A device is in service exactly while a handler for it is still to       *)
(* acknowledge it: no path through interrupt_handler leaves a line blocked *)
(* for ever, and no acknowledgement is taken for that of another device.   *)
ServiceIsOwed ==
  machine = "running" =>
    \A i \in Lines :
      i \in pic.isr <=> \E f \in Frames : /\ f.vector = pic.base + i
                                          /\ Has(f.todo, "eoi") \/ Has(f.todo, "read")

(* No byte of the keyboard is forgotten: while one waits, the keyboard has *)
(* asked, or its handler has still to read.  The one exception is a byte   *)
(* that came before pic_init: it was asked for and the request was dropped,*)
(* and nothing in the kernel ever reads it.                                *)
AskedToRead ==
  machine = "running" /\ keys # <<>> /\ ~muted =>
    \/ KeyLine \in pic.irr
    \/ \E f \in Frames : f.vector \in {9, 33} /\ Has(f.todo, "read")

(* The controller and the handlers agree on who is being served, one at a  *)
(* time, and on who waits to be.                                           *)
DispatchIsSound == TypeOK /\ OneAtATime /\ ServiceIsOwed /\ AskedToRead

(* A device is never taken for an exception: none is let in before the     *)
(* controller has left the vectors of the exceptions.                      *)
NoFalseException ==
  \A n \in 2..Len(stack) : stack[n].vector < 32 =>
    stack[n].vector \in Exceptions /\ Head(stack[n - 1].todo) \in Faulting

(* The machine is reset only by the command for it: no interrupt comes     *)
(* before the table is loaded, or in ring 3 without a stack to switch to.  *)
ResetOnlyWhenAsked == machine = "reset" => idt = "null"

(* Nothing comes before kernel_main has prepared for it: no interrupt      *)
(* before the table and the controller, none in ring 3 before the task     *)
(* state.                                                                  *)
BootIsInOrder == NoFalseException /\ ResetOnlyWhenAsked

(* A command finds the heap and the tree.  It does not: keys are read from *)
(* load_idt on, and an Enter before init_filesystem is done runs execute   *)
(* without them (MCInterruptsEarly.cfg).                                   *)
CommandFindsItReady ==
  Running("execute") => Done("heap_init") /\ Done("init_filesystem")

Dead == Top.vector < 32 /\ Top.todo # <<>> /\ Head(Top.todo) = "hlt"

(* "System halted" is the end: no interrupt, no key and no tick gets the   *)
(* processor on once an exception was reported.                            *)
HaltIsForGood == [][Dead => UNCHANGED <<cpu, ticks, machine>>]_vars

(* No exception was reported, and no command was one that never returns.   *)
Alive ==
  machine = "running" /\ \A f \in Frames : f.vector >= 32 /\ ~Has(f.todo, "loop")

Waiting == keys # <<>> /\ ~muted /\ Alive

AboutToRead == \E f \in Frames : f.vector = 33 /\ Has(f.todo, "read")

(* The timer does not ask again each time before interrupts are back on.   *)
TimerLeavesRoom == []<>interrupts => []<>(interrupts /\ TimerLine \notin pic.irr)

(* What is typed is read in the end, whatever the program in ring 3 did, as*)
(* long as no exception stops the machine and no command runs for ever.    *)
KeysAreRead == TimerLeavesRoom => (Waiting ~> (AboutToRead \/ ~Waiting))

(* The clock that ends sudo runs on, under the same condition.             *)
ClockRuns == <>[]Alive => \A n \in 0..TICKS - 1 : []<>(ticks = n)
=============================================================================
