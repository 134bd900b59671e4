---------------------------- MODULE MCInterrupts ----------------------------
(* The controller with the timer, the keyboard and a device that stays     *)
(* masked; the program of userspacetest.c, one that uses the gate, and one *)
(* that the processor stops at its second system call.                     *)
EXTENDS Interrupts

MCLines == {0, 1, 4}

MCPrograms ==
  {<<"syscall write", "syscall exit">>, <<"int write", "int exit">>,
   <<"syscall write", "fault">>}

(* A division by zero, like every other exception but the protection fault.*)
MCExceptions == {0, 13}
=============================================================================
