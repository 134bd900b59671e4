------------------------------ MODULE MCShell ------------------------------
(* Instances of Shell for TLC: the command lines that users type.          *)
EXTENDS Shell

MCLines == {[sudo |-> FALSE, cmd |-> "ls"], [sudo |-> FALSE, cmd |-> "rm"],
            [sudo |-> TRUE, cmd |-> "ls"], [sudo |-> TRUE, cmd |-> ""],
            [sudo |-> TRUE, cmd |-> "panic"]}
PanicLines == {[sudo |-> FALSE, cmd |-> "ls"], [sudo |-> FALSE, cmd |-> "panic"],
               [sudo |-> TRUE, cmd |-> "panic"]}
=============================================================================
