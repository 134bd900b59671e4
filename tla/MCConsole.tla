----------------------------- MODULE MCConsole ------------------------------
(***************************************************************************)
(* A screen of three rows of four characters for Console.                  *)
(***************************************************************************)
EXTENDS Console

Glyphs == {Blank, Newline, "^", "C", "a", "b", "$", "/", "o", "k", "h", "x"}

Prompt == {<<"$">>, <<"/", "$">>}
Output == {<<>>, <<"o", Newline>>}

(* A line that fits into a row with the prompt and one that does not.      *)
History == {<<>>, <<"b", "a", "b", "b">>}

(* The end of what kernel_main prints, character by character, the output  *)
(* of the program, and what sys_exit prints.                               *)
Rest == << <<"k">>, <<"h", Newline>>, <<"x", Newline, "$">> >>
=============================================================================
