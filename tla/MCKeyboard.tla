----------------------------- MODULE MCKeyboard ------------------------------
(* Users of Keyboard.                                                      *)
EXTENDS Keyboard

(* Both keys of both modifiers with a control character; control with the  *)
(* arrow and its twin; one shift with caps lock, a letter and erasing.     *)
Typists ==
  {{"left shift", "right shift", "left ctrl", "right ctrl", "c"},
   {"left ctrl", "right ctrl", "up", "keypad 8", "l", "enter"},
   {"left shift", "right ctrl", "caps lock", "down", "a", "backspace"}}

(* Those who let the history move by the arrows alone, or not.             *)
Arrows == {{"right ctrl", "up", "keypad 8"}}
=============================================================================
