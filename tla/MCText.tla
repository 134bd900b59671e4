------------------------------- MODULE MCText --------------------------------
(* A blank, a slash and two letters, in a buffer of six characters.        *)
EXTENDS Text

MCKeys == {Space, Slash, 97, 98}
=============================================================================
