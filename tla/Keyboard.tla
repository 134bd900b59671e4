------------------------------ MODULE Keyboard ------------------------------
(***************************************************************************)
(* The keyboard half of interrupt_handler (src/impl/kernel/main.c): how    *)
(* the scancodes of the keyboard become modifiers, characters and editing  *)
(* commands.                                                               *)
(*                                                                         *)
(* The keyboard and the kernel run side by side.  A key that goes down or  *)
(* up puts one or two bytes on the wire; interrupt 33 takes one byte off   *)
(* it.  A byte is the prefix E0 or a key position with the release bit; a  *)
(* key and its E0 twin (the two control keys, the arrow up and the 8 of the*)
(* keypad) have the same position, and only extended tells them apart.     *)
(* "key" and "held" in a byte record which key sent it and what was held   *)
(* then; the handler does not see them.                                    *)
(***************************************************************************)
EXTENDS Integers, Sequences, FiniteSets

CONSTANTS Users,         \* the sets of keys that users may restrict themselves to
          MaxWire,       \* bound: bytes that wait for the kernel
          MaxLine        \* bound: characters on the line

AllKeys == {"left shift", "right shift", "left ctrl", "right ctrl", "caps lock",
            "up", "down", "keypad 8", "a", "c", "l", "backspace", "enter"}

ASSUME KeyboardAssumption ==
  Users \subseteq SUBSET AllKeys /\ MaxWire \in Nat /\ MaxLine \in Nat

Shifts    == {"left shift", "right shift"}
Ctrls     == {"left ctrl", "right ctrl"}
Prefixed  == {"right ctrl", "up", "down"}

Position(k) ==
  CASE k \in Ctrls -> "ctrl"
    [] k \in {"up", "keypad 8"} -> "8"
    [] k = "down" -> "2"
    [] OTHER -> k

VARIABLES keys,          \* the keys that this user uses
          pressed,       \* those that are down
          wire,          \* the bytes under way to the kernel
          shift_held, ctrl_held, caps_lock, extended,
          line,          \* input_buffer[0 .. input_pos - 1]
          last           \* the last byte handled and what it did

keyboardVars == <<keys, pressed, wire, shift_held, ctrl_held, caps_lock, extended, line, last>>

Byte == [position : {Position(k) : k \in keys} \cup {"E0"}, up : BOOLEAN,
         key : keys, held : SUBSET keys]

Did == {"nothing", "character", "shifted character", "erase", "execute",
        "interrupt", "clear screen", "history up", "history down"}

KeyboardInit ==
  /\ keys \in Users
  /\ pressed = {}
  /\ wire = <<>>
  /\ shift_held = FALSE /\ ctrl_held = FALSE /\ caps_lock = FALSE
  /\ extended = FALSE
  /\ line = <<>>
  /\ last = [key |-> "none", held |-> {}, did |-> "nothing"]

-----------------------------------------------------------------------------
(* The keyboard.                                                           *)

Bytes(k, up, held) ==
  LET own == [position |-> Position(k), up |-> up, key |-> k, held |-> held]
  IN IF k \in Prefixed THEN <<[own EXCEPT !.position = "E0", !.up = FALSE], own>>
     ELSE <<own>>

Send(k, up) ==
  /\ wire' = wire \o Bytes(k, up, pressed)
  /\ Len(wire') <= MaxWire
  /\ UNCHANGED <<keys, shift_held, ctrl_held, caps_lock, extended, line, last>>

(* The handler stores a character wherever input_pos points; a user who    *)
(* stays below the 256 bytes of input_buffer is all that is modelled, with *)
(* MaxLine in their place.                                                 *)
Letters == {"a", "c", "l"}

Room == Len(line) + Cardinality({i \in 1..Len(wire) : wire[i].key \in Letters}) < MaxLine

Press(k) ==
  /\ k \notin pressed
  /\ k \in Letters => Room
  /\ pressed' = pressed \cup {k}
  /\ Send(k, FALSE)

Release(k) == k \in pressed /\ pressed' = pressed \ {k} /\ Send(k, TRUE)

-----------------------------------------------------------------------------
(* The kernel.  The tests of the handler in their order: a byte is for the *)
(* first of them that it passes.                                           *)

IsMake(b, position)  == b.position = position /\ ~b.up
IsBreak(b, position) == b.position = position /\ b.up

IsModifier(b) == b.position \in Shifts \cup {"ctrl"} \/ IsMake(b, "caps lock")
IsE0(b)   == b.position = "E0"
IsRelease(b)  == b.up /\ ~IsModifier(b)
IsKey(b)      == ~IsModifier(b) /\ ~IsE0(b) /\ ~b.up

Took(b, did) ==
  /\ wire' = Tail(wire)
  /\ last' = [key |-> b.key, held |-> b.held, did |-> did]
  /\ UNCHANGED <<keys, pressed>>

(* The modifiers, which leave extended as it is.                           *)
ReleaseForgotten(b) ==
  /\ IsModifier(b)
  /\ caps_lock' = (caps_lock # IsMake(b, "caps lock"))
  /\ shift_held' = (shift_held \/ b.position \in Shifts)
  /\ ctrl_held' = (ctrl_held \/ b.position = "ctrl")
  /\ Took(b, "nothing")
  /\ UNCHANGED <<extended, line>>
Modifier(b) ==
  /\ IsModifier(b)
  /\ caps_lock' = (caps_lock # IsMake(b, "caps lock"))
  /\ shift_held' = IF b.position \in Shifts THEN ~b.up ELSE shift_held
  /\ ctrl_held' = IF b.position = "ctrl" THEN ~b.up ELSE ctrl_held
  /\ Took(b, "nothing")
  /\ UNCHANGED <<extended, line>>

Prefix(b) ==
  /\ IsE0(b)
  /\ extended' = TRUE
  /\ Took(b, "nothing")
  /\ UNCHANGED <<shift_held, ctrl_held, caps_lock, line>>

(* Any other release, the second byte of an arrow's release included.      *)
OtherRelease(b) ==
  /\ IsRelease(b)
  /\ Took(b, "nothing")
  /\ UNCHANGED <<shift_held, ctrl_held, caps_lock, extended, line>>

ControlUntested(b) ==
  /\ IsKey(b) /\ b.position \in {"c", "l"}
  /\ Took(b, IF b.position = "c" THEN "interrupt" ELSE "clear screen")
  /\ line' = IF b.position = "c" THEN <<>> ELSE line
  /\ UNCHANGED <<shift_held, ctrl_held, caps_lock, extended>>
Control(b) ==
  /\ IsKey(b) /\ ctrl_held
  /\ Took(b, CASE b.position = "c" -> "interrupt"
               [] b.position = "l" -> "clear screen"
               [] OTHER -> "nothing")
  /\ line' = IF b.position = "c" THEN <<>> ELSE line
  /\ UNCHANGED <<shift_held, ctrl_held, caps_lock, extended>>

(* After E0, nothing but the arrows does anything.  What the line becomes  *)
(* then is up to the history (module Shell): any line.                     *)
Extended(b) ==
  /\ IsKey(b) /\ ~ctrl_held /\ extended
  /\ extended' = FALSE
  /\ Took(b, CASE b.position = "8" -> "history up"
               [] b.position = "2" -> "history down"
               [] OTHER -> "nothing")
  /\ IF b.position \in {"8", "2"} THEN line' \in {line, <<>>} ELSE UNCHANGED line
  /\ UNCHANGED <<shift_held, ctrl_held, caps_lock>>

(* The keypad without E0 has no character in scancode_to_ascii.            *)
IsLetter(b) == b.position \in Letters

Letter(b) == [key |-> b.position, upper |-> shift_held # caps_lock]

Plain(b) ==
  /\ IsKey(b) /\ ~ctrl_held /\ ~extended
  /\ \/ /\ IsLetter(b)
        /\ line' = Append(line, Letter(b))
        /\ Took(b, IF shift_held THEN "shifted character" ELSE "character")
     \/ /\ b.position = "backspace"
        /\ line' = IF line = <<>> THEN line ELSE SubSeq(line, 1, Len(line) - 1)
        /\ Took(b, "erase")
     \/ /\ b.position = "enter"
        /\ line' = <<>>
        /\ Took(b, "execute")
     \/ /\ ~IsLetter(b) /\ b.position \notin {"backspace", "enter"}
        /\ UNCHANGED line
        /\ Took(b, "nothing")
  /\ UNCHANGED <<shift_held, ctrl_held, caps_lock, extended>>

Handle ==
  /\ wire # <<>>
  /\ LET b == Head(wire)
     IN Modifier(b) \/ Prefix(b) \/ OtherRelease(b) \/ Control(b) \/ Extended(b) \/ Plain(b)

KeyboardNext == (\E k \in keys : Press(k) \/ Release(k)) \/ Handle

(* The interrupt comes again as long as there is a byte to read: the end   *)
(* of every path through the handler acknowledges it, and the program in   *)
(* ring 3 runs with interrupts on.                                         *)
KeyboardSpec == KeyboardInit /\ [][KeyboardNext]_keyboardVars /\ WF_keyboardVars(Handle)

-----------------------------------------------------------------------------
(* Every variable has the values it is meant to have.                      *)
KeyboardTypeOK ==
  /\ keys \in Users /\ pressed \subseteq keys
  /\ wire \in Seq(Byte)
  /\ {shift_held, ctrl_held, caps_lock, extended} \subseteq BOOLEAN
  /\ line \in Seq([key : Letters, upper : BOOLEAN])
  /\ last \in [key : keys \cup {"none"}, held : SUBSET keys, did : Did]

(* When all bytes have been read, no modifier is stuck: the kernel takes   *)
(* shift or control for held only while one of the two keys is down,       *)
(* whatever has been pressed in between, the other one of the two included.*)
NoStuckModifier ==
  wire = <<>> => /\ shift_held => Shifts \cap pressed # {}
                 /\ ctrl_held => Ctrls \cap pressed # {}

(* However late a byte is read, a modifier changes its meaning only if the *)
(* user held that modifier when the key went down: no capital without      *)
(* shift, no ^C and no clearing of the screen without control.             *)
NoPhantomModifier ==
  /\ last.did = "shifted character" => Shifts \cap last.held # {}
  /\ last.did \in {"interrupt", "clear screen"} => Ctrls \cap last.held # {}

(* With one shift key in use, shift is never missed either: a letter that  *)
(* is read as unshifted went down without shift.  (With two, letting go of *)
(* one of them is taken for letting go of both.)                           *)
ShiftIsHonoured ==
  Cardinality(keys \cap Shifts) < 2 /\ last.did = "character"
    => Shifts \cap last.held = {}

(* The modifiers of the kernel are those of the user, for all that bytes   *)
(* are read late and two keys share a flag: none sticks, none acts that    *)
(* was not held, and none is missed.                                       *)
ModifiersFollowKeys ==
  KeyboardTypeOK /\ NoStuckModifier /\ NoPhantomModifier /\ ShiftIsHonoured

(* A user who lets go of everything gets rid of the modifiers, unless a key*)
(* goes down again.                                                        *)
ModifiersLetGo ==
  (pressed = {}) ~> (pressed # {} \/ (~shift_held /\ ~ctrl_held))

(* "up arrow": the history moves back for the arrow key, not for another   *)
(* key with the same position.                                             *)
HistoryMovesByArrows == last.did = "history up" => last.key = "up"
=============================================================================
