------------------------------ MODULE Keyboard ------------------------------
(***************************************************************************)
(* The keyboard interrupt of kernel/keyboard.s: scan codes change modes    *)
(* and become characters, or sequences of them, in the read queue of the   *)
(* console.  Of the key tables there is one character per layout and plane.*)
(*                                                                         *)
(* A key sends one scan code when it goes down and one when it comes up,   *)
(* some after a prefix; wire holds the codes that have not been read yet.  *)
(***************************************************************************)
EXTENDS Integers, Sequences, SequencesExt

CONSTANTS
  KEY_QUEUE,    \* size of the read queue
  layouts_num,
  KeyboardKeys  \* the keys that are pressed, of those below

\* The layout that a user loads is the third.
ASSUME KeyboardAssumption ==
  /\ KEY_QUEUE \in Nat \ {0, 1} /\ layouts_num \in Nat \ 0..2
  /\ KeyboardKeys \cap {"e0", "e1"} = {}

VARIABLES
  mode,             \* the bits of mode that are set
  num_lock,         \* of leds
  e0,               \* the prefix just read: 0, 1 or 2
  holding_alt, selected_layout,
  key_queue,        \* the characters in the read queue
  held, wire        \* keys that are down, and codes under way

kbdVars == <<mode, num_lock, e0, holding_alt, selected_layout, key_queue, held,
             wire>>

Modifiers == {"lshift", "rshift", "lctrl", "rctrl", "lalt", "altgr"}
Extended == {"rctrl", "altgr", "slash", "cursor"}

KbdInit ==
  /\ mode = {} /\ num_lock = TRUE /\ e0 = 0
  /\ holding_alt = FALSE /\ selected_layout = 0
  /\ key_queue = <<>>
  /\ held = {} /\ wire = <<>>

---------------------------------------------------------------------------
(* The user.                                                               *)

\* The code of a key: left and right differ by the prefix.
Code(k) ==
  CASE k = "rctrl" -> "lctrl" [] k = "altgr" -> "lalt" [] k = "slash" -> "minus"
    [] k = "cursor" -> "keypad" [] OTHER -> k

Scan(k, down) == [key |-> k, down |-> down]
Codes(k, down) ==
  (IF k \in Extended THEN <<Scan("e0", TRUE)>> ELSE <<>>) \o <<Scan(Code(k), down)>>

Press ==
  /\ wire = <<>>
  /\ \E k \in KeyboardKeys \ (held \cup {"pause"}) :
       /\ held' = held \cup {k}
       /\ wire' = Codes(k, TRUE)
  /\ UNCHANGED <<mode, num_lock, e0, holding_alt, selected_layout, key_queue>>

Release ==
  /\ wire = <<>>
  /\ \E k \in held :
       /\ held' = held \ {k}
       /\ wire' = Codes(k, FALSE)
  /\ UNCHANGED <<mode, num_lock, e0, holding_alt, selected_layout, key_queue>>

\* The pause key sends ctrl and num-lock behind a prefix of its own; while a
\* ctrl key is held it is another key.
Pause ==
  /\ wire = <<>> /\ "pause" \in KeyboardKeys /\ held \cap {"lctrl", "rctrl"} = {}
  /\ wire' = <<Scan("e1", TRUE), Scan("lctrl", TRUE), Scan("num", TRUE),
               Scan("e1", TRUE), Scan("lctrl", FALSE), Scan("num", FALSE)>>
  /\ UNCHANGED <<mode, num_lock, e0, holding_alt, selected_layout, key_queue,
                 held>>

---------------------------------------------------------------------------
(* keyboard_interrupt.                                                     *)

\* put_queue: all characters of a sequence, or none if they do not fit.
put_queue(chars) ==
  key_queue' = IF Len(key_queue) + Len(chars) <= KEY_QUEUE - 1
                 THEN key_queue \o chars ELSE key_queue

\* A sequence of n characters; part i of n.
Chars(n, what) == [i \in 1..n |-> [part |-> i, of |-> n, what |-> what]]

\* A broken variant: the prefix is not looked at when the key comes up.
SideIgnored(left, right, down) == IF e0 = 0 \/ ~down THEN left ELSE right

\* The bit of ctrl or alt: shifted left after any prefix.
Side(left, right, down) == IF e0 = 0 THEN left ELSE right

Modify(down, bit) == mode' = IF down THEN mode \cup {bit} ELSE mode \ {bit}

\* ctrl, unctrl.
Ctrl(down) ==
  /\ Modify(down, Side("lctrl", "rctrl", down))
  /\ UNCHANGED <<num_lock, holding_alt, selected_layout, key_queue>>

\* alt, unalt: holding_alt does not tell one alt from the other.
Alt(down) ==
  /\ Modify(down, Side("lalt", "altgr", down))
  /\ holding_alt' = down
  /\ UNCHANGED <<num_lock, selected_layout, key_queue>>

\* lshift with alt goes to the next layout.
LShift(down) ==
  /\ Modify(down, "lshift")
  /\ selected_layout' = IF down /\ holding_alt
                          THEN IF selected_layout + 1 < layouts_num
                                 THEN selected_layout + 1 ELSE 0
                          ELSE selected_layout
  /\ UNCHANGED <<num_lock, holding_alt, key_queue>>

RShift(down) ==
  /\ Modify(down, "rshift")
  /\ UNCHANGED <<num_lock, holding_alt, selected_layout, key_queue>>

\* caps changes its state once while it is held down and repeats.
Caps(down) ==
  /\ mode' = IF ~down THEN mode \ {"capsdown"}
             ELSE IF "capsdown" \in mode THEN mode
             ELSE (IF "caps" \in mode THEN mode \ {"caps"}
                   ELSE mode \cup {"caps"}) \cup {"capsdown"}
  /\ UNCHANGED <<num_lock, holding_alt, selected_layout, key_queue>>

Num(down) ==
  /\ num_lock' = IF down THEN ~num_lock ELSE num_lock
  /\ UNCHANGED <<mode, holding_alt, selected_layout, key_queue>>

\* do_self: the plane of the layout, capitals, control characters and meta.
Self(down) ==
  /\ IF down
       THEN put_queue(Chars(1,
              [kind |-> "self", layout |-> selected_layout,
               plane |-> IF "altgr" \in mode THEN "alt"
                         ELSE IF mode \cap {"lshift", "rshift"} # {} THEN "shift"
                         ELSE "key",
               upper |-> mode \cap {"caps", "lctrl", "rctrl"} # {},
               ctrl |-> mode \cap {"lctrl", "rctrl"} # {},
               meta |-> "lalt" \in mode]))
       ELSE UNCHANGED key_queue
  /\ UNCHANGED <<mode, num_lock, holding_alt, selected_layout>>

\* cursor: the keypad gives a digit, or an escape sequence after a prefix,
\* without num-lock or with shift.
Keypad(down) ==
  /\ IF ~down THEN UNCHANGED key_queue
     ELSE IF e0 # 1 /\ num_lock /\ mode \cap {"lshift", "rshift"} = {}
     THEN put_queue(Chars(1, [kind |-> "digit"]))
     ELSE \E n \in {3, 4} : put_queue(Chars(n, [kind |-> "cursor"]))
  /\ UNCHANGED <<mode, num_lock, holding_alt, selected_layout>>

\* func compares the room with %ecx, which is what the interrupted program
\* has in it: the key may be dropped at any time.
Func(down) ==
  /\ \/ down /\ put_queue(Chars(4, [kind |-> "func"]))
     \/ UNCHANGED key_queue
  /\ UNCHANGED <<mode, num_lock, holding_alt, selected_layout>>

Minus(down) ==
  IF e0 # 1 THEN Self(down)
  ELSE /\ IF down THEN put_queue(Chars(1, [kind |-> "slash"])) ELSE UNCHANGED key_queue
       /\ UNCHANGED <<mode, num_lock, holding_alt, selected_layout>>

keyboard_interrupt ==
  /\ wire # <<>>
  /\ wire' = Tail(wire)
  /\ IF Head(wire).key \in {"e0", "e1"}
       THEN /\ e0' = IF Head(wire).key = "e0" THEN 1 ELSE 2
            /\ UNCHANGED <<mode, num_lock, holding_alt, selected_layout, key_queue>>
       ELSE LET k == Head(wire).key
                down == Head(wire).down
            IN /\ e0' = 0
               /\ CASE k = "lctrl" -> Ctrl(down) [] k = "lalt" -> Alt(down)
                    [] k = "lshift" -> LShift(down) [] k = "rshift" -> RShift(down)
                    [] k = "caps" -> Caps(down) [] k = "num" -> Num(down)
                    [] k = "keypad" -> Keypad(down) [] k = "func" -> Func(down)
                    [] k = "minus" -> Minus(down) [] OTHER -> Self(down)
  /\ UNCHANGED held

\* copy_to_cooked takes characters off, as many as the next queue has room for.
TakeKeys ==
  /\ key_queue # <<>>
  /\ \E n \in 1..Len(key_queue) : key_queue' = SubSeq(key_queue, n + 1, Len(key_queue))
  /\ UNCHANGED <<mode, num_lock, e0, holding_alt, selected_layout, held, wire>>

\* sys_change_user_layout loads the user's layout and selects it.
ChangeUserLayout ==
  /\ selected_layout' = 2
  /\ UNCHANGED <<mode, num_lock, e0, holding_alt, key_queue, held, wire>>

KbdNext == Press \/ Release \/ Pause \/ keyboard_interrupt \/ TakeKeys
           \/ ChangeUserLayout

KbdSpec == KbdInit /\ [][KbdNext]_kbdVars

---------------------------------------------------------------------------
\* The keyboard never sticks and never sends half a key: whenever all codes
\* are read, the mode bits are those of the keys that are held, though ctrl,
\* alt, keypad and slash share scan codes and differ by a prefix read in an
\* earlier interrupt; a sequence is in the queue from some part to its end,
\* and the layout is one that exists.
KeyboardInStep ==
  /\ wire = <<>> => /\ mode \cap Modifiers = held \cap Modifiers
                    /\ e0 = 0
  /\ \A i \in 1..Len(key_queue) :
       LET c == key_queue[i]
       IN IF i = Len(key_queue) THEN c.part = c.of
          ELSE key_queue[i + 1].part = IF c.part = c.of THEN 1 ELSE c.part + 1
  /\ selected_layout \in 0..(layouts_num - 1)
=============================================================================
