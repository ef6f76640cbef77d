----------------------------- MODULE MCDevices -----------------------------
(***************************************************************************)
(* What sys_read and sys_write of fs/read_write.c choose between by the    *)
(* mode of the inode: regular files, serial lines, and the console with    *)
(* its keyboard.  The parts share no state, so that a behaviour of the     *)
(* product shows no more than the behaviours of its parts: each behaviour  *)
(* is one of a single device, which is chosen at first.                    *)
(***************************************************************************)
EXTENDS EncryptedFiles, Tty, Console, Keyboard

VARIABLE device

MCKeys == {<<2, 1>>, <<3, 1, 2, 2>>}

DevicesInit ==
  /\ device \in {"file", "line", "screen", "keyboard"}
  /\ Init /\ TtyInit /\ ConInit /\ KbdInit

FileStepsOnly ==
  /\ device = "file" /\ Next
  /\ UNCHANGED <<ttyVars, con, kbdVars, device>>

LineStepsOnly ==
  /\ device = "line" /\ TtyNext
  /\ UNCHANGED <<vars, con, kbdVars, device>>

ScreenStepsOnly ==
  /\ device = "screen" /\ ConNext
  /\ UNCHANGED <<vars, ttyVars, kbdVars, device>>

KeyboardStepsOnly ==
  /\ device = "keyboard" /\ KbdNext
  /\ UNCHANGED <<vars, ttyVars, con, device>>

DevicesNext ==
  FileStepsOnly \/ LineStepsOnly \/ ScreenStepsOnly \/ KeyboardStepsOnly

DevicesSpec ==
  DevicesInit /\ [][DevicesNext]_<<vars, ttyVars, con, kbdVars, device>>

\* Of two calls on files that overlap neither is one of the last two allowed.
\* One character waits before the readers' queue of a line at most, a line's
\* end or an interrupt, and a queue of a line is full only while the other is
\* empty.  Two keys are down at a time, and one character that is no part of
\* a sequence is in the keyboard's queue.  One letter is on the screen: what
\* moves cells does not look at them, so that one letter in every place shows
\* where each goes.
Bound ==
  /\ calls >= MaxCalls - 1 => Cardinality({s \in Slots : ~InUser(s)}) <= 1
  /\ tty.read_q \in {<<>>, <<"nl">>, <<"intr">>}
  /\ Len(tty.secondary) + tty.write_q <= 2
  /\ Cardinality(held) <= 2
  /\ Cardinality({i \in DOMAIN key_queue : key_queue[i].what.kind # "cursor"}) <= 1
  /\ Cardinality({c \in Cells : con.mem[c] \in Letters}) <= 1
=============================================================================
