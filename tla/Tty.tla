-------------------------------- MODULE Tty --------------------------------
(***************************************************************************)
(* A serial line: tty_read and tty_write of kernel/tty_io.c, the interrupt *)
(* handlers of kernel/rs_io.s and the ioctls that change the line.         *)
(*                                                                         *)
(* A process in the kernel runs until it sleeps or yields, but an interrupt*)
(* may come between any two of its steps unless interrupts are off, and an *)
(* interrupt of the line runs to its end.  The processes that sleep on a   *)
(* queue are woken together, which is what module WaitQueue shows of the   *)
(* chain they form.                                                        *)
(***************************************************************************)
EXTENDS Integers, Sequences, FiniteSets

CONSTANTS
  Readers, Writers, \* processes
  TTY_BUF_SIZE,     \* 1024
  Room,             \* 20: with less room a partial line is read
  Low,              \* 128: a writer sleeps until so much is left
  startup,          \* 256: writers are woken when no more is queued
  Sizes,           \* the sizes of requests
  Nobody

ASSUME TtyAssumption ==
  /\ TTY_BUF_SIZE \in Nat \ {0, 1} /\ {Room, Low, startup} \subseteq Nat
  /\ Low + startup < TTY_BUF_SIZE
  /\ Sizes \subseteq Nat \ {0} /\ Nobody \notin Readers \cup Writers

Procs == Readers \cup Writers

Typed == {"a", "nl", "cr", "eof", "erase", "intr"}
Ends == {"nl", "eof"}           \* what tty_read and copy_to_cooked count

VARIABLES
  tty,          \* the line: the characters of read_q and secondary, of write_q
                \* only how many they are; data of secondary; the modes canon
                \* and echo; the transmit interrupt tx; intr while an interrupt
                \* character is handled; head: whether the head of write_q is
                \* loaded by a writer, and was moved after that
  running,      \* the process that is in the kernel and not asleep
  io,           \* the system call of each process
  signal,       \* processes with a signal
  torn          \* head or tail of a queue was overwritten after an interrupt
                \* had moved it; no step is modelled from there

ttyVars == <<tty, running, io, signal, torn>>

---------------------------------------------------------------------------
(* The macros of linux/tty.h, for queues as sequences and their lengths: a *)
(* head that is advanced to the tail makes a full queue an empty one.      *)

Wrapped(n) == n % TTY_BUF_SIZE
LEFT(n) == TTY_BUF_SIZE - 1 - n
FULL(n) == LEFT(n) = 0
PUTCH(c, q) == IF FULL(Len(q)) THEN <<>> ELSE Append(q, c)
LAST(q) == q[Len(q)]
DEC(q) == SubSeq(q, 1, Len(q) - 1)

NoCall == [pc |-> "idle", nr |-> 0, got |-> 0, c |-> "a"]

TtyInit ==
  /\ tty = [read_q |-> <<>>, secondary |-> <<>>, data |-> 0, write_q |-> 0,
            canon |-> TRUE, echo |-> TRUE, tx |-> FALSE, intr |-> FALSE,
            head |-> "stored"]
  /\ running = Nobody
  /\ io = [p \in Procs |-> NoCall]
  /\ signal = {}
  /\ torn = FALSE

Asleep(pc) == {p \in Procs : io[p].pc = pc}
Woken(pcs) ==
  [p \in Procs |->
     IF io[p].pc \in pcs
       THEN [io[p] EXCEPT !.pc = IF @ = "empty_asleep" THEN "empty" ELSE "full"]
       ELSE io[p]]

---------------------------------------------------------------------------
(* Interrupts.                                                             *)

\* rs_write: a line that has something to send interrupts when it can.
rs_write(t) == [t EXCEPT !.tx = @ \/ t.write_q # 0]

\* n characters of echo; nobody looks whether they fit.
Echo(t, n) ==
  IF ~t.echo \/ n = 0 THEN t
  ELSE rs_write([t EXCEPT !.write_q = Wrapped(@ + n),
                         !.head = IF @ = "loaded" THEN "moved" ELSE @])

\* A broken variant: only lines are counted, not ends of file.
TakeUncounted(t, c) ==
  [t EXCEPT !.secondary = PUTCH(c, @), !.data = IF c = "nl" THEN @ + 1 ELSE @]

\* A character goes to the readers; ends of lines are counted.
Take(t, c) ==
  [t EXCEPT !.secondary = PUTCH(c, @), !.data = IF c \in Ends THEN @ + 1 ELSE @]

\* copy_to_cooked: one character.
Cook(t) ==
  LET c == IF Head(t.read_q) = "cr" THEN "nl" ELSE Head(t.read_q)
      s == [t EXCEPT !.read_q = Tail(@)]
  IN IF t.canon /\ c = "erase"
       THEN IF t.secondary = <<>> \/ LAST(t.secondary) \in Ends THEN s
            ELSE [Echo(s, 1) EXCEPT !.secondary = DEC(@)]
     ELSE IF c = "intr" THEN [s EXCEPT !.intr = TRUE]
     ELSE Take(Echo(s, IF c = "nl" THEN 2 ELSE IF c = "eof" THEN 0 ELSE 1), c)

copy_to_cooked(t) ==
  LET f[n \in 0..TTY_BUF_SIZE] ==
        IF n = 0 THEN t
        ELSE LET s == f[n - 1]
             IN IF s.read_q = <<>> \/ FULL(Len(s.secondary)) THEN s ELSE Cook(s)
  IN f[TTY_BUF_SIZE]

\* read_char: a character that does not fit is dropped.  The process group
\* of the line is all of Procs.
read_char ==
  /\ ~torn
  /\ \E c \in Typed :
       LET t == IF FULL(Len(tty.read_q)) THEN tty
                ELSE copy_to_cooked([tty EXCEPT !.read_q = Append(@, c)])
           woken == {"empty_asleep"} \cup IF t.intr THEN {"full_asleep"} ELSE {}
       IN /\ tty' = [t EXCEPT !.intr = FALSE]
          /\ signal' = IF t.intr THEN Procs ELSE signal
          /\ io' = IF t # tty THEN Woken(woken) ELSE io
  /\ UNCHANGED <<running, torn>>

\* A broken variant: an empty queue wakes nobody.
AtEndSilent(n) == n \in 1..startup

\* Writers are woken when little is left to send.
AtEnd(n) == n <= startup

write_char ==
  /\ ~torn /\ tty.tx
  /\ LET n == IF tty.write_q = 0 THEN 0 ELSE tty.write_q - 1
     IN tty' = [tty EXCEPT !.write_q = n, !.tx = n # 0]
  /\ io' = IF AtEnd(tty.write_q) \/ tty.write_q = 1 THEN Woken({"full_asleep"}) ELSE io
  /\ UNCHANGED <<running, signal, torn>>

---------------------------------------------------------------------------
(* Processes.                                                              *)

StartCall(p, pc) ==
  /\ running = Nobody /\ io[p].pc = "idle"
  /\ running' = p
  /\ \E n \in Sizes : io' = [io EXCEPT ![p] = [NoCall EXCEPT !.pc = pc, !.nr = n]]
  /\ UNCHANGED <<tty, signal, torn>>

\* A process goes on after sleeping or schedule.
Resume(p) ==
  /\ running = Nobody /\ io[p].pc \in {"empty", "full", "ready"}
  /\ running' = p
  /\ io' = [io EXCEPT ![p].pc = IF @ = "ready" THEN "write" ELSE @]
  /\ UNCHANGED <<tty, signal, torn>>

InCall(p, pc) == ~torn /\ running = p /\ io[p].pc = pc
Goto(p, pc) == io' = [io EXCEPT ![p].pc = pc] /\ UNCHANGED running

\* The call returns; signals are taken on the way out.
Leave(p) ==
  /\ io' = [io EXCEPT ![p] = NoCall]
  /\ running' = Nobody
  /\ signal' = signal \ {p}
  /\ UNCHANGED <<tty, torn>>

\* The head of tty_read's loop.  A partial line is waited for, but
\* sleep_if_empty returns at once when there is one: the loop spins.
ReadLoop(p) ==
  /\ InCall(p, "read")
  /\ IF io[p].nr = 0 \/ p \in signal THEN Leave(p)
     ELSE /\ Goto(p, IF \/ tty.secondary = <<>>
                      \/ /\ tty.canon /\ tty.data = 0
                         /\ LEFT(Len(tty.secondary)) > Room
                     THEN "empty" ELSE "get")
          /\ UNCHANGED <<tty, signal, torn>>

\* sleep_if_empty: the queue is looked at with interrupts off.
sleep_if_empty(p) ==
  /\ InCall(p, "empty")
  /\ IF p \notin signal /\ tty.secondary = <<>>
       THEN io' = [io EXCEPT ![p].pc = "empty_asleep"] /\ running' = Nobody
       ELSE Goto(p, "read")
  /\ UNCHANGED <<tty, signal, torn>>

\* GETCH; an interrupt may have erased the character it was for.
ReadGet(p) ==
  /\ InCall(p, "get")
  /\ IF tty.secondary = <<>> THEN torn' = TRUE /\ UNCHANGED <<tty, io>>
     ELSE /\ tty' = [tty EXCEPT !.secondary = Tail(@)]
          /\ io' = [io EXCEPT ![p].pc = "count", ![p].c = Head(tty.secondary)]
          /\ UNCHANGED torn
  /\ UNCHANGED <<running, signal>>

\* The count follows; the character is given to the user unless it ends the
\* file.  In canonical mode any character ends the outer loop, else VMIN = 1.
ReadCount(p) ==
  /\ InCall(p, "count")
  /\ tty' = [tty EXCEPT !.data = IF io[p].c \in Ends THEN @ - 1 ELSE @]
  /\ IF io[p].c = "eof" /\ tty.canon
       THEN /\ io' = [io EXCEPT ![p] = NoCall]
            /\ running' = Nobody
            /\ signal' = signal \ {p}
       ELSE /\ io' = [io EXCEPT ![p].nr = @ - 1, ![p].c = "a",
                      ![p].pc = IF io[p].nr > 1 /\ tty.secondary # <<>>
                                  THEN "get" ELSE "done"]
            /\ UNCHANGED <<running, signal>>
  /\ UNCHANGED torn

ReadDone(p) == InCall(p, "done") /\ Leave(p)

\* tty_write: sleep_if_full looks once, then with interrupts off.
WriteLoop(p) ==
  /\ InCall(p, "write")
  /\ IF io[p].nr = 0 THEN Leave(p)
     ELSE Goto(p, IF FULL(tty.write_q) THEN "full" ELSE "next")
          /\ UNCHANGED <<tty, signal, torn>>

sleep_if_full(p) ==
  /\ InCall(p, "full")
  /\ IF p \notin signal /\ LEFT(tty.write_q) < Low
       THEN io' = [io EXCEPT ![p].pc = "full_asleep"] /\ running' = Nobody
       ELSE Goto(p, "next")
  /\ UNCHANGED <<tty, signal, torn>>

\* The inner loop; the check for a signal comes before the first character.
WriteNext(p) ==
  /\ InCall(p, "next")
  /\ IF p \in signal /\ io[p].got = 0 THEN Leave(p)
     ELSE /\ Goto(p, IF io[p].nr > 0 /\ ~FULL(tty.write_q) THEN "load" ELSE "start")
          /\ UNCHANGED <<tty, signal, torn>>

\* PUTCH loads the head, stores the character and then one more than what was
\* loaded.
WriteLoad(p) ==
  /\ InCall(p, "load")
  /\ tty' = [tty EXCEPT !.head = "loaded"]
  /\ Goto(p, "store")
  /\ UNCHANGED <<signal, torn>>

WriteStore(p) ==
  /\ InCall(p, "store")
  /\ IF tty.head = "moved" THEN torn' = TRUE /\ UNCHANGED <<tty, io>>
     ELSE /\ tty' = [tty EXCEPT !.write_q = Wrapped(@ + 1), !.head = "stored"]
          /\ io' = [io EXCEPT ![p].pc = "next", ![p].nr = @ - 1, ![p].got = 1]
          /\ UNCHANGED torn
  /\ UNCHANGED <<running, signal>>

\* tty->write, and schedule if there is more to write.
WriteStart(p) ==
  /\ InCall(p, "start")
  /\ IF io[p].nr = 0
       THEN io' = [io EXCEPT ![p] = NoCall] /\ signal' = signal \ {p}
       ELSE io' = [io EXCEPT ![p].pc = "ready", ![p].got = 0] /\ UNCHANGED signal
  /\ running' = Nobody
  /\ tty' = rs_write(tty)
  /\ UNCHANGED torn

\* tty_ioctl: TCFLSH, TCSETS and TCSETSF.  The characters that mean something
\* are never changed here.
tty_ioctl ==
  /\ ~torn /\ running = Nobody
  /\ \/ \E read, write \in BOOLEAN :
          /\ read \/ write
          /\ tty' = [tty EXCEPT !.read_q = IF read THEN <<>> ELSE @,
                                !.write_q = IF write THEN 0 ELSE @]
     \/ \E canon, echo, read \in BOOLEAN :
          tty' = [tty EXCEPT !.canon = canon, !.echo = echo,
                             !.read_q = IF read THEN <<>> ELSE @]
  /\ UNCHANGED <<running, io, signal, torn>>

TtyProcess(p) ==
  \/ p \in Readers /\ StartCall(p, "read")
  \/ p \in Writers /\ StartCall(p, "write")
  \/ Resume(p)
  \/ ReadLoop(p) \/ sleep_if_empty(p) \/ ReadGet(p) \/ ReadCount(p) \/ ReadDone(p)
  \/ WriteLoop(p) \/ sleep_if_full(p) \/ WriteNext(p) \/ WriteLoad(p) \/ WriteStore(p)
  \/ WriteStart(p)

TtyNext == read_char \/ write_char \/ tty_ioctl \/ \E p \in Procs : TtyProcess(p)

TtySpec == TtyInit /\ [][TtyNext]_ttyVars

---------------------------------------------------------------------------
(* Properties.                                                             *)

\* The interrupt counts the lines it puts in, readers those they take out, a
\* character at a time and with interrupts between, and erase takes
\* characters off meanwhile: the count that tty_read decides on is right.
LinesCounted ==
  tty.data = Cardinality({i \in DOMAIN tty.secondary : tty.secondary[i] \in Ends})
             + Cardinality({p \in Procs : io[p].pc = "count" /\ io[p].c \in Ends})

\* Nobody sleeps for what is there: a reader sleeps while there is nothing to
\* read, and while a writer sleeps the line will interrupt.
LineSleepers ==
  /\ Asleep("empty_asleep") # {} => tty.secondary = <<>>
  /\ Asleep("full_asleep") # {} => tty.tx
=============================================================================
