------------------------------ MODULE PipeFifo ------------------------------
(***************************************************************************)
(* What a pipe promises: a bounded queue of bytes between two ends.  Bytes *)
(* come out as they were put in, a reader is told of the end of the file   *)
(* only when nothing is left and nobody can write any more, and a writer   *)
(* that the pipe is broken only when nobody can read.  Module Files        *)
(* implements it with a ring in a page, counts of open files and sleeping  *)
(* processes.                                                              *)
(***************************************************************************)
EXTENDS Naturals, Sequences, SequencesExt

CONSTANTS Byte, Capacity

VARIABLES
  queue,    \* the bytes in the pipe
  ends,     \* the ends that somebody holds open
  told      \* what the last call was told: "ok", "eof" or "broken"

fifoVars == <<queue, ends, told>>

Ends == {"read", "write"}

Init == queue = <<>> /\ ends = {} /\ told = "ok"

\* A new pipe.
Make ==
  /\ ends = {} /\ ends' = Ends
  /\ queue' = <<>> /\ told' = "ok"

\* Some of the bytes of a write enter the queue; the writer may learn at the
\* same time that it has no reader.
Put ==
  /\ "write" \in ends
  /\ \E n \in 1..(Capacity - Len(queue)) : \E b \in Byte :
       queue' = queue \o [k \in 1..n |-> b]
  /\ told' \in {"ok"} \cup (IF "read" \in ends THEN {} ELSE {"broken"})
  /\ UNCHANGED ends

Take ==
  /\ "read" \in ends
  /\ \E n \in 1..Len(queue) : queue' = SubSeq(queue, n + 1, Len(queue))
  /\ told' = "ok"
  /\ UNCHANGED ends

TellEof ==
  /\ "read" \in ends /\ "write" \notin ends /\ queue = <<>>
  /\ told' = "eof"
  /\ UNCHANGED <<queue, ends>>

TellBroken ==
  /\ "write" \in ends /\ "read" \notin ends
  /\ told' = "broken"
  /\ UNCHANGED <<queue, ends>>

\* The last descriptor of one end, or of both at once, is closed; what is
\* left in a pipe that nobody holds is lost.
Close ==
  /\ ends' \in (SUBSET ends) \ {ends}
  /\ queue' = IF ends' = {} THEN <<>> ELSE queue
  /\ told' = "ok"

Next == Make \/ Put \/ Take \/ TellEof \/ TellBroken \/ Close

Spec == Init /\ [][Next]_fifoVars
=============================================================================
