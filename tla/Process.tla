------------------------------ MODULE Process ------------------------------
(***************************************************************************)
(* The life of a process: fork (kernel/fork.c), exit, waitpid and kill     *)
(* (kernel/exit.c), and the delivery of signals at the end of a system     *)
(* call (kernel/system_call.s).                                            *)
(*                                                                         *)
(* The kernel is not preemptible, so a system call is one step between two *)
(* points where it may sleep: exit sleeps while it closes files, waitpid   *)
(* sleeps in pause.  Slot 0, the idle task, has pid 0 and no actions.      *)
(***************************************************************************)
EXTENDS Naturals

CONSTANTS
  N,        (* NR_TASKS - 1: the slots of the task table but the first     *)
  MaxPid    (* the largest pid, after which last_pid starts again at 1     *)

ASSUME NAssumption == N \in Nat \ {0}
ASSUME MaxPidAssumption == MaxPid \in Nat /\ MaxPid > N

Slots == 1 .. N
Pids == 1 .. MaxPid
Any == 0          \* waitpid's pid argument -1: any child

VARIABLES
  status,    (* what the slot's process is doing                           *)
  pid,       (* task_struct.pid                                            *)
  father,    (* task_struct.father: a pid, 0 when there is none            *)
  sigchld,   (* the SIGCHLD bit of task_struct.signal                      *)
  sigother,  (* another bit of task_struct.signal                          *)
  wanted,    (* the pid argument of the waitpid the process is asleep in   *)
  last_pid   (* the pid given last                                         *)

vars == <<status, pid, father, sigchld, sigother, wanted, last_pid>>

(* "none": task[slot] is NULL.  "waiting": asleep in waitpid's pause.      *)
(* "exiting": in do_exit, past the loop that disowns the children.         *)
Status == {"none", "running", "waiting", "exiting", "zombie"}

TypeOK ==
  /\ status \in [Slots -> Status]
  /\ pid \in [Slots -> 0 .. MaxPid]
  /\ father \in [Slots -> 0 .. MaxPid]
  /\ sigchld \in [Slots -> BOOLEAN]
  /\ sigother \in [Slots -> BOOLEAN]
  /\ wanted \in [Slots -> 0 .. MaxPid]
  /\ last_pid \in Pids

(* Process 1 runs init.                                                    *)
Init ==
  /\ status = [s \in Slots |-> IF s = 1 THEN "running" ELSE "none"]
  /\ pid = [s \in Slots |-> IF s = 1 THEN 1 ELSE 0]
  /\ father = [s \in Slots |-> 0]
  /\ sigchld = [s \in Slots |-> FALSE]
  /\ sigother = [s \in Slots |-> FALSE]
  /\ wanted = [s \in Slots |-> 0]
  /\ last_pid = 1

Live(s) == status[s] # "none"

(* Signals matter to the tasks that may still look at theirs.              *)
Alive(s) == status[s] \in {"running", "waiting"}

(* release(task[z]): the slot is empty.                                    *)
Release(z) ==
  /\ pid' = [pid EXCEPT ![z] = 0]
  /\ father' = [father EXCEPT ![z] = 0]

-----------------------------------------------------------------------------
(* fork                                                                    *)

UsedPids == {pid[s] : s \in {r \in Slots : Live(r)}}

(* The pids tried after p and before q, when last_pid counts up from p and *)
(* starts again at 1 after MaxPid.                                         *)
Between(p, q) == IF p < q THEN p + 1 .. q - 1
                          ELSE (p + 1 .. MaxPid) \cup (1 .. q - 1)

\* a broken variant
NextPidUnchecked(q) == q = (last_pid % MaxPid) + 1

(* find_empty_process counts last_pid up to a pid no task has.             *)
NextPid(q) == q \notin UsedPids /\ Between(last_pid, q) \subseteq UsedPids

FirstFree(c) == ~Live(c) /\ \A r \in Slots : r < c => Live(r)

(* Fork succeeds: the child takes the first free slot.                     *)
Fork(s) ==
  /\ status[s] = "running"
  /\ \E q \in Pids, c \in Slots :
       /\ NextPid(q)
       /\ FirstFree(c)
       /\ last_pid' = q
       /\ status' = [status EXCEPT ![c] = "running"]
       /\ pid' = [pid EXCEPT ![c] = q]
       /\ father' = [father EXCEPT ![c] = pid[s]]
       /\ sigchld' = [sigchld EXCEPT ![c] = FALSE]
       /\ sigother' = [sigother EXCEPT ![c] = FALSE]
  /\ UNCHANGED wanted

\* a broken variant
ForkFailsNoWrap(s) ==
  /\ status[s] = "running"
  /\ last_pid' = last_pid + 1
  /\ UNCHANGED <<status, pid, father, sigchld, sigother, wanted>>

(* Fork fails for want of a slot or of memory: the pid is spent.           *)
ForkFails(s) ==
  /\ status[s] = "running"
  /\ \E q \in Pids : NextPid(q) /\ last_pid' = q
  /\ UNCHANGED <<status, pid, father, sigchld, sigother, wanted>>

-----------------------------------------------------------------------------
(* exit                                                                    *)

\* a broken variant
ExitBeginKeepingChildren(s) ==
  /\ status[s] = "running"
  /\ status' = [status EXCEPT ![s] = "exiting"]
  /\ sigchld' = [sigchld EXCEPT ![s] = FALSE]
  /\ sigother' = [sigother EXCEPT ![s] = FALSE]
  /\ UNCHANGED <<pid, father, wanted, last_pid>>

(* The first half of do_exit: the children lose their father.  It then     *)
(* closes files and may sleep; its signals are never looked at again.      *)
ExitBegin(s) ==
  /\ status[s] = "running"
  /\ father' = [c \in Slots |-> IF Live(c) /\ father[c] = pid[s] THEN 0
                                ELSE father[c]]
  /\ status' = [status EXCEPT ![s] = "exiting"]
  /\ sigchld' = [sigchld EXCEPT ![s] = FALSE]
  /\ sigother' = [sigother EXCEPT ![s] = FALSE]
  /\ UNCHANGED <<pid, wanted, last_pid>>

\* a broken variant
ExitEndSilently(s) ==
  /\ status[s] = "exiting"
  /\ IF father[s] # 0
     THEN status' = [status EXCEPT ![s] = "zombie"] /\ UNCHANGED <<pid, father>>
     ELSE status' = [status EXCEPT ![s] = "none"] /\ Release(s)
  /\ UNCHANGED <<sigchld, sigother, wanted, last_pid>>

(* The second half: become a zombie and signal the father, if there still  *)
(* is one, and give up the slot otherwise.                                 *)
ExitEnd(s) ==
  /\ status[s] = "exiting"
  /\ IF father[s] # 0
     THEN /\ status' = [status EXCEPT ![s] = "zombie"]
          /\ sigchld' = [r \in Slots |-> \/ sigchld[r]
                                         \/ Alive(r) /\ pid[r] = father[s]]
          /\ UNCHANGED <<pid, father>>
     ELSE /\ status' = [status EXCEPT ![s] = "none"]
          /\ Release(s)
          /\ UNCHANGED sigchld
  /\ UNCHANGED <<sigother, wanted, last_pid>>

-----------------------------------------------------------------------------
(* waitpid                                                                 *)

Matches(c, w) == w = Any \/ pid[c] = w

Children(s, w) ==
  {c \in Slots \ {s} : Live(c) /\ Matches(c, w) /\ father[c] = pid[s]}

(* One pass over the task table, from the last slot down: release the      *)
(* first zombie child, or sleep if there are children but none is one, or  *)
(* return ECHILD.                                                          *)
Scan(s, w) ==
  LET children == Children(s, w)
      zombies == {c \in children : status[c] = "zombie"}
  IN
  \/ \E z \in zombies :
       /\ \A c \in zombies : c <= z
       /\ status' = [status EXCEPT ![z] = "none", ![s] = "running"]
       /\ wanted' = [wanted EXCEPT ![s] = 0]
       /\ Release(z)
  \/ /\ zombies = {} /\ children # {}
     /\ status' = [status EXCEPT ![s] = "waiting"]
     /\ wanted' = [wanted EXCEPT ![s] = w]
     /\ UNCHANGED <<pid, father>>
  \/ /\ children = {}
     /\ status' = [status EXCEPT ![s] = "running"]
     /\ wanted' = [wanted EXCEPT ![s] = 0]
     /\ UNCHANGED <<pid, father>>

Wait(s, w) ==
  /\ status[s] = "running"
  /\ Scan(s, w)
  /\ UNCHANGED <<sigchld, sigother, last_pid>>

(* Option WNOHANG: the call returns instead of sleeping.                   *)
WaitNoHang(s, w) ==
  /\ status[s] = "running"
  /\ Scan(s, w)
  /\ status'[s] = "running"
  /\ UNCHANGED <<sigchld, sigother, last_pid>>

\* a broken variant
ResumeNoRepeat(s) ==
  /\ status[s] = "waiting"
  /\ sigchld[s] \/ sigother[s]
  /\ sigchld' = [sigchld EXCEPT ![s] = FALSE]
  /\ IF sigother[s]
     THEN status' = [status EXCEPT ![s] = "running"] /\ wanted' = [wanted EXCEPT ![s] = 0]
     ELSE UNCHANGED <<status, wanted>>
  /\ UNCHANGED <<pid, father, sigother, last_pid>>

(* Pause has returned because of a signal.  SIGCHLD is dropped; with no    *)
(* other signal the table is scanned again, else the call returns EINTR.   *)
Resume(s) ==
  /\ status[s] = "waiting"
  /\ sigchld[s] \/ sigother[s]
  /\ sigchld' = [sigchld EXCEPT ![s] = FALSE]
  /\ IF sigother[s]
     THEN /\ status' = [status EXCEPT ![s] = "running"]
          /\ wanted' = [wanted EXCEPT ![s] = 0]
          /\ UNCHANGED <<pid, father>>
     ELSE Scan(s, wanted[s])
  /\ UNCHANGED <<sigother, last_pid>>

-----------------------------------------------------------------------------
(* Signals                                                                 *)

(* kill(p, sig) by process s, for a signal other than SIGCHLD.  Whether    *)
(* the sender may is left open.                                            *)
Kill(s, p) ==
  /\ status[s] = "running"
  /\ sigother' = [r \in Slots |-> sigother[r] \/ (Alive(r) /\ pid[r] = p)]
  /\ UNCHANGED <<status, pid, father, sigchld, wanted, last_pid>>

(* kill(p, SIGCHLD).                                                       *)
KillChld(s, p) ==
  /\ status[s] = "running"
  /\ sigchld' = [r \in Slots |-> sigchld[r] \/ (Alive(r) /\ pid[r] = p)]
  /\ UNCHANGED <<status, pid, father, sigother, wanted, last_pid>>

(* Return to user mode: signals are taken, by a handler or by being        *)
(* ignored, and those after the first that has a handler stay pending; or  *)
(* a default action ends the process (ExitBegin).                          *)
TakeSignals(s) ==
  /\ status[s] = "running"
  /\ \E chld, other \in BOOLEAN :
       /\ sigchld' = [sigchld EXCEPT ![s] = @ /\ chld]
       /\ sigother' = [sigother EXCEPT ![s] = @ /\ other]
  /\ UNCHANGED <<status, pid, father, wanted, last_pid>>

Next ==
  \E s \in Slots :
    \/ Fork(s)
    \/ ForkFails(s)
    \/ ExitBegin(s)
    \/ ExitEnd(s)
    \/ \E w \in Pids \cup {Any} : Wait(s, w)
    \/ \E w \in Pids \cup {Any} : WaitNoHang(s, w)
    \/ Resume(s)
    \/ \E p \in Pids : Kill(s, p)
    \/ \E p \in Pids : KillChld(s, p)
    \/ TakeSignals(s)

Spec == Init /\ [][Next]_vars

(* Every runnable task gets the processor (module Scheduler), a file is    *)
(* closed in finite time, and a signalled sleeper is made runnable.        *)
Fairness == \A s \in Slots : WF_vars(ExitEnd(s)) /\ WF_vars(Resume(s))

FairSpec == Spec /\ Fairness

-----------------------------------------------------------------------------
(* Properties                                                              *)

(* No two tasks have the same pid, although pids are given again when      *)
(* last_pid has wrapped (find_empty_process).                              *)
PidsUnique ==
  \A r, s \in Slots : (Live(r) /\ Live(s) /\ pid[r] = pid[s]) => r = s

(* A father named in a task is a process that still can wait for it: it is *)
(* alive, not a zombie and not on its way out (do_exit, copy_process).     *)
FatherAlive ==
  \A c \in Slots :
    (Live(c) /\ father[c] # 0) =>
       \E s \in Slots :
         s # c /\ Alive(s) /\ pid[s] = father[c]

(* Nobody sleeps in waitpid for nothing (sys_waitpid, do_exit): there is a *)
(* child to wait for, and when one has already ended, SIGCHLD is pending   *)
(* and will wake the father.                                               *)
WaiterInformed ==
  \A s \in Slots :
    status[s] = "waiting" =>
       /\ Children(s, wanted[s]) # {}
       /\ (\E c \in Children(s, wanted[s]) : status[c] = "zombie")
             => sigchld[s]

(* A father asleep in waitpid for a child that has ended gets out of the   *)
(* call, with that child or another, or interrupted.                       *)
WaitReturns ==
  \A s \in Slots :
    (status[s] = "waiting"
       /\ \E c \in Children(s, wanted[s]) : status[c] = "zombie")
      ~> (status[s] # "waiting")
=============================================================================
