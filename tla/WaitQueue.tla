----------------------------- MODULE WaitQueue -----------------------------
(***************************************************************************)
(* The sleep and wake-up primitives of kernel/sched.c.                     *)
(*                                                                         *)
(* A wait queue is one pointer, "struct task_struct *p": there is no list. *)
(* sleep_on keeps the task it found in *p in a local variable tmp on its   *)
(* own kernel stack and wakes it when it is itself woken, so the sleepers  *)
(* of a queue form a chain that exists only in their stacks.               *)
(*                                                                         *)
(* The kernel is not preemptible: a task keeps the processor until it      *)
(* calls schedule, and only interrupt handlers run in between.  current is *)
(* Nobody while schedule is choosing.  Which runnable task it takes is     *)
(* left open here (module Scheduler has the counters).                     *)
(***************************************************************************)
EXTENDS Naturals

CONSTANTS
  Tasks,       (* every task except task 0                                 *)
  Queues,      (* the wait queues: b_wait, i_wait, buffer_wait, ...        *)
  IntrQueues,  (* slept on with interruptible_sleep_on (tty proc_list)     *)
  IrqQueues,   (* woken by an interrupt handler                            *)
  CliQueues,   (* whose callers disable interrupts before they sleep       *)
  NULL,        (* the null pointer                                         *)
  Idle,        (* task 0, which never sleeps                               *)
  Nobody       (* no task has the processor: schedule is running           *)

ASSUME QueuesAssumption ==
  /\ IntrQueues \subseteq CliQueues
  /\ CliQueues \subseteq Queues
  /\ IrqQueues \subseteq Queues

ASSUME TokensAssumption ==
  /\ NULL \notin Tasks /\ NULL \notin Queues
  /\ Idle \notin Tasks /\ Nobody \notin Tasks /\ Idle # Nobody

VARIABLES
  state,    (* task_struct.state                                           *)
  signal,   (* does task_struct.signal have a bit set                      *)
  current,  (* the task on the processor                                   *)
  head,     (* the pointer *p of each queue                                *)
  tmp,      (* the local variable tmp of each task's sleep call            *)
  wq,       (* the queue whose sleep call the task is executing, or NULL   *)
  pc        (* where in that call the task is                              *)

sleepvars == <<state, signal, current, head, tmp, wq, pc>>

(* "out": not in a sleep call.  "linked": *p = current is done, the state  *)
(* is not yet written.  "slept": schedule has been called.                 *)
PC == {"out", "linked", "slept"}

SleepTypeOK ==
  /\ state \in [Tasks -> {"running", "interruptible", "uninterruptible"}]
  /\ signal \in [Tasks -> BOOLEAN]
  /\ current \in Tasks \cup {Idle, Nobody}
  /\ head \in [Queues -> Tasks \cup {NULL}]
  /\ tmp \in [Tasks -> Tasks \cup {NULL}]
  /\ wq \in [Tasks -> Queues \cup {NULL}]
  /\ pc \in [Tasks -> PC]

SleepInit ==
  /\ state = [t \in Tasks |-> "running"]
  /\ signal = [t \in Tasks |-> FALSE]
  /\ current = Idle
  /\ head = [q \in Queues |-> NULL]
  /\ tmp = [t \in Tasks |-> NULL]
  /\ wq = [t \in Tasks |-> NULL]
  /\ pc = [t \in Tasks |-> "out"]

-----------------------------------------------------------------------------
(* schedule                                                                *)

NoSignalScan == state           \* a broken variant: the loop left out

(* The first loop of schedule: an interruptible task that has got a signal *)
(* becomes runnable.                                                       *)
SignalScan ==
  [t \in Tasks |-> IF signal[t] /\ state[t] = "interruptible"
                   THEN "running" ELSE state[t]]

(* schedule switches to task t, one of the runnable ones.                  *)
Dispatch(t) ==
  /\ current = Nobody
  /\ state' = SignalScan
  /\ state'[t] = "running"
  /\ current' = t
  /\ UNCHANGED <<signal, head, tmp, wq, pc>>

(* With nothing to run it returns to task 0.                               *)
DispatchIdle ==
  /\ current = Nobody
  /\ state' = SignalScan
  /\ \A t \in Tasks : state'[t] # "running"
  /\ current' = Idle
  /\ UNCHANGED <<signal, head, tmp, wq, pc>>

(* A task outside the kernel loses the processor at a timer tick or at the *)
(* end of a system call; task 0 calls pause for ever.                      *)
Yield ==
  /\ \/ current = Idle
     \/ current \in Tasks /\ pc[current] = "out"
  /\ current' = Nobody
  /\ UNCHANGED <<state, signal, head, tmp, wq, pc>>

-----------------------------------------------------------------------------
(* sleep_on and interruptible_sleep_on                                     *)

AsleepIn(q) ==
  IF q \in IntrQueues THEN "interruptible" ELSE "uninterruptible"

EnterForgetting(q) ==         \* a broken variant: *p is not saved in tmp
  LET c == current IN
  /\ c \in Tasks
  /\ pc[c] = "out"
  /\ head' = [head EXCEPT ![q] = c]
  /\ wq' = [wq EXCEPT ![c] = q]
  /\ state' = [state EXCEPT ![c] = AsleepIn(q)]
  /\ pc' = [pc EXCEPT ![c] = "slept"]
  /\ current' = Nobody
  /\ UNCHANGED <<signal, tmp>>

(* tmp = *p; *p = current.  A caller that disabled interrupts goes on to   *)
(* write its state and to schedule in the same step; for the others an     *)
(* interrupt may come first.                                               *)
Enter(q) ==
  LET c == current IN
  /\ c \in Tasks
  /\ pc[c] = "out"
  /\ tmp' = [tmp EXCEPT ![c] = head[q]]
  /\ head' = [head EXCEPT ![q] = c]
  /\ wq' = [wq EXCEPT ![c] = q]
  /\ IF q \in CliQueues
     THEN /\ state' = [state EXCEPT ![c] = AsleepIn(q)]
          /\ pc' = [pc EXCEPT ![c] = "slept"]
          /\ current' = Nobody
     ELSE /\ pc' = [pc EXCEPT ![c] = "linked"]
          /\ UNCHANGED <<state, current>>
  /\ UNCHANGED signal

(* current->state = ...; schedule().                                       *)
Commit ==
  LET c == current IN
  /\ c \in Tasks
  /\ pc[c] = "linked"
  /\ state' = [state EXCEPT ![c] = AsleepIn(wq[c])]
  /\ pc' = [pc EXCEPT ![c] = "slept"]
  /\ current' = Nobody
  /\ UNCHANGED <<signal, head, tmp, wq>>

(* Make task t runnable, if it is one: "if (tmp) tmp->state = 0".          *)
Wake(t) == [u \in Tasks |-> IF u = t THEN "running" ELSE state[u]]

LeaveWithoutWaking(c) ==      \* a broken variant, used to test NoOrphans
  /\ state' = state
  /\ wq' = [wq EXCEPT ![c] = NULL]
  /\ tmp' = [tmp EXCEPT ![c] = NULL]
  /\ pc' = [pc EXCEPT ![c] = "out"]

Leave(c) ==
  /\ state' = Wake(tmp[c])
  /\ wq' = [wq EXCEPT ![c] = NULL]
  /\ tmp' = [tmp EXCEPT ![c] = NULL]
  /\ pc' = [pc EXCEPT ![c] = "out"]

(* sleep_on after schedule has returned: wake the next one of the chain.   *)
Return ==
  LET c == current IN
  /\ c \in Tasks
  /\ pc[c] = "slept"
  /\ wq[c] \notin IntrQueues
  /\ Leave(c)
  /\ UNCHANGED <<signal, current, head>>

(* interruptible_sleep_on after schedule has returned: a task that is not  *)
(* the first one wakes the first one and goes back to sleep ...            *)
Repeat ==
  LET c == current
      h == head[wq[c]]
  IN
  /\ c \in Tasks
  /\ pc[c] = "slept"
  /\ wq[c] \in IntrQueues
  /\ h # NULL /\ h # c
  /\ state' = [Wake(h) EXCEPT ![c] = "interruptible"]
  /\ current' = Nobody
  /\ UNCHANGED <<signal, head, tmp, wq, pc>>

(* ... and otherwise it empties the queue and wakes the next of the chain. *)
ReturnIntr ==
  LET c == current IN
  /\ c \in Tasks
  /\ pc[c] = "slept"
  /\ wq[c] \in IntrQueues
  /\ head[wq[c]] \in {NULL, c}
  /\ head' = [head EXCEPT ![wq[c]] = NULL]
  /\ Leave(c)
  /\ UNCHANGED <<signal, current>>

-----------------------------------------------------------------------------
(* wake_up and signals                                                     *)

WakeHeadSelf(q) ==         \* a broken variant: *p = current, not NULL
  /\ head[q] # NULL
  /\ state' = Wake(head[q])
  /\ head' = [head EXCEPT ![q] = current]
  /\ UNCHANGED <<signal, current, tmp, wq, pc>>

(* wake_up wakes the first sleeper only, and empties the queue.            *)
WakeHead(q) ==
  /\ head[q] # NULL
  /\ state' = Wake(head[q])
  /\ head' = [head EXCEPT ![q] = NULL]
  /\ UNCHANGED <<signal, current, tmp, wq, pc>>

(* It is called by the running task ...                                    *)
WakeUp(q) ==
  /\ current \in Tasks
  /\ pc[current] = "out"
  /\ WakeHead(q)

(* ... or by an interrupt handler, at any moment interrupts are enabled.   *)
IrqWakeUp(q) ==
  /\ q \in IrqQueues
  /\ WakeHead(q)

(* The serial line's handler writes the state of the first sleeper and     *)
(* leaves the pointer where it is.                                         *)
SerialWake(q) ==
  /\ q \in IrqQueues \cap IntrQueues
  /\ head[q] # NULL
  /\ state' = Wake(head[q])
  /\ UNCHANGED <<signal, current, head, tmp, wq, pc>>

(* A signal is sent by kill, or by an interrupt character on a terminal.   *)
SendSignal(t) ==
  /\ signal' = [signal EXCEPT ![t] = TRUE]
  /\ UNCHANGED <<state, current, head, tmp, wq, pc>>

(* ret_from_sys_call: a task returning to user mode takes its signals.     *)
TakeSignal ==
  /\ current \in Tasks
  /\ pc[current] = "out"
  /\ signal' = [signal EXCEPT ![current] = FALSE]
  /\ UNCHANGED <<state, current, head, tmp, wq, pc>>

SleepNext ==
  \/ \E t \in Tasks : Dispatch(t)
  \/ DispatchIdle
  \/ Yield
  \/ \E q \in Queues : Enter(q)
  \/ Commit
  \/ Return
  \/ Repeat
  \/ ReturnIntr
  \/ \E q \in Queues : WakeUp(q)
  \/ \E q \in Queues : IrqWakeUp(q)
  \/ \E q \in Queues : SerialWake(q)
  \/ \E t \in Tasks : SendSignal(t)
  \/ TakeSignal

SleepSpec == SleepInit /\ [][SleepNext]_sleepvars

(* Kernel code always goes on, user code loses the processor at a tick,    *)
(* and no runnable task is passed over for ever: a task's counter only     *)
(* falls until every runnable counter is 0 and all are refilled.           *)
SleepFairness ==
  /\ WF_sleepvars(Commit \/ Return \/ Repeat \/ ReturnIntr)
  /\ WF_sleepvars(Yield)
  /\ WF_sleepvars(DispatchIdle)
  /\ \A t \in Tasks : SF_sleepvars(Dispatch(t))

SleepFairSpec == SleepSpec /\ SleepFairness

-----------------------------------------------------------------------------
(* Properties                                                              *)

(* The queues on which no wake-up can be lost: slept on with sleep_on, and *)
(* with interrupts disabled when an interrupt handler wakes them.          *)
SafeQueues ==
  {q \in Queues \ IntrQueues : q \in IrqQueues => q \in CliQueues}

Sleepers(q) == {t \in Tasks : wq[t] = q /\ state[t] # "running"}

(* Task t is the one that u's sleep call on q will wake.                   *)
WokenBy(t, u, q) == wq[u] = q /\ tmp[u] = t

(* No lost sleeper (sleep_on, wake_up): sleepers of a queue never wait     *)
(* only for each other.  Every set of them that does not hold the first    *)
(* one has a member that a task outside the set will wake, so the chain of *)
(* tmp variables leads from *p, or from a task already woken, to everyone. *)
Anchored(q) ==
  \A S \in SUBSET (Sleepers(q) \ {head[q]}) :
    S # {} => \E t \in S, u \in Tasks \ S : WokenBy(t, u, q)

NoOrphans == \A q \in SafeQueues : Anchored(q)

(* A wake-up reaches everybody (wake_up, and the chain in sleep_on): once  *)
(* the queue's pointer is empty, every task still inside sleep_on on that  *)
(* queue gets out, whatever others come and sleep there afterwards.        *)
WakeUpDrains ==
  \A t \in Tasks, q \in SafeQueues :
    (wq[t] = q /\ head[q] = NULL) ~> (wq[t] # q)

(* A signal reaches a sleeper (schedule): a task in interruptible sleep    *)
(* with a signal pending gets the processor, even if nobody wakes it.      *)
SignalReachesSleeper ==
  \A t \in Tasks :
    (state[t] = "interruptible" /\ signal[t]) ~> (current = t)
=============================================================================
