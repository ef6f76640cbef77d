----------------------------- MODULE Scheduler -----------------------------
(***************************************************************************)
(* Who gets the processor: schedule and do_timer of kernel/sched.c, the    *)
(* time slices kept in task_struct.counter, alarms, and the tests at the   *)
(* end of a system call in kernel/system_call.s.                           *)
(*                                                                         *)
(* The only signals are the alarms; module WaitQueue has the others.       *)
(*                                                                         *)
(* Tasks are the slots 1 .. N of the task table (slot 0 is the idle task). *)
(* alarm[t] is 0 when no alarm is set and otherwise the number of ticks    *)
(* until jiffies reaches the alarm, plus two: 1 stands for "alarm <        *)
(* jiffies".  A second is one tick in the model, HZ = 100 in the kernel.   *)
(***************************************************************************)
EXTENDS Integers

CONSTANTS
  N,          (* number of task slots in use                               *)
  MaxPri,     (* bound on the priority that nice can reach                 *)
  MaxAlarm,   (* bound on the seconds passed to alarm                      *)
  AlarmUsers, (* the tasks that call alarm                                 *)
  NiceUsers   (* the tasks that call nice                                  *)

ASSUME NAssumption == N \in Nat \ {0}
ASSUME MaxPriAssumption == MaxPri \in Nat \ {0}
ASSUME MaxAlarmAssumption == MaxAlarm \in Nat

Tasks == 1 .. N
Idle == 0

VARIABLES
  state,      (* task_struct.state                                         *)
  counter,    (* task_struct.counter: ticks left in the time slice         *)
  priority,   (* task_struct.priority                                      *)
  signal,     (* does task_struct.signal have a bit set                    *)
  alarm,      (* task_struct.alarm, relative to jiffies                    *)
  current,    (* the task on the processor                                 *)
  mode        (* in user mode, in the kernel, or on the way back           *)

vars == <<state, counter, priority, signal, alarm, current, mode>>

TypeOK ==
  /\ state \in [Tasks -> {"running", "interruptible", "uninterruptible"}]
  /\ counter \in [Tasks -> 0 .. 2 * MaxPri]
  /\ priority \in [Tasks -> 1 .. MaxPri]
  /\ signal \in [Tasks -> BOOLEAN]
  /\ alarm \in [Tasks -> 0 .. MaxAlarm + 2]
  /\ current \in Tasks \cup {Idle}
  /\ mode \in [Tasks -> {"user", "kernel", "leaving"}]

Init ==
  /\ state = [t \in Tasks |-> "running"]
  /\ priority = [t \in Tasks |-> MaxPri]
  /\ counter = priority
  /\ signal = [t \in Tasks |-> FALSE]
  /\ alarm = [t \in Tasks |-> 0]
  /\ current = Idle
  /\ mode = [t \in Tasks |-> "user"]

-----------------------------------------------------------------------------
(* schedule                                                                *)

(* The refill of the time slices: every task, asleep or not.               *)
Refill(cnt) == [t \in Tasks |-> (cnt[t] \div 2) + priority[t]]

(* The scan from the highest slot down for the largest counter takes t.    *)
Best(t, R, cnt) ==
  /\ t \in R
  /\ \A u \in R : cnt[u] < cnt[t] \/ (cnt[u] = cnt[t] /\ u <= t)

NoneDue(al) == {}                 \* a broken variant: the test left out

(* The alarms that schedule finds expired.                                 *)
Due(al) == {t \in Tasks : al[t] = 1}

(* The slices are refilled when no runnable task has time left.            *)
AllSpent(R, cnt) == R # {} /\ \A t \in R : cnt[t] = 0

(* schedule, called when the states, counters and alarms are st, cnt, al:  *)
(* expired alarms become signals, signalled tasks in interruptible sleep   *)
(* become runnable, and the runnable task with most time left gets the     *)
(* processor, after a refill if none has any.                              *)
Schedule(st, cnt, al) ==
  LET due == Due(al)
      sig == [t \in Tasks |-> signal[t] \/ t \in due]
      st2 == [t \in Tasks |-> IF sig[t] /\ st[t] = "interruptible"
                              THEN "running" ELSE st[t]]
      R == {t \in Tasks : st2[t] = "running"}
      cnt2 == IF AllSpent(R, cnt) THEN Refill(cnt) ELSE cnt
  IN
  /\ alarm' = [t \in Tasks |-> IF t \in due THEN 0 ELSE al[t]]
  /\ signal' = sig
  /\ state' = st2
  /\ counter' = cnt2
  /\ IF R = {} THEN current' = Idle
               ELSE \E t \in R : Best(t, R, cnt2) /\ current' = t

-----------------------------------------------------------------------------
(* The clock                                                               *)

Later == [t \in Tasks |-> IF alarm[t] > 1 THEN alarm[t] - 1 ELSE alarm[t]]

TickWithoutPreemption(t) ==       \* a broken variant: schedule is not called
  /\ current = t
  /\ counter' = [counter EXCEPT ![t] = IF @ > 0 THEN @ - 1 ELSE 0]
  /\ alarm' = Later
  /\ signal' = [signal EXCEPT ![t] = @ /\ mode[t] # "user"]
  /\ UNCHANGED <<state, current, priority, mode>>

(* A timer interrupt with task t on the processor: jiffies advances and    *)
(* t's slice shrinks; t is preempted when the slice is used up, unless it  *)
(* is in the kernel, and takes its signals on the way back to user mode.   *)
Tick(t) ==
  LET left == IF counter[t] > 0 THEN counter[t] - 1 ELSE 0
      cnt == [counter EXCEPT ![t] = left]
      user == mode[t] = "user"
  IN
  /\ current = t
  /\ IF left = 0 /\ user
     THEN /\ Schedule(state, cnt, Later)
          /\ mode' = [mode EXCEPT ![t] = "leaving"]
     ELSE /\ counter' = cnt
          /\ alarm' = Later
          /\ signal' = [signal EXCEPT ![t] = @ /\ ~user]
          /\ UNCHANGED <<state, current, mode>>
  /\ UNCHANGED priority

(* A timer interrupt in the idle task, whose slice is used up soon and is  *)
(* never refilled: it may hit the task in user mode, or inside pause.      *)
IdleTick ==
  /\ current = Idle
  /\ \/ Schedule(state, counter, Later)
     \/ alarm' = Later /\ UNCHANGED <<state, counter, signal, current>>
  /\ UNCHANGED <<priority, mode>>

(* The idle task calls pause again and again.                              *)
IdlePause ==
  /\ current = Idle
  /\ Schedule(state, counter, alarm)
  /\ UNCHANGED <<priority, mode>>

-----------------------------------------------------------------------------
(* System calls of the running task                                        *)

Running == current \in Tasks /\ mode[current] = "kernel"

SystemCall ==
  /\ current \in Tasks
  /\ mode[current] = "user"
  /\ mode' = [mode EXCEPT ![current] = "kernel"]
  /\ UNCHANGED <<state, counter, priority, signal, alarm, current>>

(* The test before the return to user mode: a task whose slice is used up  *)
(* calls schedule, and the test is not repeated after that.                *)
Reschedule ==
  /\ Running
  /\ counter[current] = 0
  /\ Schedule(state, counter, alarm)
  /\ mode' = [mode EXCEPT ![current] = "leaving"]
  /\ UNCHANGED priority

SliceLeft ==
  /\ Running
  /\ counter[current] > 0
  /\ mode' = [mode EXCEPT ![current] = "leaving"]
  /\ UNCHANGED <<state, counter, priority, signal, alarm, current>>

(* The task takes its signals and is back in user mode.                    *)
ReturnToUser ==
  /\ current \in Tasks
  /\ mode[current] = "leaving"
  /\ mode' = [mode EXCEPT ![current] = "user"]
  /\ signal' = [signal EXCEPT ![current] = FALSE]
  /\ UNCHANGED <<state, counter, priority, alarm, current>>

(* pause (interruptible) or sleep_on (not): give the processor away.       *)
Sleep(s) ==
  /\ Running
  /\ Schedule([state EXCEPT ![current] = s], counter, alarm)
  /\ UNCHANGED <<priority, mode>>

(* sys_alarm: seconds from now, or none.                                   *)
SetAlarm(seconds) ==
  /\ Running
  /\ current \in AlarmUsers
  /\ alarm' = [alarm EXCEPT ![current] = IF seconds > 0 THEN seconds + 2 ELSE 0]
  /\ UNCHANGED <<state, counter, priority, signal, current, mode>>

(* sys_nice: the priority stays positive.                                  *)
Nice(increment) ==
  /\ Running
  /\ current \in NiceUsers
  /\ priority[current] - increment \in 1 .. MaxPri
  /\ priority' = [priority EXCEPT ![current] = @ - increment]
  /\ UNCHANGED <<state, counter, signal, alarm, current, mode>>

-----------------------------------------------------------------------------
(* A wake_up, by the running task or by an interrupt handler.              *)
WakeUp(t) ==
  /\ state[t] # "running"
  /\ state' = [state EXCEPT ![t] = "running"]
  /\ UNCHANGED <<counter, priority, signal, alarm, current, mode>>

Next ==
  \/ \E t \in Tasks : Tick(t)
  \/ IdleTick
  \/ IdlePause
  \/ SystemCall
  \/ Reschedule
  \/ SliceLeft
  \/ ReturnToUser
  \/ \E s \in {"interruptible", "uninterruptible"} : Sleep(s)
  \/ \E seconds \in 0 .. MaxAlarm : SetAlarm(seconds)
  \/ \E increment \in {-1, 1} : Nice(increment)
  \/ \E t \in Tasks : WakeUp(t)

Spec == Init /\ [][Next]_vars

(* A system call ends, the idle task goes on calling pause, the clock      *)
(* ticks there, and a task that gets the processor again and again is      *)
(* caught by the clock again and again: the timer interrupt does not       *)
(* depend on who is running.                                               *)
Fairness ==
  /\ WF_vars(Reschedule \/ SliceLeft \/ ReturnToUser)
  /\ WF_vars(IdlePause)
  /\ WF_vars(IdleTick)
  /\ \A t \in Tasks : SF_vars(Tick(t))

FairSpec == Spec /\ Fairness

-----------------------------------------------------------------------------
(* Properties                                                              *)

(* Nobody starves (schedule, do_timer): a runnable task gets the processor *)
(* although others sleep, wake, change their priority and are preferred    *)
(* for having more time left.                                              *)
NoStarvation ==
  \A t \in Tasks : (state[t] = "running") ~> (current = t)

(* An alarm ends a pause (sys_alarm, schedule): a task in interruptible    *)
(* sleep with an alarm set becomes runnable, even if it is the only task   *)
(* and nothing else ever happens.                                          *)
AlarmEndsPause ==
  \A t \in Tasks :
    (alarm[t] # 0 /\ state[t] = "interruptible") ~> (state[t] = "running")

=============================================================================
