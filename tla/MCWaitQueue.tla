---------------------------- MODULE MCWaitQueue ----------------------------
(* Three tasks on two queues: buffer_wait, woken by tasks only and slept   *)
(* on with interrupts enabled, and a terminal's proc_list, woken by the    *)
(* interrupt handler and slept on interruptibly.                           *)
EXTENDS WaitQueue

CONSTANTS t1, t2, t3, bufferWait, procList

MCTasks == {t1, t2, t3}
MCQueues == {bufferWait, procList}
MCIrq == {procList}
=============================================================================
