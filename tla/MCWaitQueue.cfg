CONSTANTS
  t1 = t1
  t2 = t2
  t3 = t3
  bufferWait = bufferWait
  procList = procList
  NULL = NULL
  Idle = Idle
  Nobody = Nobody
  Tasks <- MCTasks
  Queues <- MCQueues
  IntrQueues <- MCIrq
  IrqQueues <- MCIrq
  CliQueues <- MCIrq
SPECIFICATION SleepFairSpec
INVARIANTS SleepTypeOK NoOrphans
PROPERTIES WakeUpDrains SignalReachesSleeper
