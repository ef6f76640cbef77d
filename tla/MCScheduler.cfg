CONSTANTS
  N = 3
  MaxPri = 2
  MaxAlarm = 1
  AlarmUsers = {1}
  NiceUsers = {2}
SPECIFICATION FairSpec
PROPERTIES  AlarmEndsPause
