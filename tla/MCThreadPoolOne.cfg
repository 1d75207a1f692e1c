CONSTANTS
  w1 = w1
  Threads = {w1}
  MAX_TASKS = 2
  TASKS = 2
  StackFlags = {FALSE}
  MaxMissing = 0
  MaxSpurious = 0
  Nobody = Nobody
  Destroyed = Destroyed
SPECIFICATION FairSpec
PROPERTY EveryTaskRuns
CHECK_DEADLOCK FALSE
