CONSTANTS
  w1 = w1
  w2 = w2
  w3 = w3
  Threads = {w1, w2, w3}
  MAX_TASKS = 3
  TASKS = 4
  StackFlags = {TRUE, FALSE}
  MaxMissing = 1
  MaxSpurious = 1
  Nobody = Nobody
  Destroyed = Destroyed
SPECIFICATION FairSpec
INVARIANT FoundTaskStays
INVARIANT WaitsTrackTasks
INVARIANT AwaitedHasRun
INVARIANT QuietAtClose
PROPERTY Terminates
PROPERTY ImplementsTaskPool
