CONSTANTS
  MAX_TASKS = 2
  Secs = {0, 1, 2}
  MaxJobs = 3
  MinSec <- MCMinSec
SPECIFICATION FairSpec
INVARIANT FiresOnTime
INVARIANT EntriesHoldJobs
INVARIANT WaitsForItsJob
PROPERTY WaitReturns
CHECK_DEADLOCK FALSE
