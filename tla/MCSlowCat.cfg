CONSTANTS
  MAX_TBF = 2
  Rates = {1, 2}
  Bursts = {1}
  Asks = {1, 2}
  MaxToken = 3
  MaxCalls = 4
  MaxForeign = 1
  FILE_LEN = 3
  BUF_SIZE = 2
  MaxFaults = 1
  MaxOut = 5
SPECIFICATION CatFairSpec
INVARIANT NoDanglingJob
INVARIANT NeverOverdraws
PROPERTY FetchGivesTokens
PROPERTY FetchReturns
INVARIANT PrintsFile
INVARIANT RateLimited
PROPERTY Finishes
CHECK_DEADLOCK FALSE
