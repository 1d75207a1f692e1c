CONSTANTS
  Variants = {"token", "cat"}
  FILE_LEN = 5
  CPS = 2
  TOKEN_MAX = 2
  UINT = 16
  MaxFaults = 2
SPECIFICATION FairSpec
INVARIANT PrintsInOrder
INVARIANT RateLimited
PROPERTY Finishes
CHECK_DEADLOCK FALSE
