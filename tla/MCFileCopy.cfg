CONSTANTS
  Programs = {"read", "fgetc", "fread", "trunc"}
  Bytes = {10, 65, 255}
  Length = 5
  BUF_SIZE = 2
  LINE = 2
  MaxFaults = 1
SPECIFICATION Spec
INVARIANT CopiesWanted
INVARIANT OriginalKept
CHECK_DEADLOCK FALSE
