CONSTANTS
  Pipes = 2
  Variants = {"select", "poll", "epoll"}
  Kinds = {"file", "fifo"}
  BUF_SIZE = 2
  Limits = 5
  LENGTH = 2
  MaxFaults = 1
  MaxOff = 3
SPECIFICATION FairSpec
INVARIANT CopiesSource
PROPERTY EndsAlone
CHECK_DEADLOCK FALSE
