CONSTANTS
  Programs = {"tcp", "udp", "echo", "pipe", "msg", "shm", "mmap"}
  CELLS = 3
  Room = 2
  Old = 1
  MaxSent = 3
  MaxFaults = 2
  MaxPrints = 3
SPECIFICATION FairSpec
INVARIANT StreamIntact
INVARIANT RecordsWhole
INVARIANT NeverBackwards
PROPERTY EndsWithPeer
CHECK_DEADLOCK FALSE
