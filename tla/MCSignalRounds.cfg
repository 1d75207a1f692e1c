CONSTANTS
  Programs = {"int", "suspend", "suspend1"}
  ROUNDS = 3
  STARS = 2
  MaxSignals = 5
SPECIFICATION RoundsFairSpec
INVARIANT GuardedNeverKills
PROPERTY LinesWhole
PROPERTY SignalStartsLine
CHECK_DEADLOCK FALSE
