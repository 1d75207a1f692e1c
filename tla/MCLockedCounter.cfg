CONSTANTS
  Workers = {w1, w2, w3, w4}
  Programs = {"mutex", "sem", "flock"}
  Starts = {0, 7}
  StrayDigits = {0, 3}
  MaxFailures = 1
SPECIFICATION LockedFairSpec
 
INVARIANT CountsAll
PROPERTY MainEnds
PROPERTY ImplementsCounter
CHECK_DEADLOCK FALSE
