CONSTANTS
  N = 4
  Names = {"a", ".b", "*"}
  Hidden = {".b"}
  Star = "*"
  MaxChanges = 1
  MaxFaults = 1
SPECIFICATION UsageFairSpec
INVARIANT CountsOnce
PROPERTY Ends
CHECK_DEADLOCK FALSE
