CONSTANTS
  MaxLen = 8
  Responses <- MCResponses
SPECIFICATION Spec
INVARIANT StatusMeansRun
INVARIANT BodySaved
INVARIANT HeadSkipped
CHECK_DEADLOCK FALSE
