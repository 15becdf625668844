CONSTANTS
  N = 3
  Groups <- Flat
  Human = 0
  HumanDelay = FALSE
  AutoMerge = FALSE
  MaxMergeRetries = 2
  MaxDevops = 1
  Faults = {"assign", "tracking", "defer", "marker", "board", "conflict", "unavailable", "dispatch"}
  MaxCrashes = 1
  MaxDone = 3
SPECIFICATION Spec
INVARIANTS CompletedHaveMarkers CompletedIsPrefix SingleStart OpenPredecessorsClaimed
PROPERTIES ImplementsContract
