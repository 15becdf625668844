CONSTANTS
  N = 3
  Groups <- Flat
  Human = 0
  HumanDelay = FALSE
  AutoMerge = FALSE
  MaxMergeRetries = 3
  MaxDevops = 2
  Faults = {"conflict", "dispatch", "unavailable"}
  MaxCrashes = 0
  MaxDone = 3
SPECIFICATION LiveSpec
PROPERTY FinishesOrBlocks
