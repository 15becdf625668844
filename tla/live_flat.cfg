CONSTANTS
  N = 3
  Groups <- Flat
  Human = 2
  HumanDelay = TRUE
  AutoMerge = FALSE
  MaxMergeRetries = 2
  MaxDevops = 1
  Faults = {"marker", "board", "defer"}
  MaxCrashes = 1
  MaxDone = 3
SPECIFICATION LiveSpec
PROPERTY Finishes
