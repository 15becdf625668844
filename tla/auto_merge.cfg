SPECIFICATION LiveSpec
CONSTANTS
  Retriers = {r1, r2}
  Watchers = {w1, w2}
  Hooks = {h1}
  None = None
  MaxRetries = 2
  MaxPolls = 2
  MaxDevops = 2
CHECK_DEADLOCK FALSE
PROPERTIES LoopsAccounted LoopsEnd
