SPECIFICATION Spec
CONSTANTS
  Interval <- MCInterval
  SEC = 4
  OS_TICKS_PER_SEC = 2
  WIDTH = 64
  NODES = 5
  MBOX = 1
  RACES = 1
INVARIANTS
  TimersKept
