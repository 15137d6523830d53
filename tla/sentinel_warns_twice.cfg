CONSTANTS
  Contexts = {c1, c2}
  Pages = {}
  WINDOW_MS = 2
  Thresholds = {2}
  DefaultThreshold = 2
  MaxTime = 5
  MaxLatency = 1
  TimeMod = 64
  CountMod = 16
  MaxErrors = 6
SPECIFICATION HSpec
CHECK_DEADLOCK FALSE
INVARIANT ExactlyOncePerWindow
