CONSTANTS
  Contexts = {c1, c2}
  Pages = {}
  WINDOW_MS = 1
  Thresholds = {1, 2}
  DefaultThreshold = 2
  MaxTime = 3
  MaxLatency = 1
  TimeMod = 64
  CountMod = 16
  MaxErrors = 4
SPECIFICATION HSpec
CHECK_DEADLOCK FALSE
INVARIANTS TypeOK WarnCountsOwnEpoch WarnsBoundedByWindows WarnedIffReached
PROPERTIES NeverWarnTwice StartGoesBackAtMostLatency
SYMMETRY ContextSymmetry
