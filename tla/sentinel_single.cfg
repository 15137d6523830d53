CONSTANTS
  Contexts = {c1}
  Pages = {p1}
  WINDOW_MS = 2
  Thresholds = {2}
  DefaultThreshold = 2
  MaxTime = 7
  MaxLatency = 1
  TimeMod = 64
  CountMod = 16
  MaxErrors = 6
SPECIFICATION HFairSpec
CHECK_DEADLOCK FALSE
INVARIANTS ExactlyOncePerWindow DoubleStormWarns WarnSpansOneWindow
PROPERTIES RefinesWindowSentinel WarnTaints
