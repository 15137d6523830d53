CONSTANTS
  TASKS = 5
  LOADS <- SomeLoads
  MAX_PENALTY = 3
  TYPES = {0, 1, 2}
  Writers = {w1, w2}
  LIFETIME = 1
  GRAIN = 2
  SAMPLE_LIMIT = 2
  SCAN_LIMIT = 3
  LUT_BITS = 6
  BOOT = 2
  MAX_TIME = 4
  BURSTS <- SomeBursts
  MAX_WORK = 3
SYMMETRY Symmetry
SPECIFICATION Spec
INVARIANTS TypeOK NoInventedPenalty MethodMatchesType FreshUnlessRaced
PROPERTIES CacheIsAverage
CHECK_DEADLOCK FALSE
