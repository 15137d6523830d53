CONSTANTS
  PRIOS = 3
  FRAC = 2
  UNIT = 2
  Deltas = {1}
  Offsets = {1}
  Scales = {4}
  Smoothnesses = {1}
  Bytes <- SomeBytes
  MAX_RUN = 3
SPECIFICATION Spec
INVARIANT SameLayout
