CONSTANTS
  DATA_BITS = 8
  CODE_BITS = 4
  Samples <- Word
  MAX_FLIPS = 2
SPECIFICATION Spec
CHECK_DEADLOCK FALSE
INVARIANTS SingleFlipCorrected DoubleFlipDetected
