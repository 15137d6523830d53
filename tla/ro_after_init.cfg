CONSTANTS
  Parts = {low, high}
  Values = {v1, v2}
  Readers = {r1, r2}
  GARBAGE = GARBAGE
SYMMETRY Symmetry
SPECIFICATION Spec
INVARIANTS ReadersSeeFinal
PROPERTIES SealedIsFinal
