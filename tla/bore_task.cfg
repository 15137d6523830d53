CONSTANTS
  PRIOS = 3
  FRAC = 2
  UNIT = 2
  Kinds = {"leader", "thread", "kthread", "idle"}
  Nices = {0, 1}
  Inherited = {0, 3}
  Smoothnesses = {1}
  Offsets = {1, 2}
  Scales = {4}
  Writers = {w1, w2}
  MAX_RUN = 3
SYMMETRY Symmetry
SPECIFICATION Spec
INVARIANTS TypeOK PenaltyIsLarger WeightFollowsPriority BurstIsRuntime LoneWriteTakesEffect
PROPERTIES RestNeverPunishes
