\* The counters wrap at twice the size of the ring.  When every descriptor is
\* closed nothing is left to do, so there is no deadlock check.
CONSTANTS
  Reader = {r1, r2}
  Writer = {w1, w2}
  Byte = {a, b}
  PIPESIZE = 2
  Modulus = 4
  MaxCount = 3
  Kills = TRUE
SYMMETRY SafetySymmetry
SPECIFICATION Spec
INVARIANTS WriterSleepsWhenFull NoStrandedReader FreedWhenUnused
PROPERTY PipeIsQueue
CHECK_DEADLOCK FALSE
