\* A log as mkfs makes it (NLog = LOGSIZE); operations write fewer blocks than
\* begin_op reserves, and one is put to sleep when it might not fit.
CONSTANTS
  Proc = {p1, p2}
  Block = {b1, b2, b3}
  Data = {d1, d2}
  NoBlock = NoBlock
  MAXOPBLOCKS = 2
  LOGSIZE = 4
  NLog = 4
  OpBlocks = 1
SYMMETRY SafetySymmetry
SPECIFICATION Spec
INVARIANTS TypeOK QuietIsDurable PinsMatchLog NoPanic SleeperHasWaker
PROPERTY CrashAtomic
