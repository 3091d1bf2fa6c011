\* Two operations of two blocks each; no symmetry, as liveness is checked.
CONSTANTS
  Proc = {p1, p2}
  Block = {b1, b2}
  Data = {d1}
  NoBlock = NoBlock
  MAXOPBLOCKS = 3
  LOGSIZE = 6
  NLog = 6
  OpBlocks = 2
SPECIFICATION FairSpec
PROPERTIES SleeperWakes ComesUp
