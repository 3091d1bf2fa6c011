CONSTANTS
  Proc = {1, 2, 3, 4, 5, 6, 7}
  NINODES = 11
  NBLOCKS = 14
  BSIZE = 4
  NDIRECT = 2
  NINODE = 9
  NFILE = 6
  NOFILE = 7
  NDEV = 2
  PIPESIZE = 2
  WRITEMAX = 4
  MAXOPS = 3
  Files <- MCFiles
  NPAGE = 18
  Run <- MCRun
  NPROC <- MCNPROC
SPECIFICATION Spec
INVARIANTS TestsPass AllReleased
