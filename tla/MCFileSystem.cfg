CONSTANTS
  Proc = {1, 2}
  NINODES = 3
  NBLOCKS = 4
  BSIZE = 4
  NDIRECT = 1
  NINODE = 3
  NFILE = 2
  NOFILE = 1
  NDEV = 2
  PIPESIZE = 2
  WRITEMAX = 3
  MAXOPS = 2
  Files <- MCFiles
  Call <- MCCall
  MAXCALLS = 3
  Crashes = TRUE
  Careful = TRUE
SPECIFICATION Spec
INVARIANTS CountsRight CrashSafe CacheRight   NoStuck
CHECK_DEADLOCK FALSE
