\* A thread may also end by exit.
CONSTANTS
  NPROC = 4
  NCPU = 2
  MaxPid = 4
  Calls = {"fork", "exit", "thread_create", "thread_join", "thread_exit"}
SPECIFICATION Spec
INVARIANT NoLostJoin
