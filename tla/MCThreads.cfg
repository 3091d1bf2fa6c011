\* A leader and its threads, which end only by thread_exit; a slot is used twice.
CONSTANTS
  NPROC = 4
  NCPU = 2
  MaxPid = 4
  Calls = {"fork", "thread_create", "thread_join", "thread_exit"}
SPECIFICATION FairSpec
INVARIANT NoLostJoin
PROPERTY WaitLockReleased
