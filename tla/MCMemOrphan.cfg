\* A leader exits while its thread runs.
CONSTANTS
  NPROC = 3
  NPages = 24
  PGSIZE = 2
  MaxPages = 5
  Image = {1}
  Sbrk <- SbrkTwo
  Calls = {"fork", "exit", "wait", "thread_create", "thread_exit", "thread_join"}
  Risks = {"orphan"}
SPECIFICATION Spec
INVARIANT NoDangling
VIEW PageView
CHECK_DEADLOCK FALSE
