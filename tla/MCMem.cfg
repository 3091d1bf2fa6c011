\* Careful programs; memory is short enough for every allocation to fail.
\* A call that fails changes nothing, so there is no step when none can succeed.
CONSTANTS
  NPROC = 4
  NPages = 17
  PGSIZE = 2
  MaxPages = 5
  Image = {1}
  Sbrk <- SbrkTwo
  Calls = {"fork", "exec", "sbrk", "exit", "wait", "thread_create", "thread_exit", "thread_join"}
  Risks = {}
SPECIFICATION Spec
INVARIANTS NoDangling  Isolation  PanicOnlyOom
VIEW PageView
CHECK_DEADLOCK FALSE
