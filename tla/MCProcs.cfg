\* Processes only; a slot is used twice.
CONSTANTS
  NPROC = 4
  NCPU = 2
  MaxPid = 4
  Calls = {"fork", "exit", "wait", "kill"}
SPECIFICATION Spec
INVARIANTS NoLostExit ParentAlive FreedOffCpu
