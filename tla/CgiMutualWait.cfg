SPECIFICATION Spec
CONSTANTS
  Calls = {c1}
  Server = server
  Programs = {"filter", "untilEof"}
  Bodies = {4}
  MaxOut = 1
  Cap = 1
  SizeMax = 7
  SpawnMayFail = FALSE
  LogDuringFork = FALSE
INVARIANT NoMutualWait
CHECK_DEADLOCK FALSE
