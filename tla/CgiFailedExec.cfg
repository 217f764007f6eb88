SPECIFICATION FairSpec
CONSTANTS
  Server = server
  Bodies = {1}
  MaxOut = 1
  Cap = 1
  SizeMax = 7
  Calls = {c1}
  Programs = {"missing"}
  SpawnMayFail = FALSE
  LogDuringFork = TRUE
PROPERTY FailedExecExits
CHECK_DEADLOCK FALSE
