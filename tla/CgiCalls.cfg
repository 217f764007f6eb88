SPECIFICATION FairSpec
CONSTANTS
  Calls = {c1, c2}
  Server = server
  Programs = {"bundled", "missing", "filter"}
  Bodies = {4}
  MaxOut = 1
  Cap = 1
  SizeMax = 5
  SpawnMayFail = TRUE
  LogDuringFork = FALSE
INVARIANTS TypeOK EofIsExit OkIsComplete LeaksOnlyOnSpawnFailure
PROPERTIES NoResend CallReturns ImplementsCgiCall
