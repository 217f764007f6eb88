SPECIFICATION Spec
CONSTANTS
  Conns = {c1}
  Nobody = nobody
  Requests <- SomeRequests
  Sites <- AllSites
  Fds = {3, 4}
  MaxSize = 3
  MaxSendfile = 2
  Window = 1
  Deploys = 0
  SpawnMayFail = FALSE
INVARIANT MissingIs404
