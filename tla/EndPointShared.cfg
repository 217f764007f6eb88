SPECIFICATION Spec
CONSTANTS
  Conns = {c1, c2}
  Nobody = nobody
  Requests <- SomeRequests
  Sites <- SomeSites
  Fds = {3, 4, 5}
  MaxSize = 2
  MaxSendfile = 2
  Window = 1
  Deploys = 0
  SpawnMayFail = FALSE
SYMMETRY Symmetry
INVARIANTS OwnDescriptors AnswerToItsClient
