SPECIFICATION FairSpec
CONSTANTS
  Conns = {c1}
  Nobody = nobody
  Requests <- AllRequests
  Sites <- AllSites
  Fds = {3, 4}
  MaxSize = 3
  MaxSendfile = 2
  Window = 1
  Deploys = 1
  SpawnMayFail = TRUE
INVARIANTS TypeOK TakesItsRequest WholeBody BodyFitsLength BodyFitsStatus
PROPERTIES EveryRequestAnswered EndsWhenClientLeaves ImplementsHttpExchange
