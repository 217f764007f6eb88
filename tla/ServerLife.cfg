SPECIFICATION FairSpec
CONSTANTS
  c1 = c1
  c2 = c2
  c3 = c3
  Clients <- Three
  Wants <- SomeWants
  NoClient = NoClient
  Workers = {w1, w2}
  NoWorker = NoWorker
  Programs = {p1}
  Port = Port
  Fds = 8
  Backlog = 2
  Crashes = 1
  SocketMayFail = TRUE
INVARIANTS TypeOK AcceptSurvives AnswerUnlessKilled
PROPERTIES NobodyWaitsForEver EndsForTheClient ServesAgain
\* A server that listens on no port of use waits for ever.
CHECK_DEADLOCK FALSE
