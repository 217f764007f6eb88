SPECIFICATION FairSpec
CONSTANTS
  Workers = {w1, w2, w3}
  Socks = {s1, s2, s3}
  MinThreads = 0
  NoSock = NoSock
  Main = Main
  Free = Free
INVARIANTS TypeOK PopNonEmpty NoStrandedTask OneOwner
PROPERTIES ImplementsTaskQueue KeepsWorkersBusy EveryConnectionEnds
\* With no thread created the server stops once every descriptor is queued.
CHECK_DEADLOCK FALSE
