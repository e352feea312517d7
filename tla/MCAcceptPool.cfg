SPECIFICATION FairSpec
CONSTANTS
  Threads = {t1, t2}
  Main = main
  NoThread = noThread
  AcceptEvents = {e1, e2}
  NoEvent = noEvent
  MaxClients = 2
  MaxFails = 2
  MaxBroadcasts = 1
INVARIANTS TypeOK AcceptsKept AcceptsFresh ListsAgree SocketsBounded BroadcastReachesAll
PROPERTIES PoolRefills ClientsAccepted LifeSpec
