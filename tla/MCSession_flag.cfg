SPECIFICATION Spec
CONSTANTS
  Threads = {t1, t2}
  NoThread = NoThread
  ServiceType = "SERVER"
  AppBroadcasts = FALSE
  ExResults = {"pending"}
  MaxSends = 2
INVARIANTS FlagTellsRegistered
