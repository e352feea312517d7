SPECIFICATION FairSpec
CONSTANTS
  Threads = {t1, t2}
  NoThread = NoThread
  ServiceType = "SERVER"
  AppBroadcasts = FALSE
  ExResults = {"pending"}
  MaxSends = 3
PROPERTIES EveryMessageSettles DisconnectReleases
