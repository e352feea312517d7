SPECIFICATION FairSpec
CONSTANTS
  Threads = {t1, t2}
  NoThread = NoThread
  ServiceType = "SERVER"
  AppBroadcasts = FALSE
  ExResults = {"pending", "failed"}
  MaxSends = 1
PROPERTIES DisconnectReleases
