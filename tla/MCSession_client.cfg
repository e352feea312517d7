SPECIFICATION Spec
CONSTANTS
  Threads = {t1}
  NoThread = NoThread
  ServiceType = "CLIENT"
  AppBroadcasts = FALSE
  ExResults = {"pending", "failed"}
  MaxSends = 2
INVARIANTS EventHoldsSession RegistryConsistent
PROPERTY LifeSpec
