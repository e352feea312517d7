SPECIFICATION Spec
CONSTANTS
  Threads = {t1, t2, t3}
  NoThread = NoThread
  ServiceType = "SERVER"
  AppBroadcasts = TRUE
  ExResults = {"pending", "failed"}
  MaxSends = 3
SYMMETRY ThreadSymmetry
INVARIANTS TypeOK SendExclusive RecvExclusive EventHoldsSession InFlightRetained RegistryConsistent LockOrder
PROPERTY LifeSpec
