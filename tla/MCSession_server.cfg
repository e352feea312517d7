SPECIFICATION Spec
CONSTANTS
  Threads = {t1, t2, t3}
  NoThread = NoThread
  ServiceType = "SERVER"
  AppBroadcasts = FALSE
  ExResults = {"pending", "failed", "done"}
  MaxSends = 3
SYMMETRY ThreadSymmetry
INVARIANTS NoQueueRace NoLostWakeup NothingLost RecvArmed
PROPERTIES OutboxSpec
