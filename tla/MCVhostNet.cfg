SPECIFICATION Spec
CONSTANTS
  NumQueues = 2
  Addrs = {a1, a2}
  Zero = Zero
  Probe = Probe
  Vectors = {v1, v2}
  Data = {d1, d2}
  NotificationData = TRUE
  None = None
  MaxActivations = 2
CHECK_DEADLOCK FALSE
INVARIANTS
  NotifyInfoCurrent
  NotificationInfoSet
  NotifyReachesBackend
  NotifyStaysInQueue
  InterruptReachesDriver
