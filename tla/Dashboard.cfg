SPECIFICATION DashboardFairSpec
CONSTANTS
  NULL = NULL
  e1 = e1
  EventIds = {e1}
  MaxDeliveries = 3
  MaxBatch = 2
  MaxAttempts = 2
INVARIANT DashboardTypeOK
PROPERTIES ProcessedMeansDecided QueuedMeansOpen SendEnds
