SPECIFICATION Spec
CONSTANTS
  NULL = NULL
  e1 = e1  e2 = e2  e3 = e3  e4 = e4  e5 = e5  e6 = e6
  o1 = o1  o2 = o2
  usd = usd  eur = eur
  p1 = p1  p2 = p2
  EventIds <- MCEventIds
  OrderIds = {o1, o2}
  Currencies = {usd, eur}
  RawEvents <- FaultyEvents
  Polls = {p1, p2}
  MaxDeliveries = 3
  MaxBatch = 1
INVARIANTS TypeOK DoneIffDecided OneDeliveryPerEventId StatsMatchAudit RetryBudget PollSnapshotsFresh
PROPERTIES RetryWaits AuditIsFinal ImplementsInbox
