SPECIFICATION LiveSpec
CONSTANTS
  NULL = NULL
  e1 = e1  e2 = e2
  o1 = o1  o2 = o2
  usd = usd
  p1 = p1
  EventIds = {e1, e2}
  OrderIds = {o1, o2}
  Currencies = {usd}
  RawEvents <- MixedEvents
  Polls = {p1}
  MaxDeliveries = 2
  MaxBatch = 2
  MaxAttempts = 1
PROPERTY ImplementsDashboard
