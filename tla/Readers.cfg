SPECIFICATION ReadersSpec
CONSTANTS
  NULL = NULL
  e1 = e1  e2 = e2  e3 = e3
  o1 = o1
  usd = usd
  p1 = p1
  c1 = c1
  EventIds <- MCEventIds
  OrderIds = {o1}
  Currencies = {usd}
  RawEvents <- ReadEvents
  Polls = {p1}
  MaxDeliveries = 3
  MaxBatch = 1
  OrderClients = {c1}
  EventClients = {c1}
CONSTRAINTS Quiet OneAtATime
INVARIANTS NothingVanishes NotFoundWasUndecided LogHasNoGaps QuietReadsAgree DoneIsExplained
