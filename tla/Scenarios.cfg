SPECIFICATION ScenarioSpec
CONSTANTS
  NULL = NULL
  orderId = orderId
  PLN = PLN  EUR = EUR
  p1 = p1
  EventIds = {1, 2, 3, 4, 5}
  OrderIds = {orderId}
  Currencies = {PLN, EUR}
  RawEvents <- ScenarioItems
  Batches <- scenarioFactories
  Polls = {p1}
  MaxDeliveries = 7
  MaxBatch = 7
INVARIANT BatchOrderDoesNotMatter
