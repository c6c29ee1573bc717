SPECIFICATION Spec
CONSTANTS
  INF = INF
  NegINF = NegINF
  NaN = NaN
  Precision = 3
  Limit = 64
  Scale = 2
  MaxRefunds = 4
CHECK_DEADLOCK FALSE
INVARIANT SafePaymentsExact
