CONSTANTS
  laptop = laptop
  Products <- MCProducts
  InitialStock <- MCStock
  Baskets <- MCOneUnit
  Cost <- MCCost
  ReservationIds = {c1}
  CreateCalls = {c1}
  ConfirmCalls = {k1, k2}
  OnEventLoop = {}
  Mandates = {m1}
  PaymentIds = {y1, y2}
  Amounts = {1}
  AuditMayFail = FALSE
  GatewayMayFail = FALSE
  NoncesDurable = TRUE
  MaxRestarts = 0
  MaxNotices = 0
SPECIFICATION Spec
CHECK_DEADLOCK FALSE
INVARIANTS
  TrailNamesOneOutcome
