CONSTANTS
  laptop = laptop
  Products <- MCProducts
  InitialStock <- MCStock
  Baskets <- MCOneUnit
  Cost <- MCCost
  ReservationIds = {c1}
  CreateCalls = {c1}
  ConfirmCalls = {k1, k2}
  OnEventLoop = {c1, k1, k2}
  Mandates = {m1}
  PaymentIds = {y1, y2}
  Amounts = {1}
  AuditMayFail = TRUE
  GatewayMayFail = TRUE
  NoncesDurable = TRUE
  MaxRestarts = 1
  MaxNotices = 1
SPECIFICATION LiveSpec
CHECK_DEADLOCK FALSE
PROPERTIES
  ConfirmedIsFinal
  HoldsSettle
