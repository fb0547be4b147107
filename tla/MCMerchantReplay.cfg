CONSTANTS
  laptop = laptop
  Products <- MCProducts
  InitialStock <- MCStock
  Baskets <- MCOneUnit
  Cost <- MCCost
  ReservationIds = {c1, c2}
  CreateCalls = {c1, c2}
  ConfirmCalls = {k1}
  OnEventLoop = {}
  Mandates = {m1}
  PaymentIds = {y1}
  Amounts = {1}
  AuditMayFail = FALSE
  GatewayMayFail = FALSE
  NoncesDurable = FALSE
  MaxRestarts = 1
  MaxNotices = 0
SPECIFICATION Spec
CHECK_DEADLOCK FALSE
INVARIANTS
  MandateSpentOnce
