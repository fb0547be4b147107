CONSTANTS
  laptop = laptop
  p1 = p1
  m1 = m1
  Products <- MCProducts
  InitialStock <- MCStock
  Baskets <- MCBaskets
  Cost <- MCCost
  ReservationIds = {c1, c2}
  CreateCalls = {c1, c2}
  ConfirmCalls = {k1, k2}
  OnEventLoop = {c1, c2, k1, k2}
  Mandates = {m1}
  PaymentIds = {y1, y2}
  Amounts = {1}
  AuditMayFail = FALSE
  GatewayMayFail = FALSE
  NoncesDurable = TRUE
  MaxRestarts = 0
  MaxNotices = 0
  Purchases = {p1}
  Attempts <- MCAttempts
  MandateOf <- MCMandateOf
  BasketOf <- MCBasketOf
SPECIFICATION PurchaseSpec
CHECK_DEADLOCK FALSE
INVARIANTS
  FailedHoldsNothing
