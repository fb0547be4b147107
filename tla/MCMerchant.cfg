CONSTANTS
  laptop = laptop
  Products <- MCProducts
  InitialStock <- MCStock
  Baskets <- MCOneUnit
  Cost <- MCCost
  ReservationIds = {c1, c2}
  CreateCalls = {c1, c2}
  ConfirmCalls = {k1, k2}
  OnEventLoop = {}
  Mandates = {m1, m2}
  PaymentIds = {y1}
  Amounts = {1, 2}
  AuditMayFail = TRUE
  GatewayMayFail = TRUE
  NoncesDurable = TRUE
  MaxRestarts = 1
  MaxNotices = 1
SPECIFICATION Spec
CHECK_DEADLOCK FALSE
SYMMETRY MCSymmetry
VIEW MCView
INVARIANTS
  TypeOK
  MandateSpentOnce
  NoOrphanHold
  TrailFollowsPipeline
  PaidBeforeCommit
  ConfirmedIsCommitted
PROPERTIES
  UsesInventory
  KeepsBooks
