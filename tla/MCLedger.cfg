CONSTANTS
  Callers = {first, c2, c3, c4}
  Ledgers = {old, new}
  first = first
  old = old
  new = new
  LedgerOf <- MCLedgerOf
  Forged = forged
  StaleReads = TRUE
  WritesMayFail = TRUE
  RowsMayChange = TRUE
  PageSize = 2
SPECIFICATION ReadsSpec
CHECK_DEADLOCK FALSE
SYMMETRY MCSymmetry
INVARIANTS
  LedgerTypeOK
  ChainIntact
  DamageLocated
  RecordedIsVouched
  CollisionsAreForeign
  NoFalseAlarm
  AuditCovers
PROPERTIES
  AppendsOnly
