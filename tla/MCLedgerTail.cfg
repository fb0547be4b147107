CONSTANTS
  Callers = {first, c2, c3, c4}
  Ledgers = {old, new}
  first = first
  old = old
  new = new
  LedgerOf <- MCLedgerOf
  Forged = forged
  StaleReads = FALSE
  WritesMayFail = FALSE
  RowsMayChange = TRUE
SPECIFICATION LossySpec
CHECK_DEADLOCK FALSE
SYMMETRY MCSymmetry
INVARIANTS
  RecordedIsVouched
