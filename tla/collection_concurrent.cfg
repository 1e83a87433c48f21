SPECIFICATION SpecD
CONSTANTS
  i1 = i1  i2 = i2  p1 = p1  p2 = p2  b1 = b1  t1 = t1  t2 = t2
  e1 = e1  e2 = e2  e3 = e3
  v1 = v1  v2 = v2  w1 = w1  w2 = w2
  None = None
  Workers = {w1, w2}
  Installments = {i1}
  Payments = {p1, p2}
  Batches = {b1}
  Transfers = {t1}
  Events = {e1}
  TransferOf <- MCTransferOf
  Amounts = {1}
  VAs = {v1, v2}
  Premium <- MCPremium
  Paid <- MCPaidOne
  Insurer <- MCInsurer
  MaxItems = 2
  Unpostable = {}
  Shareless = {}
SYMMETRY SymConcurrent
INVARIANTS SuccessIsBacked SettlementFollowsPostings
CHECK_DEADLOCK FALSE
