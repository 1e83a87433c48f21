SPECIFICATION FairSpec
CONSTANTS
  b1 = b1
  Admin = Admin
  None = None
  Browsers = {b1}
  MaxReissues = 2
INVARIANTS OneTimeMustBeChanged
PROPERTIES GetsIn
