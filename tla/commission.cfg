SPECIFICATION Spec
CONSTANTS
  c0 = c0  c1 = c1  c2 = c2   p1 = p1  w1 = w1  w2 = w2  A = A  B = B
  None = None
  Workers = {w1, w2}
  Configs = {c0, c1, c2}
  Seed = c0
  Brokers = {B}
  Insurers = {A}
  Global = Global
  Payments = {p1}
  Gross <- MCGross
  RateSets <- MCRateSets
  SeedRates <- MCSeedRates
  MaxTime = 2
SYMMETRY Sym
INVARIANTS HistoryIsTotal AlwaysResolved PostedAtLockedRates
PROPERTIES HistoryIsStable
CHECK_DEADLOCK FALSE
