SPECIFICATION Spec
CONSTANTS
  None = None
  Workers = {w1}
  Sources = {s1}
  Refs = {r1,r2}
SYMMETRY SymRefs
INVARIANTS InsurerPaidOnce
CHECK_DEADLOCK FALSE
