SPECIFICATION FairSpec
CONSTANTS
  None = None
  Workers = {w1}
  Sources = {s1,s2}
  Refs = {r1,r2,r3}
INVARIANTS RetriesFormAChain OneLiveAttempt ClearedAtMostOnce
PROPERTIES RecordedOutcomesAreFinal KeepsLifecycle OpenPayoutsAreClosed
CHECK_DEADLOCK FALSE
