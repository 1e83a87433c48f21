SPECIFICATION FairSpec
CONSTANTS
  i1 = i1
  i2 = i2
  g1 = g1
  g2 = g2
  axa = axa
  None = None
  Installments = {i1, i2}
  Clients = {g1, g2}
  Insurer <- MCInsurer
  Reminders <- MCReminders
INVARIANTS ChasesOnlyLate
PROPERTIES QueuedIsSent
\* Every reminder may be used up and every installment paid.
CHECK_DEADLOCK FALSE
