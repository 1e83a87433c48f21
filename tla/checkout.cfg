SPECIFICATION FairSpec
CONSTANTS
  None = None
  Tabs = {"t1"}
  Installments = {1, 2}
  Keys = {1, 2}
  Payments = {1, 2}
  Calls = {1, 2}
  Contested = {2}
  References = {1, 2}
  RefOf <- MCRefOf
  Files <- MCFiles
  MaxItems = 2
INVARIANTS OnePaymentPerKey AnsweredForWhatWasAsked RetryNeverPaysTwice
PROPERTIES KeepsPromises PressIsAnswered OutcomeIsShown
CHECK_DEADLOCK FALSE
