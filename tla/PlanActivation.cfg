SPECIFICATION FairSpec
CONSTANTS
  MaxRequest = 2
  MaxState = 3
  MaxRetries = 1
  Keep = 2
  Content = {1, 2}
  Initial = 1
  Protected = {2}
  None = None
INVARIANTS OnePlanActive UndoSound
PROPERTIES CommitsWhatWasChecked RequestsEnd
CHECK_DEADLOCK FALSE
