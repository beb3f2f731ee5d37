SPECIFICATION Spec
CONSTANTS
  Project <- MCProject
  Role <- MCRole
  Item <- MCItem
  LastWeek = 2
  Heads <- MCHeads
  Floors <- MCFloors
  MaxId = 3
  MaxRevision = 2
  MaxVersion = 1
  None = None
INVARIANT DraftSound
PROPERTIES AppliesWhatIsShown DraftKept WaitingEnds
CHECK_DEADLOCK FALSE
