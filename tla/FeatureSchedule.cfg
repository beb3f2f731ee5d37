SPECIFICATION FairSpec
CONSTANTS
  None = None
  Epic = {1, 2, 3}
  Feature = {1, 2, 3}
  Project <- Projects
INVARIANT PlacementSound
PROPERTIES AllPlaced ImplementsPromise
CHECK_DEADLOCK FALSE
