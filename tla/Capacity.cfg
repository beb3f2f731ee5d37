SPECIFICATION Spec
CONSTANTS
  Role = {r1, r2}
  MaxResource = 3
  MaxCount = 1
  MaxSlots = 2
  None = None
  ManualShape <- EditorShapes
SYMMETRY Symmetry
INVARIANTS ProfilesReadable OwnersAgree ReplanPossible
PROPERTY UsersCapacityKept
