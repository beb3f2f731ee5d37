CONSTANTS
  Word = {"a", "b", "c", "Epic name", "Feature name", "Story name", "Task name", "Template name", "Role name",
          "Platform Setup", "Mobile App", "Authentication", "User Profile", "Login Screen", "User can log in",
          "Login Flow", "Backend API", "Developer"}
  HoursPerDay = 3
  None = None
  Foreign = Foreign
  MaxRequest = 2
  MaxId = 13
  NewName <- MCNames
  NewOrder = {0, 1}
  NewEstimate <- MCEstimates
  Grids <- MCGrids
  Files <- MCFiles
  Lists <- MCLists
  InitTree <- MCTrees
  InitRoles <- MCRoles
  InitLibrary <- MCLibrary
SPECIFICATION Spec
CHECK_DEADLOCK FALSE
INVARIANT TypeOK
PROPERTIES OrderKept GridAsAsked ImportSettles RefreshCompletes
