SPECIFICATION Spec
CONSTANTS
  Role <- MCRole
  Person <- MCPerson
  Item <- MCItem
  Name <- MCName
  Lower <- MCLower
  Capacity <- MCCapacity
  Odd = Odd
  Bad = Bad
  Row <- MCRow
  Plan <- MCPlan
  Entries <- MCEntries
  Client <- MCClient
  c1 = c1
  c2 = c2
  r1 = r1
  r2 = r2
  q1 = q1
  q2 = q2
  full = full
  half = half
  Dev = Dev
  dev = dev
  Keep = 1
  MaxRecord = 2
  MaxEdit = 2
  None = None
SYMMETRY Symmetry
PROPERTY SurvivorsOwnCapacity
CHECK_DEADLOCK FALSE
