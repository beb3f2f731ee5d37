SPECIFICATION LevelFairSpec
CONSTANTS
  None = None
  Epic = {1, 2}
  Feature = {1, 2, 3}
  Project <- Projects
  Role = {1, 2}
  Work <- Workloads
  StepsPerWeek = 2
  LastStep = 8
INVARIANTS LevelledSound EffortKept
PROPERTIES LevellingEnds SimulationImplementsPromise
CHECK_DEADLOCK FALSE
