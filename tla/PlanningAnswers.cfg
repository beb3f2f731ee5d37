SPECIFICATION Spec
CONSTANTS
  None = None
  Forever = 1000
  TicksPerWeek = 2
  LowerCase <- MCLower
  Plans <- MCPlans
  Projects <- MCProjects
  Terms <- MCTerms
  Databases <- MCDatabases
  Homes <- MCHomes
  StaffOf <- MCStaffOf
  Searches <- MCSearches
  Staffings <- MCStaffings
  Levels <- MCLevels
  Squads <- MCSquads
  LeastWeeks = 5
  Horizon = 6
INVARIANTS HoursConserved PeopleCostTheirCapacity SearchIsUseful WeeklyPlanSound StaffedPlansEnd LevelledInOrder SquadPlanSound AuditSound
