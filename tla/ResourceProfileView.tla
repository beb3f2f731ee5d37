------------------------ MODULE ResourceProfileView ------------------------
(***************************************************************************)
(* GET /resource-profile: the days and people of each role as the costs    *)
(* are computed from them (routes/resourceProfile.ts), for projects that   *)
(* do not need replanning.  A role has also got a count and its plan, a    *)
(* sequence of periods as in CapacityPlans or <<>>; a project has overheads. *)
(***************************************************************************)
EXTENDS PlanningModel

(* Effort of the backlog, scheduled or not, of active stories.             *)
ActiveFeatures(project) == {i \in DOMAIN project.features : project.features[i].active}

TotalDays(project, id) ==
  SumOver(ActiveFeatures(project), LAMBDA i : EffortOf(project.features[i], id))

(* rtWeeks: from when to when a role has tasks, in ticks, by the entry of  *)
(* the story or else of the feature; {} if it has none.                    *)
Bars(project, id) ==
  {b \in UNION {LET f == project.features[i]
                IN  {IF f.stories[k].bar # None THEN f.stories[k].bar
                     ELSE <<f.from, f.length>> :
                       k \in {k \in ActiveStories(f) : f.stories[k].hours[id] > 0}}
                : i \in ActiveFeatures(project)}
     : b[1] # None}

DemandWindow(project, id) ==
  LET bars == Bars(project, id)
  IN  IF bars = {} THEN <<None, None>>
      ELSE <<Min({b[1] : b \in bars}), Max({b[1] + b[2] : b \in bars})>>

Ticks(week) == IF week = None THEN None ELSE week * TicksPerWeek

(* derivedStartWeek and derivedEndWeek                                     *)
DerivedWindow(project, role) ==
  LET weeks == PlannedWeeks(role.plan)
  IN  IF RoleMode(role) = "CAPACITY_PLAN" /\ weeks # {}
      THEN <<Ticks(Min(weeks)), Ticks(Max(weeks) + 1)>>
      ELSE DemandWindow(project, role.id)

ProjectTicks(project) == Or(MaxTick(project), 0)

(* Days of some weeks at a percentage in hundredths.                       *)
DaysOf(ticks, percent) == (ticks * Point * percent) \div (100 * TicksPerWeek)

(* Mutant: the last week of a segment is left out.                         *)
OpenSegmentDays(ss) ==
  SumOver({k \in DOMAIN ss : ss[k].to < Forever},
          LAMBDA k : Point * ss[k].percent * Max({0, ss[k].to - ss[k].from}))

(* Open-ended segments are left out, also where their percentage is not 0. *)
SegmentDays(ss) ==
  SumOver({k \in DOMAIN ss : ss[k].to < Forever},
          LAMBDA k : Point * ss[k].percent * SegmentWeeks(ss[k]))

(* nrAllocatedDays                                                         *)
PersonDaysIn(project, role, q, derived) ==
  LET start == Or(Ticks(q.display.from), Or(derived[1], 0))
      end == Or(Ticks(q.display.to), Or(derived[2], start))
  IN  CASE q.display.mode = "CAPACITY_PLAN" -> SegmentDays(q.segments)
        [] q.display.mode = "EFFORT" -> TotalDays(project, role.id) \div Len(role.people)
        [] q.display.mode = "TIMELINE" -> DaysOf(Max({0, end - start}), q.display.percent)
        [] q.display.mode = "FULL_PROJECT" ->
             DaysOf(ProjectTicks(project), q.display.percent)

PersonDays(project, role, i) ==
  PersonDaysIn(project, role, Resolve(role).people[i], DerivedWindow(project, role))

(* The aggregate of a role is listed with its people: what it is assigned. *)
SyntheticDays(resolved, assignment) ==
  SumOver({g \in assignment.given : Holders(resolved, TRUE)[g.holder].synthetic},
          LAMBDA g : g.days)

Scaled(role) ==
  LET p == TheProfile(role.profiles)
  IN  IF /\ p.basis = "availabilityWindow" /\ p.source = "legacy"
         /\ p.from = None /\ p.to = None
      THEN 1 ELSE role.count

(* The days of a role without people.                                      *)
RoleDays(project, role) ==
  LET total == TotalDays(project, role.id)
      derived == DerivedWindow(project, role)
      shape == Projection(TheProfile(role.profiles))
      start == Or(Ticks(shape.from), derived[1])
      end == Or(Ticks(shape.to), derived[2])
  IN  CASE RoleMode(role) = "CAPACITY_PLAN" ->
             IF role.plan # <<>> THEN (PlanDays(role.plan) * Point) \div 5 ELSE total
        [] RoleMode(role) = "EFFORT" -> total
        [] RoleMode(role) = "TIMELINE" ->
             IF start = None \/ end = None THEN total
             ELSE DaysOf((end - start) * Scaled(role), shape.percent)
        [] RoleMode(role) = "FULL_PROJECT" ->
             DaysOf(ProjectTicks(project) * role.count, shape.percent)

(* allocatedDays, which the cost is computed from: what people are there   *)
(* for, or what they are assigned where it is more.                        *)
AllocatedWith(project, role, resolved, assignment) ==
  Max({SumOver(DOMAIN role.people, LAMBDA i : PersonDays(project, role, i)) + SyntheticDays(resolved, assignment),
       SumOver(assignment.given, LAMBDA g : g.days)})

AllocatedDays(project, role, demand) ==
  IF role.people = <<>> THEN RoleDays(project, role)
  ELSE AllocatedWith(project, role, Resolve(role), Assignment(Resolve(role), demand))

(* The rows: the roles somebody has tasks for; tasks without hours are left *)
(* out.                                                                    *)
HasTasks(project, id) ==
  \E i \in ActiveFeatures(project) : id \in Mentioned(project, project.features[i])

ResourceRows(project, demand) ==
  [i \in {i \in DOMAIN project.roles : HasTasks(project, project.roles[i].id)} |->
     [effort |-> TotalDays(project, project.roles[i].id),
      allocated |-> AllocatedDays(project, project.roles[i], demand)]]

(* overheadRows: [type, value], a percentage of the effort, days for each  *)
(* week of the project, or days.                                           *)
OverheadDays(project, rows, overhead) ==
  CASE overhead.type = "PERCENTAGE" ->
         (overhead.value * SumOver(DOMAIN rows, LAMBDA i : rows[i].effort)) \div 100
    [] overhead.type = "DAYS_PER_WEEK" -> (overhead.value * ProjectTicks(project) * Day) \div TicksPerWeek
    [] OTHER -> overhead.value * Day

(* summary.totalDays                                                       *)
SummaryDays(project, rows) ==
  SumOver(DOMAIN rows, LAMBDA i : rows[i].allocated)
    + SumOver(project.overheads, LAMBDA o : OverheadDays(project, rows, o))
=============================================================================
