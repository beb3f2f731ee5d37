--------------------------- MODULE CapacityViews ---------------------------
(***************************************************************************)
(* The read model of planning: what each role and person can do in a week, *)
(* how much is asked of them, and who is given what.                       *)
(* schedulerCapacityResolver.ts, capacityProfileResourceAdapter.ts,        *)
(* capacityProfileLegacyProjection.ts, projectPlanningModel.ts,            *)
(* namedResourceAssignments.ts.                                            *)
(*                                                                         *)
(* A role is [id, name, profiles, people], a person [profiles]; profiles   *)
(* are sets of rows and people come in the order of their creation.  A     *)
(* profile is [kind, basis, source, transferred, percent, from, to,        *)
(* segments], None standing for null.  Work is counted in 120ths of a day, *)
(* so that one percent of a person's week is Point.                        *)
(***************************************************************************)
EXTENDS CapacityPlans

CONSTANTS None,
          Forever,       \* Infinity: past every week
          TicksPerWeek   \* entries start and end on ticks

Day == 120
Point == (5 * Day) \div 100
HoursPerDay == 8

ASSUME ViewAssumption ==
  Forever \in Nat /\ TicksPerWeek \in Nat \ {0} /\ None \notin Nat

Or(x, default) == IF x = None THEN default ELSE x

SumOver(S, f(_)) == SumFunction([x \in S |-> f(x)])

InSeq(s) == s \in Seq(Range(s))
HasSegments(x) == InSeq(x.segments) /\ \A k \in DOMAIN x.segments : x.segments[k].percent \in Nat

----------------------------------------------------------------------------
(* Profiles.                                                               *)

(* profileDataToSchedulerSegments                                          *)
Segments(p) ==
  IF p.segments # <<>> THEN p.segments
  ELSE <<Window(Or(p.from, 0), Or(p.to, Forever), Or(p.percent, 100))>>

PercentAt(segments, w) ==
  LET i == SelectInSeq(segments, LAMBDA s : Covers(s, w))
  IN  IF i = 0 THEN 0 ELSE segments[i].percent

(* planningBasisToAllocationMode                                           *)
ModeOf(basis) ==
  CASE basis = "availabilityWindow" -> "TIMELINE"
    [] basis = "wholeProjectAllocation" -> "FULL_PROJECT"
    [] basis = "capacityProfile" -> "CAPACITY_PLAN"
    [] OTHER -> "EFFORT"

SegmentWeeks(s) == Max({0, s.to - s.from + 1})

(* weightedAveragePercent, in hundredths of a percent.                     *)
WeightedPercent(ss) ==
  LET weeks == FoldLeft(LAMBDA n, s : n + SegmentWeeks(s), 0, ss)
      sum == FoldLeft(LAMBDA n, s : n + SegmentWeeks(s) * s.percent, 0, ss)
  IN  IF weeks = 0 THEN 10000 ELSE (200 * sum + weeks) \div (2 * weeks)

(* projectCapacityProfileToLegacyAllocation; percents in hundredths.       *)
Projection(p) ==
  LET ss == p.segments
      shape(mode, percent, from, to, lossy) ==
        [mode |-> mode, percent |-> percent, from |-> from, to |-> to, lossy |-> lossy]
  IN  CASE ss = <<>> /\ (p.from # None \/ p.to # None) ->
             shape("TIMELINE", 100 * Or(p.percent, 100), p.from, p.to, FALSE)
        [] ss = <<>> /\ p.from = None /\ p.to = None ->
             shape(ModeOf(p.basis), 100 * Or(p.percent, 100), None, None, FALSE)
        [] Len(ss) = 1 ->
             shape(IF ModeOf(p.basis) = "EFFORT" THEN "TIMELINE" ELSE ModeOf(p.basis),
                   100 * ss[1].percent, ss[1].from, ss[1].to, FALSE)
        [] OTHER ->
             shape(ModeOf(p.basis), WeightedPercent(ss),
                   Min({ss[i].from : i \in DOMAIN ss}), Max({ss[i].to : i \in DOMAIN ss}), TRUE)

(* buildResourceCapacityProfileMap, or CapacityIntegrityError: one profile *)
(* for each person, and one for the role unless it has named people only.  *)
Resolvable(role) ==
  LET all(i) == role.people[i].profiles
      persons == DOMAIN role.people
  IN  /\ \A i \in persons : Cardinality(all(i)) = 1
      /\ Cardinality(role.profiles) <= 1
      /\ role.profiles = {} =>
           /\ persons # {}
           /\ \A i \in persons : \A p \in all(i) : p.kind = "NAMED_PERSON"

TheProfile(S) == CHOOSE p \in S : TRUE

(* A person whose planned profile was transferred to a manual role.        *)
Suppressed(role, q) ==
  LET p == TheProfile(q.profiles)
  IN  /\ p.kind = "PLANNED_RESOURCE" /\ p.source = "manual" /\ p.transferred
      /\ \E r \in role.profiles : r.source = "manual" /\ r.basis = "capacityProfile"

(* Mutant: transferred people count beside their role.                     *)
KeptSegments(role, q) == Segments(TheProfile(q.profiles))

PersonSegments(role, q) ==
  IF Suppressed(role, q) THEN <<Window(0, Forever, 0)>>
  ELSE Segments(TheProfile(q.profiles))

(* hasSquadPlannerPlannedResources                                         *)
PlannedApart(role) ==
  /\ \E r \in role.profiles : r.source = "squadPlanner"
  /\ \E i \in DOMAIN role.people : \E p \in role.people[i].profiles :
       p.kind = "PLANNED_RESOURCE" /\ p.source = "squadPlanner"

ResolvedRoleSegments(role) ==
  IF role.profiles = {} \/ PlannedApart(role) THEN <<>>
  ELSE Segments(TheProfile(role.profiles))

RoleMode(role) ==
  IF role.profiles = {} THEN "EFFORT" ELSE Projection(TheProfile(role.profiles)).mode

(* resolveSchedulerCapacity; buildTransferredZeroNR and buildProfileBackedNR *)
(* for the people.                                                         *)
Resolve(role) ==
  [id |-> role.id, name |-> role.name, mode |-> RoleMode(role),
   segments |-> ResolvedRoleSegments(role),
   people |-> [i \in DOMAIN role.people |->
     LET q == role.people[i]
     IN  [segments |-> PersonSegments(role, q),
          display |-> IF Suppressed(role, q)
                      THEN [mode |-> "CAPACITY_PLAN", percent |-> 0,
                            from |-> None, to |-> None, lossy |-> FALSE]
                      ELSE Projection(TheProfile(q.profiles))]]]

(* getWeeklyCapacity in percent of a person: since the resolver always     *)
(* gives segments, count does not matter.                                  *)
WeeklyPercent(resolved, w) ==
  SumOver(DOMAIN resolved.people, LAMBDA i : PercentAt(resolved.people[i].segments, w))
    + PercentAt(resolved.segments, w)

WeeklyCapacity(resolved, w) == Point * WeeklyPercent(resolved, w)
=============================================================================
