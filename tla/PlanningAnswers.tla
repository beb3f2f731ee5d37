-------------------------- MODULE PlanningAnswers --------------------------
(***************************************************************************)
(* The questions the read-only routes and the pure libraries answer, one   *)
(* at a time: a question is asked, computed from what is stored at that    *)
(* moment, and answered.  The invariants say what an answer may not be.    *)
(***************************************************************************)
EXTENDS Commercial, ProfileAudit, Optimiser, SquadApply, EpicLeveller

CONSTANTS Plans,     \* capacity plans of one role, their periods in order
          Projects,  \* projects that need no replanning
          Terms,     \* what a project may be sold for
          Databases, \* tables of capacity profiles, from before owners were unique
          Searches,  \* what the resource optimiser is asked
          Staffings, \* what the weekly planner is asked
          Levels,    \* what the epic leveller is asked
          Squads,    \* what the capacity planner is asked
          Horizon    \* a week after the last one the questions mention

(* Rows of profiles are finitely many, and keep their kind and createdAt.  *)
ProfileKind == {"ROLE", "NAMED_PERSON", "PLANNED_RESOURCE"}

ASSUME DatabaseAssumption ==
  /\ \A rows \in Databases : IsFiniteSet(rows)
  /\ \A p \in UNION Databases :
       /\ p = [id |-> p.id, made |-> p.made, project |-> p.project, role |-> p.role, person |-> p.person,
               kind |-> p.kind, source |-> p.source, says |-> p.says]
       /\ p.id \in Nat /\ p.made \in Nat /\ p.kind \in ProfileKind
  /\ \A p, q \in UNION Databases : p.id = q.id => p.made = q.made

ASSUME StaffingAssumption == Horizon \in Nat /\ \A p \in Staffings : IsStaffing(p)

ASSUME SearchAssumption == \A search \in Searches : IsSearch(search)

ASSUME LevelAssumption == \A p \in Levels : IsLevelling(p)

(* Profiles as they may be written: what validateProfileStructure demands. *)
IsStructured(p) ==
  LET ss == p.segments
  IN  /\ IsProfile(p)
      /\ ss = <<>> \/ p.basis = "capacityProfile"
      /\ ss = <<>> /\ p.basis = "capacityProfile" => p.percent = 0
      /\ \A k \in DOMAIN ss : ss[k].from \in Nat /\ ss[k].to \in ss[k].from .. Horizon
      /\ \A j, k \in DOMAIN ss : j # k => ss[j].to < ss[k].from \/ ss[k].to < ss[j].from

IsStaffed(role) ==
  /\ InSeq(role.people)
  /\ \A S \in {role.profiles} \cup {role.people[i].profiles : i \in DOMAIN role.people} :
       IsFiniteSet(S) /\ \A p \in S : IsStructured(p)
  /\ InSeq(role.plan) /\ \A k \in DOMAIN role.plan : {role.plan[k].from, role.plan[k].until} \subseteq Nat

IsScheduled(f) ==
  /\ f.from # None => f.from \in Nat /\ f.length \in Nat
  /\ \A k \in DOMAIN f.stories : f.stories[k].bar \in (Nat \X Nat) \cup {None}

IsPlannable(project) ==
  LET roles == project.roles
      fs == project.features
      rows == project.cache
  IN  /\ InSeq(roles) /\ \A i \in DOMAIN roles : IsStaffed(roles[i])
      /\ InSeq(fs) /\ \A i \in DOMAIN fs : IsFeature(fs[i], Ids(project)) /\ IsScheduled(fs[i])
      /\ InSeq(rows) /\ \A i \in DOMAIN rows : rows[i].week \in Nat /\ rows[i].days \in Nat
      /\ project.buffer \in Nat /\ project.onboarding \in Nat

ASSUME ProjectAssumption == Horizon < Forever /\ \A project \in Projects : IsPlannable(project)

VARIABLES question, answer

vars == <<question, answer>>

Nothing == [kind |-> "none"]

Init == question = Nothing /\ answer = Nothing

Ask(q) ==
  /\ question = Nothing
  /\ question' = q
  /\ UNCHANGED answer

Idle(kind) == question.kind = kind /\ answer = Nothing

(* materializeCapacityPlanResources for one role.                          *)
PlanAnswer(plan, head) ==
  [kind |-> "plan", head |-> head, days |-> PlanDays(plan),
   people |-> Trajectories(plan), slots |-> SlotWindows(plan), role |-> RoleProfileSegments(head)]

AnswerPlan ==
  /\ Idle("plan")
  /\ answer' = PlanAnswer(question.plan, WeeklyHeadcount(question.plan))
  /\ UNCHANGED question

(* deriveProjectPlanningModel, or a refusal.                               *)
ProjectAnswer(project, model, rows) ==
  [kind |-> "project", model |-> model, rows |-> rows, days |-> SummaryDays(project, rows)]

AnswerProject ==
  /\ Idle("project")
  /\ answer' = IF \A i \in DOMAIN question.project.roles : Resolvable(question.project.roles[i])
               THEN ProjectAnswer(question.project, Model(question.project),
                                  ResourceRows(question.project, WeeklyDemand(question.project)))
               ELSE [kind |-> "refused"]
  /\ UNCHANGED question

(* The profile's total, the Commercial tab and the exported profile.       *)
CostAnswer(project, rows, assignments, terms) ==
  [kind |-> "costed", terms |-> terms, cost |-> TotalCost(project, rows, terms),
   sale |-> Commercial(project, rows, assignments, terms),
   export |-> Exported(project, rows, assignments, terms)]

AnswerCosts ==
  /\ answer # Nothing /\ answer.kind = "project"
  /\ \E terms \in Terms :
       answer' = CostAnswer(question.project, answer.rows, answer.model.assignments, terms)
  /\ UNCHANGED question

(* audit:capacity-profile-ownership, and the readiness check: for which     *)
(* projects that need replanning it passes.                                *)
AnswerAudit ==
  /\ Idle("audit")
  /\ answer' = [kind |-> "audit", report |-> Repairable(question.rows),
                ready |-> {S \in SUBSET Range(Homes) : MigrationReady(question.rows, S)}]
  /\ UNCHANGED question

(* --repair-identical, after somebody may have changed one row.            *)
RepairAudit ==
  /\ answer # Nothing /\ answer.kind = "audit"
  /\ \E fresh \in Databases :
       /\ Cardinality(fresh \ question.rows) <= 1 /\ Cardinality(question.rows \ fresh) <= 1
       /\ answer' = [kind |-> "repaired", fresh |-> fresh, rows |-> Repaired(answer.report, fresh)]
  /\ UNCHANGED question

(* POST /optimise                                                          *)
AnswerSearch ==
  /\ Idle("search")
  /\ answer' = [kind |-> "search", best |-> Best(question.search), baseline |-> Baseline(question.search)]
  /\ UNCHANGED question

(* POST /optimise/apply, of a candidate or of the baseline; or a conflict. *)
AnswerApply ==
  /\ answer # Nothing /\ answer.kind = "search"
  /\ \E c \in answer.best \cup {answer.baseline} :
       LET scope == DOMAIN question.search.ranges
       IN  answer' = IF Applicable(question.search.project, c, scope)
                     THEN [kind |-> "applied", candidate |-> c, project |-> Applied(question.search.project, c, scope)]
                     ELSE [kind |-> "refused"]
  /\ UNCHANGED question

(* runSAPlanner, one week after the other.                                 *)
BeginWeeks ==
  /\ Idle("weeks")
  /\ answer' = [kind |-> "weeks", plan |-> Begin(question.staffing), over |-> FALSE]
  /\ UNCHANGED question

PlanWeek ==
  /\ answer # Nothing /\ answer.kind = "weeks" /\ ~answer.over
  /\ answer' = IF Over(question.staffing, answer.plan) THEN [answer EXCEPT !.over = TRUE]
               ELSE [answer EXCEPT !.plan = Step(question.staffing, @)]
  /\ UNCHANGED question

(* levelEpicStarts                                                         *)
LevelAnswer(p, starts) ==
  [kind |-> "level", starts |-> starts, epics |-> FirstStarts(p, starts),
   ends |-> Delivers(p, starts), peak |-> PeakUse(p, starts)]

AnswerLevel ==
  /\ Idle("level")
  /\ answer' = LevelAnswer(question.staffing, Starting(question.staffing))
  /\ UNCHANGED question

(* POST /squad-plan: computeJointPlan, a run of the planner at a time.     *)
Searching(plan) == [kind |-> "squad", plan |-> plan, over |-> plan.stage = "end"]

BeginSquad ==
  /\ Idle("squad")
  /\ answer' = IF ConfigFits(question.squad) /\ EditsFit(Range(question.squad.edits))
               THEN Searching(BeginJoint(Generated(question.squad)))
               ELSE [kind |-> "refused"]
  /\ UNCHANGED question

PlanSquad ==
  /\ answer # Nothing /\ answer.kind = "squad" /\ ~answer.over
  /\ answer' = Searching(StepJoint(answer.plan))
  /\ UNCHANGED question

(* POST /squad-plan/apply, of a reviewed plan, before its transaction.     *)
Review(q, best, replay) ==
  [kind |-> "reviewed", best |-> best, finished |-> Finished(q, replay),
   ends |-> Delivered(replay), bars |-> Preview(q.staffing, replay)]

ApplySquad ==
  /\ answer # Nothing /\ answer.kind = "squad" /\ answer.over
  /\ answer.plan.best.ends # None
  /\ answer' = IF Accepted(question.squad, answer.plan.best)
               THEN Review(question.squad, answer.plan.best,
                           RunPlanner(ReplayStaffing(question.squad, answer.plan.best.periods)))
               ELSE [kind |-> "refused"]
  /\ UNCHANGED question

Close ==
  /\ answer # Nothing
  /\ answer.kind \in {"weeks", "squad"} => answer.over
  /\ question' = Nothing /\ answer' = Nothing

AskPlan == \E plan \in Plans : Ask([kind |-> "plan", plan |-> plan])
AskProject == \E project \in Projects : Ask([kind |-> "project", project |-> project])
AskAudit == \E rows \in Databases : Ask([kind |-> "audit", rows |-> rows])
AskSearch == \E search \in Searches : Ask([kind |-> "search", search |-> search])
AskSquad == \E squad \in Squads : Ask([kind |-> "squad", squad |-> squad])
AskLevel == \E staffing \in Levels : Ask([kind |-> "level", staffing |-> staffing])
AskWeeks == \E staffing \in Staffings : Ask([kind |-> "weeks", staffing |-> staffing])

Next ==
  \/ AskPlan \/ AskProject \/ AskSearch \/ AskWeeks \/ AskLevel \/ AskSquad \/ AskAudit
  \/ AnswerPlan \/ AnswerProject \/ AnswerCosts \/ AnswerAudit \/ RepairAudit \/ AnswerSearch \/ AnswerApply \/ AnswerLevel
  \/ BeginWeeks \/ PlanWeek \/ BeginSquad \/ PlanSquad \/ ApplySquad
  \/ Close

Spec == Init /\ [][Next]_vars

----------------------------------------------------------------------------
Weeks == 0 .. Horizon

(* A role as Squad Planner writes it, and as it is after the transfer to   *)
(* manual planning.                                                        *)
Planned(kind, source, segments) ==
  [kind |-> kind, basis |-> "capacityProfile", source |-> source,
   transferred |-> kind # "ROLE" /\ source = "manual",
   percent |-> None, from |-> None, to |-> None, segments |-> segments]

RoleOf(source, a) ==
  [id |-> "planned", name |-> "planned",
   profiles |-> {Planned("ROLE", source, a.role)},
   people |-> [i \in DOMAIN a.people |->
                [profiles |-> {Planned("PLANNED_RESOURCE", source, a.people[i])}]]]

Headcount(a, w) == IF w \in DOMAIN a.head THEN a.head[w] ELSE 0

(* A plan means the same headcount in every week whichever way it is read: *)
(* people, slots or the aggregate of the role, owned by Squad Planner or   *)
(* transferred to manual planning; and nobody works more than full time.   *)
PlanCountedOnce ==
  answer # Nothing /\ answer.kind = "plan" =>
    \A w \in Weeks :
      LET slots == {s \in answer.slots : Covers(s.window, w)}
      IN  /\ SumOver(slots, LAMBDA s : s.window.percent) = Headcount(answer, w)
          /\ \A s \in slots : s.window.percent <= 100
          /\ \A i \in DOMAIN answer.people : PercentAt(answer.people[i], w) <= 100
          /\ \A source \in {"squadPlanner", "manual"} :
               WeeklyPercent(Resolve(RoleOf(source, answer)), w) = Headcount(answer, w)

Answered == answer # Nothing /\ answer.kind = "project"

Role(i) == question.project.roles[i]

(* The assignment uses exactly the capacity the scheduler works with, and  *)
(* nobody is given more than they have in that week.                       *)
CapacityUsedUp ==
  Answered =>
    \A i \in DOMAIN question.project.roles :
      LET resolved == Resolve(Role(i))
          demand == answer.model.demand
          asked(w) == IF <<w, resolved.name>> \in DOMAIN demand
                      THEN demand[<<w, resolved.name>>] ELSE 0
          given(w) == {g \in answer.model.assignments[i].given : g.week = w}
      IN  \A w \in Weeks :
            /\ SumOver(given(w), LAMBDA g : g.days) = Min({asked(w), WeeklyCapacity(resolved, w)})
            /\ \A g, h \in given(w) : g.holder = h.holder => g = h
            /\ \A g \in given(w) :
                 \E s \in answer.model.assignments[i].spans[g.holder] :
                   s.from <= w /\ w <= s.to /\ s.days >= g.days
            /\ \A g \in given(w) :
                 g.days <= HolderCapacity(Holders(resolved, TRUE)[g.holder], w)

(* What is asked of a role is what the cache says of it, or its share of   *)
(* the backlog up to rounding: nothing is counted twice, nothing lost.     *)
DemandConserved ==
  Answered =>
    \A i \in DOMAIN question.project.roles :
      LET name == Role(i).name
          rows == {k \in DOMAIN answer.model.demand : k[2] = name}
          asked == SumOver(rows, LAMBDA k : answer.model.demand[k])
          cache == question.project.cache
          cached == {n \in DOMAIN cache : NameOfKey(question.project, cache[n].key) = name}
          active == ActiveEntries(question.project)
          spread == SumOver(active, LAMBDA n : EffortOf(question.project.features[n], Role(i).id))
          off == asked - spread
          rounding == (Cardinality(rows) + Cardinality(active)) * (Day \div 20)
      IN  IF cached # {} THEN asked = SumOver(cached, LAMBDA n : cache[n].days)
          ELSE - rounding <= off /\ off <= rounding

(* People with a capacity profile are costed for exactly the capacity that *)
(* they can be assigned, and a role for no less than what it is assigned.  *)
CapacityCosted ==
  Answered =>
    \A i \in DOMAIN answer.rows :
      LET resolved == Resolve(Role(i))
      IN  /\ \A p \in DOMAIN resolved.people :
               resolved.people[p].display.mode = "CAPACITY_PLAN" =>
                 PersonDays(question.project, Role(i), p)
                   = SumOver(Weeks, LAMBDA w : HolderCapacity(resolved.people[p], w))
          /\ Role(i).people # <<>> =>
               answer.rows[i].allocated
                 >= SumOver(answer.model.assignments[i].given, LAMBDA g : g.days)

Listing == UNION {DOMAIN question.project.roles[i].people : i \in DOMAIN question.project.roles}

(* The sale and the export are the same money while everybody is billed    *)
(* for the days assigned; neither is more than the profile's total, while  *)
(* all are billed alike; and percentages take no more than their sum.      *)
PricesAgree ==
  answer # Nothing /\ answer.kind = "costed" =>
    LET terms == answer.terms
        percent == SumOver(terms.discounts, LAMBDA d : d.value)
    IN  /\ terms.proRata = {} => answer.sale.gross = answer.export
        /\ answer.export <= answer.cost
        /\ terms.proRata \cap Listing \in {{}, Listing} => answer.sale.gross <= answer.cost
        /\ (\A d \in terms.discounts : d.type = "PERCENTAGE") =>
             100 * (answer.sale.gross - answer.sale.after) <= percent * answer.sale.gross

(* People are given, and cost, what they can do.                            *)
PeopleCostTheirCapacity == CapacityUsedUp /\ CapacityCosted

(* Neither hours nor money are made or lost on the way from the plan and   *)
(* the backlog to the sale.                                                *)
HoursConserved == PlanCountedOnce /\ DemandConserved /\ PricesAgree

----------------------------------------------------------------------------
(* The audit.                                                              *)
OnlyIdenticalGroups(rows) ==
  Groups(rows) = Repairable(rows) /\ \A p \in rows : ValidOwner(p)

(* A repair loses nothing that any profile says, touches only rows that    *)
(* were audited as they still are, leaves nothing to report if it changes  *)
(* anything, and succeeds where there was nothing else to repair.          *)
RepairKeepsCapacity ==
  answer # Nothing /\ answer.kind = "repaired" =>
    LET removed == answer.fresh \ answer.rows
    IN  /\ answer.rows \subseteq answer.fresh
        /\ \A p \in answer.fresh : \E q \in answer.rows : SaysSame(p, q)
        /\ removed \subseteq question.rows
        /\ \/ removed # {}
           \/ answer.fresh = question.rows /\ OnlyIdenticalGroups(question.rows)
           => Clean(answer.rows)

(* Planning can read every role of a database that is ready to migrate.    *)
ReadyMeansReadable ==
  answer # Nothing /\ answer.kind = "audit" =>
    \A replanning \in answer.ready, r \in DOMAIN StaffOf :
      Homes[r] \notin replanning => Resolvable(StoredRole(question.rows, r))

(* The tools run before a migration neither lose capacity nor let a        *)
(* database pass that planning cannot read.                                *)
AuditSound == RepairKeepsCapacity /\ ReadyMeansReadable

----------------------------------------------------------------------------
(* No scenario within the limits is as soon, as cheap and as well used as  *)
(* the one ranked first and better in one of them, whatever the mode.      *)
BestIsNotDominated ==
  answer # Nothing /\ answer.kind = "search" =>
    \A c \in answer.best, d \in Feasible(question.search) :
      /\ d.metrics.delivery <= c.metrics.delivery
      /\ d.metrics.utilisation >= c.metrics.utilisation
      /\ d.metrics.cost <= c.metrics.cost
      => /\ d.metrics.delivery = c.metrics.delivery
         /\ d.metrics.utilisation = c.metrics.utilisation

(* An applied candidate delivers when it said it would, and without start  *)
(* weeks in all it said; a person who ramps up is away until the start, is *)
(* no less there later, and leaves if they left before; a role that        *)
(* belongs to Squad Planner is as it was; and to apply it again changes    *)
(* nothing.                                                                *)
CandidateApplies ==
  answer # Nothing /\ answer.kind = "applied" =>
    LET search == question.search
        c == answer.candidate
        is == answer.project
        percent(role, i, w) == PercentAt(PersonSegments(role, role.people[i]), w)
    IN  /\ Delivery(is) = c.metrics.delivery
        /\ (\A id \in DOMAIN c.starts : c.starts[id] = 0) => Metrics(is, search.rates) = c.metrics
        /\ \A r \in DOMAIN is.roles :
             LET was == search.project.roles[r]
                 now == is.roles[r]
                 start == c.starts[now.id]
             IN  /\ PlannerManaged(was) => was = now
                 /\ \A i \in DOMAIN now.people : now.people[i] # was.people[i] =>
                      /\ \A w \in Weeks : w < start => percent(now, i, w) = 0
                      /\ \A w \in Weeks : w >= start => percent(now, i, w) >= percent(was, i, w)
                      /\ (\E w \in Weeks : percent(was, i, w) > 0) /\ percent(was, i, Horizon) = 0
                           => percent(now, i, Horizon) = 0
        /\ Applicable(is, c, DOMAIN search.ranges) /\ Applied(is, c, DOMAIN search.ranges) = is

(* The optimiser's answer can be acted on: the first choice is no worse     *)
(* than any other, and applying it gives what it promised.                  *)
SearchIsUseful == BestIsNotDominated /\ CandidateApplies

----------------------------------------------------------------------------
(* The weekly planner.                                                     *)
Placed(p, s) == ~s.refused /\ Unfinished(p, s) = {}

GivenTo(s, i) == {g \in s.given : g.feature = i}

(* The weeks a feature is worked on, and those of its pinned stories.      *)
WorkWeeks(p, s, i) ==
  {g.week : g \in GivenTo(s, i)}
    \cup {w \in Weeks : \E pin \in Pins(p, i) : OverlapOf(pin.from, pin.to, w) > 0}

(* The pinned stories of a feature are looked at when it is first given    *)
(* work, or ends without any to give.                                      *)
PinsSeen(p, s, i) == GivenTo(s, i) # {} \/ (~HasDemand(p, i) /\ s.done[i] # None)

(* A plan never gives a role more than there is beside its pinned work, or *)
(* a feature more people than may work on it.                              *)
StaffedWithinCapacity(p, s) ==
  \A r \in Roles(p), w \in {g.week : g \in s.given} :
    LET given == {g \in s.given : g.role = r /\ g.week = w}
    IN  /\ SumOver(given, LAMBDA g : g.days) + PinnedDays(p, r, w) <= CapacityOf(p, r, w)
        /\ \A g \in given : g.days <= FeatureCap(p, r)

(* What a feature was given and what it still needs are all of its work.   *)
WorkConserved(p, s) ==
  \A i \in Features(p) : \A r \in DOMAIN p.features[i].days :
    SumOver({g \in GivenTo(s, i) : g.role = r}, LAMBDA g : g.days) + s.left[i][r] = p.features[i].days[r]

(* No feature is worked on before what it waits for is finished, and a     *)
(* manual window is kept.                                                  *)
WorkedInOrder(p, s) ==
  \A i \in Features(p) :
    /\ PinsSeen(p, s, i) =>
         \A j \in Predecessors(p, i) \ {0} : \A v \in WorkWeeks(p, s, i), w \in WorkWeeks(p, s, j) :
           w < v \/ (w = v /\ Pins(p, i) # {} /\ PinnedFrom(p, i) > TicksPerWeek * v)
    /\ \A g \in GivenTo(s, i) :
         LET lock == p.features[i].lock
         IN  lock # None => /\ OverlapOf(lock[1], lock[2], g.week) > 0
                            /\ s.started[i] = lock[1]

(* A plan is sound from week to week.                                      *)
WeeklyPlanSound ==
  answer # Nothing /\ answer.kind = "weeks" /\ ~answer.plan.refused =>
    /\ StaffedWithinCapacity(question.staffing, answer.plan)
    /\ WorkConserved(question.staffing, answer.plan)
    /\ WorkedInOrder(question.staffing, answer.plan)

(* A plan whose roles have all their people from the first week that they  *)
(* have anybody, without locks, pins or switched-off features, is found.   *)
FirstStaffed(p, r) == CHOOSE w \in 0 .. Forever :
  CapacityOf(p, r, w) > 0 /\ \A v \in 0 .. w - 1 : CapacityOf(p, r, v) = 0

Staffed(p) ==
  /\ \A i \in Features(p) : LET f == p.features[i] IN f.lock = None /\ f.pins = {} /\ 0 \notin f.after
  /\ \A r \in Roles(p) :
       /\ People(p, r) > 0
       /\ \A v \in 0 .. 9 * Horizon :
            CapacityOf(p, r, FirstStaffed(p, r) + v) >= Point * People(p, r)

StaffedPlansEnd ==
  answer # Nothing /\ answer.kind = "weeks" /\ answer.over /\ Staffed(question.staffing) =>
    Placed(question.staffing, answer.plan)

----------------------------------------------------------------------------
(* The epic leveller.                                                      *)
Circles(p) == \E S \in SUBSET Features(p) : S # {} /\ \A i \in S : WaitsFor(p, i) \cap S # {}

FitAlone(p) ==
  \A i \in Features(p) : Takes(p, i) > 0 => \A r \in HoldUp(p, i) : Rate(p, i, r) <= WeekZero(p, r)

(* One after the other, with gaps between, they are done by the last week  *)
(* that is searched.                                                       *)
Searchable(p) == SumOver(Features(p), LAMBDA i : Fit + Lasts(p, i)) <= Search

(* Where nothing waits for itself, no feature starts before what it waits  *)
(* for has ended; and when each feature alone is within the capacity of    *)
(* the roles that hold it up, all the features that a role holds up are so *)
(* together, in every week, unless there may be too many for the search.   *)
LevelledInOrder ==
  answer # Nothing /\ answer.kind = "level" =>
    LET p == question.staffing
        starts == answer.starts
    IN  /\ ~Circles(p) =>
             \A i \in Features(p) : \A j \in WaitsFor(p, i) : Fine * starts[i] >= FinishOf(p, starts, j)
        /\ FitAlone(p) /\ Searchable(p) =>
             \A r \in Roles(p), w \in 0 .. CeilDiv(answer.ends, Fine) :
               UsedBy(p, starts, {i \in Features(p) : r \in HoldUp(p, i)}, r, w) <= WeekZero(p, r)

----------------------------------------------------------------------------
(* The capacity planner.                                                   *)
SquadPlan == answer.plan
Squad == answer # Nothing /\ answer.kind = "squad" /\ ~answer.plan.atOdds

HeadsOf(period, r) == IF r \in DOMAIN period.heads THEN period.heads[r] ELSE 0

(* A plan read back as people is the headcount it says, role by role and   *)
(* week by week: named people, unnamed ones and slots are counted once.    *)
ReplayIsEnvelope(q, periods) ==
  LET replayed == Replayed(q.staffing.roles, periods)
  IN  \A i \in DOMAIN periods : \A r \in DOMAIN periods[i].heads :
        \A w \in periods[i].from .. periods[i].until - 1 :
          PercentIn(replayed[r], w) = periods[i].heads[r]

(* A locked headcount is kept; any other is no more than the cap of its    *)
(* role and no less than the people it has by name.                        *)
HeadsWithinLimits(q, periods) ==
  \A i \in DOMAIN periods : \A r \in DOMAIN periods[i].heads :
    LET role == q.staffing.roles[r]
        h == periods[i].heads[r]
        locks == LockOf(q, r, periods[i].from)
    IN  IF locks # {} THEN h = (CHOOSE e \in locks : TRUE).heads
        ELSE /\ h <= CapOf(q, r)
             /\ h >= Max({NamedPercent(role, w) : w \in periods[i].from .. periods[i].until - 1})

SquadPlanFaithful ==
  Squad => /\ ReplayIsEnvelope(SquadPlan.q, SquadPlan.best.periods)
           /\ HeadsWithinLimits(SquadPlan.q, SquadPlan.best.periods)

StillOnTarget(q, periods) ==
  LET s == RunPlanner(StaffedWith(q, Replayed(q.staffing.roles, periods)))
  IN  Finished(q, s) /\ OnTarget(q, s)

(* A plan found within the target is still within it when it is replayed   *)
(* after its reduction, and no role could have a quantum less in a period. *)
NothingToSpare(q, periods) ==
  \A i \in DOMAIN periods : \A r \in DOMAIN periods[i].heads :
    \/ periods[i].heads[r] - Quarter < LeastHeads(q, periods[i], r)
    \/ ~StillOnTarget(q, Lowered(periods, i, r))

SquadPlanTight ==
  Squad /\ answer.over /\ SquadPlan.last # None /\ SquadPlan.last <= SquadPlan.q.staffing.target =>
    /\ SquadPlan.onTarget
    /\ Locks(SquadPlan.q) = {} => NothingToSpare(SquadPlan.q, SquadPlan.best.periods)

(* A plan that was generated is accepted as it was reviewed, and its replay *)
(* delivers feature by feature what was reviewed.                          *)
Reviewed == answer # Nothing /\ answer.kind = "reviewed"

ReviewedPlanDelivers ==
  /\ Reviewed => answer.finished /\ answer.ends = answer.best.ends /\ answer.bars = answer.best.bars
  /\ answer # Nothing /\ answer.kind = "refused" /\ question.kind = "squad" => ~ConfigFits(question.squad)

(* The people an applied plan leaves are the headcount that was reviewed,  *)
(* or the named people where they are more, as they are in its replay; and *)
(* the plan can be opened as a draft again.                                *)
ReviewedPlanStaffs ==
  Reviewed =>
    LET roles == question.squad.staffing.roles
        periods == answer.best.periods
    IN  /\ EditsFit(Reopened(periods))
        /\ \A r \in PlannedRoles(periods), w \in Weeks :
             LET heads == Max({HeadsAt(periods, r, w), NamedPercent(roles[r], w)})
             IN  /\ PercentIn(ReplayRole(roles[r], periods, r), w) = heads
                 /\ StoredPercent(roles[r], periods, r, w) = heads

(* The headcounts of a squad plan are all there, within their limits, none *)
(* is there without need, and applying a reviewed plan gives the plan that *)
(* was reviewed.                                                           *)
SquadPlanSound ==
  /\ SquadPlanFaithful /\ SquadPlanTight
  /\ ReviewedPlanDelivers /\ ReviewedPlanStaffs
=============================================================================
