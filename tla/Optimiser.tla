------------------------------ MODULE Optimiser ------------------------------
(***************************************************************************)
(* The resource optimiser: a search over headcounts (lib/optimiser.ts) and *)
(* the application of what it found (lib/optimiserApplyService.ts).        *)
(*                                                                         *)
(* A search is [project, ranges, rampUp, limits, mode, rates]: a project   *)
(* as in PlanningModel, of one epic, whose profiles also have a            *)
(* provenance; for some roles the least and most people; limits on the     *)
(* budget and on the length of the delivery in ticks; and day rates.  The  *)
(* random sample that stands for more than 5000 scenarios is left out.     *)
(***************************************************************************)
EXTENDS PlanningModel

(* What is asked: a project that planning can read, whose people are there *)
(* for no more than full time, and numbers of people to be tried, at least *)
(* one.  A role of nobody, whose work would never end, is left out.        *)
IsProfile(p) ==
  /\ HasSegments(p)
  /\ {p.percent, p.from, p.to} \subseteq Nat \cup {None}

IsPersonal(p) ==
  /\ IsProfile(p)
  /\ p = [kind |-> p.kind, basis |-> p.basis, source |-> p.source, transferred |-> p.transferred,
          percent |-> p.percent, from |-> p.from, to |-> p.to, segments |-> p.segments, provenance |-> p.provenance]
  /\ p.percent \in 0 .. 100 \cup {None}

IsRole(role) ==
  /\ role = [id |-> role.id, name |-> role.name, profiles |-> role.profiles, people |-> role.people,
             count |-> role.count, plan |-> role.plan]
  /\ role.count \in Nat \ {0} /\ InSeq(role.people) /\ Resolvable(role)
  /\ IsFiniteSet(role.profiles) /\ \A p \in role.profiles : IsProfile(p)
  /\ \A i \in DOMAIN role.people :
       /\ role.people[i] = [profiles |-> role.people[i].profiles] /\ IsFiniteSet(role.people[i].profiles)
       /\ \A p \in role.people[i].profiles : IsPersonal(p)

IsFeature(f, ids) ==
  /\ f = [epic |-> f.epic, active |-> f.active, from |-> f.from, length |-> f.length, stories |-> f.stories]
  /\ f.active \in BOOLEAN /\ InSeq(f.stories)
  /\ \A k \in DOMAIN f.stories :
       f.stories[k].active \in BOOLEAN /\ \A id \in ids \cup {None} : f.stories[k].hours[id] \in Nat

IsProject(project) ==
  LET ids == Ids(project)
      roles == project.roles
      fs == project.features
  IN  /\ project = [roles |-> roles, features |-> fs, cache |-> project.cache,
                    parallel |-> project.parallel, buffer |-> project.buffer,
                    onboarding |-> project.onboarding, overheads |-> project.overheads]
      /\ InSeq(roles) /\ \A r \in DOMAIN roles : IsRole(roles[r])
      /\ \A r, s \in DOMAIN roles : roles[r].id = roles[s].id => r = s
      /\ InSeq(fs) /\ \A i \in DOMAIN fs : IsFeature(fs[i], ids)
      /\ None \notin ids

IsSearch(search) ==
  LET ids == Ids(search.project)
  IN  /\ IsProject(search.project)
      /\ DOMAIN search.ranges \subseteq ids
      /\ \A id \in DOMAIN search.ranges : search.ranges[id] \in (Nat \ {0}) \X Nat
      /\ \A id \in ids : search.rates[id] \in Int

IndexOf(project, id) == RoleIndex(project, id)
BaseCounts(project) == [id \in Ids(project) |-> project.roles[IndexOf(project, id)].count]

----------------------------------------------------------------------------
(* The schedule of an epic without dependencies and pins for given         *)
(* headcounts (runScheduler), its lengths rounded up to ticks.             *)

WorkIn(e, k, id) == e.stories[k].hours[id] * (Day \div HoursPerDay)
HeadsFor(counts, id) == IF id = None THEN 1 ELSE counts[id]

PhaseLength(counts, e, k) ==
  Max({Day} \cup {WorkIn(e, k, id) \div HeadsFor(counts, id) : id \in DOMAIN counts \cup {None}})

Active(fs) == {i \in DOMAIN fs : fs[i].active}

Effort(fs, id) == SumOver(Active(fs), LAMBDA i : EffortOf(fs[i], id))

SpanFloor(fs, parallel, counts) ==
  IF Cardinality(Active(fs)) < 2 \/ \A i \in Active(fs) : fs[i].epic \notin parallel THEN 0
  ELSE Max({0} \cup {Effort(fs, id) \div counts[id] : id \in DOMAIN counts})

LengthOf(counts, e, floor) ==
  LET phases == SumOver(ActiveStories(e), LAMBDA k : PhaseLength(counts, e, k))
  IN  IF ActiveStories(e) = {} THEN TicksPerWeek ELSE CeilDiv(TicksPerWeek * Max({phases, floor}), 5 * Day)

Dated(fs, parallel, counts) ==
  LET length(i) == LengthOf(counts, fs[i], SpanFloor(fs, parallel, counts))
      before(i) == {j \in 1 .. i - 1 : fs[j].active /\ fs[i].epic \notin parallel}
  IN  [i \in DOMAIN fs |->
         IF fs[i].active THEN [fs[i] EXCEPT !.from = SumOver(before(i), length), !.length = length(i)]
                         ELSE [fs[i] EXCEPT !.from = None, !.length = None]]

WithCounts(roles, counts) == [r \in DOMAIN roles |-> [roles[r] EXCEPT !.count = counts[roles[r].id]]]

(* A scenario has no cache of the demand.                                  *)
Scheduled(project, counts) ==
  [project EXCEPT !.features = Dated(@, project.parallel, counts), !.roles = WithCounts(@, counts), !.cache = <<>>]

----------------------------------------------------------------------------
(* computeMetrics.  The overlaid headcounts and start weeks are nothing    *)
(* that getWeeklyCapacity reads: after resolution everybody has segments.  *)

Entries(fs) == {i \in Active(fs) : fs[i].from # None}
LastTick(fs) == Max({0} \cup {fs[i].from + fs[i].length : i \in Entries(fs)})
Delivery(s) == LastTick(s.features)

Demanded(s, id) == Effort(s.features, id)

Used(s, id) ==
  UNION {WeeksOf(s.features[i]) : i \in {j \in Entries(s.features) : id \in Mentioned(s, s.features[j])}}

CapacityIn(s, id, w) == WeeklyCapacity(Resolve(s.roles[IndexOf(s, id)]), w)

DeliveryWeeks(s) == 0 .. CeilDiv(Delivery(s), TicksPerWeek) - 1

Metrics(s, rates) ==
  LET asked == {id \in Ids(s) : Demanded(s, id) > 0 /\ Delivery(s) > 0}
      capacity(id) == SumOver(DeliveryWeeks(s), LAMBDA w : CapacityIn(s, id, w))
      able == {id \in asked : capacity(id) > 0}
      use(id) == (10000 * Demanded(s, id)) \div capacity(id)
  IN  [delivery |-> Delivery(s),
       utilisation |-> IF able = {} THEN 0 ELSE SumOver(able, use) \div Cardinality(able),
       gaps |-> [id \in asked |-> Cardinality({w \in DeliveryWeeks(s) \ Used(s, id) : CapacityIn(s, id, w) > 0})],
       cost |-> SumOver(Ids(s), LAMBDA id : Demanded(s, id) * rates[id]) \div Day,
       warnings |-> Cardinality(ParallelWarnings(s))]

----------------------------------------------------------------------------
(* The search.                                                             *)

(* The first week a role is asked for in the baseline.                     *)
FirstWeek(project, id) ==
  LET weeks == Used(Scheduled(project, BaseCounts(project)), id)
  IN  IF weeks = {} THEN 0 ELSE Min(weeks)

SuggestedStarts(search) ==
  [id \in Ids(search.project) |->
     IF search.rampUp /\ id \in DOMAIN search.ranges THEN FirstWeek(search.project, id) ELSE 0]

Scenarios(search) ==
  {counts \in [Ids(search.project) -> 1 .. Max({1} \cup {search.ranges[id][2] : id \in DOMAIN search.ranges}
                                                \cup Range(BaseCounts(search.project)))] :
     \A id \in Ids(search.project) :
       IF id \in DOMAIN search.ranges THEN counts[id] \in search.ranges[id][1] .. search.ranges[id][2]
                                      ELSE counts[id] = BaseCounts(search.project)[id]}

Candidate(search, counts) ==
  [counts |-> counts, starts |-> SuggestedStarts(search),
   metrics |-> Metrics(Scheduled(search.project, counts), search.rates)]

WithinLimits(m, limits) ==
  /\ limits.longest # None => m.delivery <= limits.longest
  /\ limits.shortest # None => m.delivery >= limits.shortest
  /\ limits.budget # None => m.cost <= limits.budget
  /\ m.warnings = 0

Feasible(search) ==
  {c \in {Candidate(search, counts) : counts \in Scenarios(search)} : WithinLimits(c.metrics, search.limits)}

(* The place of a value between the least and the most: a share of n.      *)
Share(x, all) ==
  IF Min(all) = Max(all) THEN [of |-> 2, n |-> 1]
  ELSE [of |-> Max(all) - Min(all), n |-> x - Min(all)]

BalancedScore(c, all) ==
  LET weeks == Share(c.metrics.delivery, {x.metrics.delivery : x \in all})
      use == Share(c.metrics.utilisation, {x.metrics.utilisation : x \in all})
      costs == {x.metrics.cost : x \in all}
      cost == Share(c.metrics.cost, costs)
      speed == (weeks.of - weeks.n) * use.of * cost.of
      busy == use.n * weeks.of * cost.of
      cheap == (cost.of - cost.n) * weeks.of * use.of
  IN  IF Max(costs) > 0 THEN 2 * speed + 2 * busy + cheap ELSE speed + busy

(* The order candidates are listed in.                                     *)
Lexicographic(x, y) ==
  \E i \in DOMAIN x : x[i] > y[i] /\ \A j \in 1 .. i - 1 : x[j] = y[j]

Ranked(mode, all, c) ==
  LET m == c.metrics
  IN  CASE mode = "speed" -> <<- m.delivery, - m.cost, m.utilisation>>
        [] mode = "utilisation" -> <<m.utilisation, - m.delivery>>
        [] OTHER -> <<BalancedScore(c, all)>>

FirstOf(mode, all) ==
  {c \in all : \A d \in all : ~Lexicographic(Ranked(mode, all, d), Ranked(mode, all, c))}

Best(search) == FirstOf(search.mode, Feasible(search))

Baseline(search) == Candidate(search, BaseCounts(search.project))

----------------------------------------------------------------------------
(* Applying a candidate: what may be written, person by person.            *)

MapperPair(p) ==
  <<p.source, p.basis>> \in
    {<<"fixed", "demandFollowing">>, <<"availabilityWindow", "availabilityWindow">>,
     <<"fixed", "wholeProjectAllocation">>, <<"legacy", "capacityProfile">>, <<"legacy", "demandFollowing">>}

ValidWindow(p) == p.percent # None /\ (p.from # None /\ p.to # None => p.from <= p.to)

FromMapper(p) == p.provenance = "mapper" /\ MapperPair(p) /\ ValidWindow(p)

FromOptimiser(p) ==
  p.provenance = "optimiser" /\ p.source = "derived" /\ p.basis = "availabilityWindow" /\ ValidWindow(p)

(* classifyOptimiserRampUpOwner                                            *)
Writable(q) ==
  /\ Cardinality(q.profiles) = 1
  /\ LET p == TheProfile(q.profiles)
     IN  /\ p.kind = "NAMED_PERSON" /\ p.source # "squadPlanner" /\ p.basis # "capacityProfile"
         /\ p.segments = <<>>
         /\ FromMapper(p) \/ FromOptimiser(p)

StartsThen(q, start) == Cardinality(q.profiles) = 1 /\ TheProfile(q.profiles).from = start

(* effectiveScalarPercent: a person that follows demand ramps up in full.  *)
RampPercent(p) ==
  IF p.provenance = "mapper" /\ p.source = "fixed" /\ p.basis = "demandFollowing" THEN 100 ELSE Or(p.percent, 100)

(* Mutant: the end of the window is forgotten.                             *)
RampedOpen(p, start) ==
  [p EXCEPT !.basis = "availabilityWindow", !.source = "derived", !.provenance = "optimiser",
            !.percent = RampPercent(p), !.from = start, !.to = None]
Ramped(p, start) ==
  [p EXCEPT !.basis = "availabilityWindow", !.source = "derived", !.provenance = "optimiser",
            !.percent = RampPercent(p), !.from = start]

ToRamp(role, start, scope) ==
  {i \in DOMAIN role.people : start > 0 /\ role.id \in scope /\ ~StartsThen(role.people[i], start)}

PlannerManaged(role) ==
  \/ role.plan # <<>>
  \/ \E p \in role.profiles : p.source = "squadPlanner" /\ p.basis = "capacityProfile"
  \/ \E i \in DOMAIN role.people : \E p \in role.people[i].profiles :
       p.kind = "PLANNED_RESOURCE" \/ p.source = "squadPlanner"

(* buildOptimiserMutationIntent, without a conflict.                       *)
RoleApplicable(role, candidate, scope) ==
  LET start == candidate.starts[role.id]
      ramped == ToRamp(role, start, scope)
  IN  /\ \A i \in ramped : /\ Writable(role.people[i])
                           /\ LET p == TheProfile(role.people[i].profiles) IN p.to # None => start <= p.to
      /\ PlannerManaged(role) => candidate.counts[role.id] = role.count /\ ramped = {}

Applicable(project, candidate, scope) ==
  \A r \in DOMAIN project.roles : RoleApplicable(project.roles[r], candidate, scope)

RoleApplied(role, candidate, scope) ==
  LET start == candidate.starts[role.id]
  IN  [role EXCEPT !.count = candidate.counts[role.id],
                   !.people = [i \in DOMAIN role.people |->
                     IF i \in ToRamp(role, start, scope)
                     THEN [profiles |-> {Ramped(TheProfile(role.people[i].profiles), start)}]
                     ELSE role.people[i]]]

(* The transaction of an application: the intents, and the schedule of the *)
(* state they lead to, which empties the cache of the demand.              *)
Applied(project, candidate, scope) ==
  LET written == [project EXCEPT !.roles = [r \in DOMAIN project.roles |->
                                              RoleApplied(project.roles[r], candidate, scope)]]
  IN  Scheduled(written, BaseCounts(written))
=============================================================================
