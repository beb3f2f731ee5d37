------------------------------ MODULE JointPlan ------------------------------
(***************************************************************************)
(* computeJointPlan of lib/capacity-planner.ts, one run of the weekly      *)
(* planner in each step: the first runs, which give a role more people     *)
(* when they fail; growth until the target is met; the reduction of the    *)
(* envelope, a quantum at a time; and the replay of what is returned.      *)
(***************************************************************************)
EXTENDS CapacityEnvelope

RunFrom(p, begun) ==
  FoldLeft(LAMBDA s, k : IF Over(p, s) THEN s ELSE Step(p, s), begun, [k \in 1 .. begun.limit |-> k])

RunPlanner(p) == RunFrom(p, Begin(p))

StaffedWith(q, roles) == [q.staffing EXCEPT !.roles = roles]
Finished(q, s) == ~s.refused /\ Unfinished(q.staffing, s) = {}
OnTarget(q, s) == Delivered(s) <= q.staffing.target

----------------------------------------------------------------------------
(* What POST /generate makes of the roles before it plans: an explicit cap *)
(* counts as staff, and without one there is twice what the target takes.  *)
PlanningCount(p, r) ==
  LET pinned == SumOver(Features(p), LAMBDA i : SumOver({pin \in Pins(p, i) : pin.role = r}, LAMBDA pin : pin.days))
      least == CeilDiv(WorkOfRole(p, r) + pinned, p.target * 5 * Day)
  IN  Max({p.roles[r].count, IF r \in DOMAIN p.caps THEN p.caps[r] ELSE 200 * least})

Boosted(p, r) ==
  LET role == p.roles[r]
      count == PlanningCount(p, r)
      segments == IF role.segments = <<>> THEN None ELSE role.segments
  IN  [role EXCEPT !.count = count,
                   !.segments = IF segments = None \/ count = role.count THEN segments
                                ELSE [i \in DOMAIN segments |-> [segments[i] EXCEPT !.percent = count]]]

Generated(q) == [q EXCEPT !.staffing.roles = <<>> \o [r \in DOMAIN @ |-> Boosted(q.staffing, r)]]

----------------------------------------------------------------------------
(* Why a target is missed, as far as the search heeds it.                  *)

(* analyzeTargetMiss: work outside the windows of the role.                *)
MissedOutside(p, s) ==
  LET demand == Demand(p, s)
  IN  {r \in Roles(p) : /\ Delivered(s) > p.target
                        /\ p.roles[r].segments # None /\ p.roles[r].segments # <<>>
                        /\ \E w \in DOMAIN demand[r] : demand[r][w] > 0 /\ ~InRoleWindow(p.roles[r], w)}

(* collectInfeasibilityDiagnostics of the first feature that is not done.  *)
Infeasible(p, s) ==
  LET i == Min(Unfinished(p, s))
      days == p.features[i].days
      able(r) == {w \in 0 .. s.limit - 1 : CapacityOf(p, r, w) > 0}
      unable(r) == {w \in 0 .. s.limit - 1 : w \notin able(r) /\ (w = 0 \/ \E v \in able(r) : v < w)}
  IN  IF s.refused \/ p.features[i].lock # None THEN [windows |-> {}, capped |-> {}]
      ELSE LET none == {r \in DOMAIN days : days[r] > 0 /\ able(r) = {}}
               capped == {r \in none : r \in DOMAIN p.caps /\ p.caps[r] < p.roles[r].count}
           IN  [windows |-> (none \ capped) \cup {r \in DOMAIN days : days[r] > 0 /\ able(r) # {} /\ unable(r) # {}},
                capped |-> capped]

----------------------------------------------------------------------------
(* Growth.                                                                 *)

(* usefulCapacityFor                                                       *)
ActiveFor(p, r) ==
  {i \in Features(p) : r \in DOMAIN p.features[i].days \/ \E pin \in Pins(p, i) : pin.role = r}

Useful(q, r) ==
  Min({CapOf(q, r), 100 * q.staffing.parallelism * Cardinality(ActiveFor(q.staffing, r))})

Score(role, days, w) ==
  LET capacity == Point * PercentIn(role, w)
  IN  IF capacity = 0 THEN 100000 * days[w] ELSE (10000 * days[w]) \div capacity

(* chooseGrowthWeeks; an empty demand for a plan that failed.              *)
GrowthWeeks(role, days) ==
  LET busy == {w \in DOMAIN days : days[w] > 0}
      starts == IF role.segments # None /\ role.segments # <<>> THEN {s.from : s \in Range(role.segments)}
                ELSE IF role.people # <<>> THEN {Or(x.display.from, 0) : x \in Range(role.people)}
                ELSE {0}
      tighter(v, w) == Score(role, days, v) > Score(role, days, w)
  IN  IF busy = {} THEN InOrder(starts, <)
      ELSE InOrder(busy, LAMBDA v, w : tighter(v, w) \/ (~tighter(w, v) /\ v < w))

CanGrowAt(q, role, r, w) ==
  /\ InRoleWindow(role, w)
  /\ ActiveFor(q.staffing, r) # {} => PercentIn(role, w) < Useful(q, r)
  /\ PercentIn(role, w) < CapOf(q, r)

(* augmentResourceType: the unnamed people, or the segment of that week.   *)
Augmented(q, role, r, w) ==
  LET room == Max({0, CapOf(q, r) - NamedPercent(role, w)})
      top == IF r \in DOMAIN q.staffing.caps THEN room ELSE Forever * 100
      i == SelectInSeq(role.segments, LAMBDA s : Covers(s, w) /\ s.percent < top)
  IN  IF role.segments = None \/ role.segments = <<>>
      THEN [role EXCEPT !.count = Max({@, Min({@ + Quarter, 100 * Len(role.people) + top})})]
      ELSE IF i = 0 THEN role
      ELSE [role EXCEPT !.segments[i].percent = Min({top, @ + Quarter})]

Grown(q, role, r, w) == Relocked(q, Augmented(q, role, r, w), r)

(* As far as is useful, for the recovery of a plan that failed.            *)
GrownUsefully(q, role, r, w) ==
  FoldLeft(LAMBDA x, k : LET next == Grown(q, x, r, w)
                         IN  IF k > 1 /\ PercentIn(x, w) >= Useful(q, r) THEN x
                             ELSE IF PercentIn(next, w) > PercentIn(x, w) THEN next ELSE x,
           role, [k \in 1 .. CeilDiv(Max({Quarter, Useful(q, r)}), Quarter) |-> k])

(* The first place to grow, <<role, week>>, among the roles in an order.   *)
Places(q, j, roles, demand) ==
  LET weeks(r) == SelectSeq(GrowthWeeks(j.roles[r], demand[r]),
                            LAMBDA w : /\ CanGrowAt(q, j.roles[r], r, w)
                                       /\ <<r, w, PercentIn(j.roles[r], w)>> \notin j.probes)
      places(r) == LET ws == weeks(r) IN IF ws = <<>> THEN <<>> ELSE <<<<r, ws[1]>>>>
  IN  FoldLeft(LAMBDA acc, r : acc \o places(r), <<>>, roles)

Bottleneck(j, demand) ==
  LET total(r) == SumOver(DOMAIN demand[r], LAMBDA w : demand[r][w])
      score(r) == Max({Score(j.roles[r], demand[r], w) : w \in {v \in DOMAIN demand[r] : demand[r][v] > 0}})
      key(r) == <<score(r), total(r), - r>>
      above(x, y) == \E n \in 1 .. 3 : x[n] > y[n] /\ \A m \in 1 .. n - 1 : x[m] = y[m]
  IN  CHOOSE r \in Asked(demand) : \A o \in Asked(demand) \ {r} : above(key(r), key(o))

MaxIterations(q) ==
  LET slots == SumOver(Roles(q.staffing), LAMBDA r :
                 CeilDiv(IF r \in DOMAIN q.staffing.caps THEN CapOf(q, r) ELSE 10000, Quarter))
  IN  Min({200, Max({32, slots + 10})})

----------------------------------------------------------------------------
(* The search, a state j of which has the roles to try the planner with    *)
(* next, or None: it proposes something to try, or goes on without, and    *)
(* then judges the plan s that the planner makes with it.                  *)

Failed == [periods |-> <<>>, ends |-> None, bars |-> <<>>]

(* Protected people above an explicit cap cannot be represented.           *)
CapConflict(q) ==
  \E r \in DOMAIN q.staffing.caps :
    /\ \E i \in Features(q.staffing) : r \in DOMAIN q.staffing.features[i].days
    /\ LET role == q.staffing.roles[r]
       IN  \E w \in EditEdges([role EXCEPT !.segments = None], {}) : NamedPercent(role, w) > CapOf(q, r)

Opened(q, roles) ==
  [q |-> q, roles |-> roles, stage |-> IF CapConflict(q) THEN "end" ELSE "first", try |-> None,
   best |-> Failed, probes |-> {}, blocked |-> {}, demand |-> <<>>, last |-> None, tries |-> 0,
   slot |-> 1, found |-> FALSE, atOdds |-> FALSE, onTarget |-> FALSE]

SeededRoles(q) == <<>> \o [r \in Roles(q.staffing) |-> Seeded(q, q.staffing.roles[r], r)]
Begun(q, roles) == Opened([q EXCEPT !.staffing.roles = roles], roles)
BeginJoint(q) == [Begun(q, SeededRoles(q)) EXCEPT !.atOdds = AtOdds(q)]

Improved(j, p, s) ==
  LET better == j.last = None \/ Delivered(s) < j.last
      demand == Demand(p, s)
  IN  [j EXCEPT !.demand = demand, !.last = IF better THEN Delivered(s) ELSE @,
                !.best = IF better THEN [periods |-> SplitAtLocks(j.q, Periods(j.q, j.roles, demand, Delivered(s))),
                                         ends |-> Delivered(s), bars |-> <<>>]
                         ELSE @]

(* Phase 1: the first plan, or a recovery.                                 *)
RecoveredBy(j, r, w, grown) ==
  [j EXCEPT !.probes = @ \cup {<<r, w, PercentIn(j.roles[r], w)>>},
            !.tries = IF grown = j.roles[r] THEN @ ELSE @ + 1, !.roles[r] = grown]

RecoveredAt(j, places) ==
  IF places = <<>> \/ j.tries >= MaxIterations(j.q) THEN [j EXCEPT !.stage = "end"]
  ELSE RecoveredBy(j, places[1][1], places[1][2],
                   GrownUsefully(j.q, j.roles[places[1][1]], places[1][1], places[1][2]))

Recovered(j, p, first) ==
  LET others == SelectSeq(<<>> \o [r \in Roles(p) |-> r], LAMBDA r : r \notin first /\ ActiveFor(p, r) # {})
  IN  RecoveredAt(j, Places(j.q, j, Listed(first) \o others, [r \in Roles(p) |-> <<>>]))

JudgeFirst(j, p, s) ==
  IF Finished(j.q, s)
  THEN [Improved(j, p, s) EXCEPT !.probes = {}, !.tries = 0, !.blocked = MissedOutside(p, s),
                                 !.stage = IF OnTarget(j.q, s) THEN "reduce" ELSE "grow"]
  ELSE Recovered(j, p, LET why == Infeasible(p, s) IN why.windows \cup why.capped)

(* Phase 2: one more quantum where it is tightest.                         *)
GrowBy(j, r, w, grown) ==
  LET probed == [j EXCEPT !.probes = @ \cup {<<r, w, PercentIn(j.roles[r], w)>>}, !.tries = @ + 1]
      roles == [j.roles EXCEPT ![r] = grown]
  IN  IF PercentIn(grown, w) <= PercentIn(j.roles[r], w) THEN probed
      ELSE [probed EXCEPT !.roles = roles, !.try = roles]

GrowAt(j, places) ==
  IF places = <<>> THEN [j EXCEPT !.stage = "replay"]
  ELSE GrowBy(j, places[1][1], places[1][2], Grown(j.q, j.roles[places[1][1]], places[1][1], places[1][2]))

GrowFrom(j, first) ==
  LET order == <<first>> \o SelectSeq(<<>> \o [r \in DOMAIN j.roles |-> r], LAMBDA r : r # first)
  IN  GrowAt(j, Places(j.q, j, SelectSeq(order, LAMBDA r : r \notin j.blocked), j.demand))

Grow(j) ==
  IF j.last <= j.q.staffing.target THEN [j EXCEPT !.stage = "reduce"]
  ELSE IF j.tries >= MaxIterations(j.q) \/ Asked(j.demand) = {} THEN [j EXCEPT !.stage = "replay"]
  ELSE GrowFrom(j, Bottleneck(j, j.demand))

JudgeGrown(j, p, s) ==
  IF Finished(j.q, s) THEN Improved(j, p, s) ELSE [j EXCEPT !.blocked = @ \cup Infeasible(p, s).windows]

(* Phase 3: a quantum less of a role in a period, if the replay still      *)
(* meets the target; slots are tried in turn, until none of a pass works.  *)
Slots(periods) ==
  FlattenSeq([i \in DOMAIN periods |-> [k \in 1 .. Cardinality(DOMAIN periods[i].heads) |->
                <<i, InOrder(DOMAIN periods[i].heads, <)[k]>>]])

LeastHeads(q, period, r) ==
  Max({QuantizeUp(Floor(q, r), 1)}
        \cup {NamedPercent(q.staffing.roles[r], w) : w \in period.from .. period.until - 1})

Lowered(periods, i, r) == [periods EXCEPT ![i].heads[r] = @ - Quarter]

MayLower(q, periods, i, r) ==
  /\ \A e \in Locks(q) : e.role # r \/ e.until <= periods[i].from \/ e.from >= periods[i].until
  /\ periods[i].heads[r] - Quarter >= LeastHeads(q, periods[i], r)

LoweredAt(j) == LET slot == Slots(j.best.periods)[j.slot] IN Lowered(j.best.periods, slot[1], slot[2])

ReduceAt(j, slots) ==
  IF j.slot > Len(slots) THEN [j EXCEPT !.slot = 1, !.found = FALSE, !.stage = IF j.found THEN "reduce" ELSE "replay"]
  ELSE IF MayLower(j.q, j.best.periods, slots[j.slot][1], slots[j.slot][2])
  THEN [j EXCEPT !.try = Replayed(j.q.staffing.roles, LoweredAt(j))]
  ELSE [j EXCEPT !.slot = @ + 1]

JudgeReduced(j, s) ==
  IF Finished(j.q, s) /\ OnTarget(j.q, s)
  THEN [j EXCEPT !.slot = @ + 1, !.found = TRUE, !.best.periods = LoweredAt(j)]
  ELSE [j EXCEPT !.slot = @ + 1]

(* buildSchedulePreview: the bars of the features, in ticks.               *)
WorkedWeeks(p, s, i) ==
  {g.week : g \in {h \in s.given : h.feature = i}}
    \cup UNION {pin.from \div TicksPerWeek .. CeilDiv(pin.to, TicksPerWeek) - 1 : pin \in Pins(p, i)}

Bar(from, length) == [from |-> from, length |-> length]

Preview(p, s) ==
  LET weeks(i) == WorkedWeeks(p, s, i)
      span(i) == Bar(TicksPerWeek * Min(weeks(i)), TicksPerWeek * (Max(weeks(i)) - Min(weeks(i)) + 1))
      lock(i) == p.features[i].lock
  IN  <<>> \o [i \in Features(p) |->
                 IF lock(i) # None THEN Bar(lock(i)[1], lock(i)[2] - lock(i)[1])
                 ELSE IF weeks(i) = {} THEN Bar(Starts(p, s)[i], TicksPerWeek)
                 ELSE span(i)]

(* Phase 5: what is returned is what the planner makes of it.              *)
FinalPeriods(j) == SplitAtLocks(j.q, j.best.periods)

RelockedAll(q, roles) == [r \in DOMAIN roles |-> Relocked(q, roles[r], r)]

JudgeReplay(j, s) ==
  LET ends == IF Finished(j.q, s) /\ ~j.atOdds THEN Delivered(s) ELSE None
  IN  [j EXCEPT !.stage = "end",
                !.best = [periods |-> FinalPeriods(j), ends |-> ends, bars |-> Preview(j.q.staffing, s)],
                !.onTarget = ends # None /\ ends <= j.q.staffing.target]

Propose(j) ==
  CASE j.stage = "first" -> [j EXCEPT !.try = j.roles]
    [] j.stage = "grow" -> Grow(j)
    [] j.stage = "reduce" -> ReduceAt(j, Slots(j.best.periods))
    [] j.stage = "replay" ->
         [j EXCEPT !.try = RelockedAll(j.q, Replayed(j.q.staffing.roles, FinalPeriods(j)))]

Judge(j, p, s) ==
  CASE j.stage = "first" -> JudgeFirst(j, p, s)
    [] j.stage = "grow" -> JudgeGrown(j, p, s)
    [] j.stage = "reduce" -> JudgeReduced(j, s)
    [] j.stage = "replay" -> JudgeReplay(j, s)

Tried(j, p) == Judge([j EXCEPT !.try = None], p, RunPlanner(p))

StepJoint(j) == IF j.try = None THEN Propose(j) ELSE Tried(j, StaffedWith(j.q, j.try))
=============================================================================
