----------------------------- MODULE SquadApply -----------------------------
(***************************************************************************)
(* What POST /squad-plan asks of a plan and a draft, and what POST         *)
(* /squad-plan/apply makes of a reviewed plan before its transaction: the  *)
(* checks, the replay of the planner with the reviewed headcounts, and the *)
(* share of them that the people of a role do not provide                  *)
(* (routes/squadPlan.ts).  How the apply is written is in PlanActivation.  *)
(***************************************************************************)
EXTENDS JointPlan

(* normalizeAppliedConfig, and the same check when a plan is generated.    *)
ConfigFits(q) == \A r \in DOMAIN q.staffing.caps : q.staffing.caps[r] >= Floor(q, r)

(* validateDraftShape, of the edits of the capacity.                       *)
EditsFit(edits) ==
  /\ \A e \in edits : 0 <= e.from /\ e.from < e.until /\ e.heads >= 0
  /\ \A e, f \in edits : e.role = f.role /\ e # f => e.until <= f.from \/ f.until <= e.from

(* capacityEditsFromAppliedPeriods: without a draft, the applied plan is   *)
(* where the next one starts.                                              *)
Reopened(periods) ==
  UNION {{[role |-> r, from |-> periods[i].from, until |-> periods[i].until,
           heads |-> periods[i].heads[r], locked |-> FALSE] : r \in DOMAIN periods[i].heads} : i \in DOMAIN periods}

PeriodsFit(periods) ==
  /\ periods # <<>>
  /\ \A i \in DOMAIN periods :
       /\ 0 <= periods[i].from /\ periods[i].from < periods[i].until
       /\ i > 1 => periods[i - 1].until <= periods[i].from
       /\ \A r \in DOMAIN periods[i].heads : periods[i].heads[r] >= 0

BarsFit(bars) == \A i \in DOMAIN bars : bars[i].from >= 0 /\ bars[i].length > 0

MatchesDraft(p, bars) ==
  \A i \in Features(p) : LET lock == p.features[i].lock
                         IN  lock # None => bars[i] = Bar(lock[1], lock[2] - lock[1])

Accepted(q, best) ==
  ConfigFits(q) /\ PeriodsFit(best.periods) /\ BarsFit(best.bars) /\ MatchesDraft(q.staffing, best.bars)

----------------------------------------------------------------------------
PlannedRoles(periods) == UNION {DOMAIN periods[i].heads : i \in DOMAIN periods}

(* The periods of one role, as CapacityPlans takes them.                   *)
PeriodsOf(periods, r) ==
  LET of == SelectSeq(periods, LAMBDA c : r \in DOMAIN c.heads)
  IN  <<>> \o [i \in DOMAIN of |-> [from |-> of[i].from, until |-> of[i].until, heads |-> of[i].heads[r]]]

(* The headcount of the slot windows of a plan, in the weeks they cover.   *)
Required(plan) ==
  LET slots == SlotWindows(plan)
  IN  [w \in UNION {s.window.from .. s.window.to : s \in slots} |->
         SumOver({s \in slots : Covers(s.window, w)}, LAMBDA s : s.window.percent)]

(* buildReplayPlannerResourceTypes                                         *)
ReplayRole(role, periods, r) ==
  LET plan == PeriodsOf(periods, r)
      required == Table(Required(plan))
      missing == [w \in DOMAIN required |-> Max({0, required[w] - NamedPercent(role, w)})]
  IN  IF plan = <<>> \/ required = <<>> THEN role
      ELSE [count |-> MaxHeads(plan), segments |-> <<>>,
            people |-> role.people \o Listed(Added(role, Table(missing), DOMAIN required))]

(* The apply plans without the largest headcounts: the periods keep them.  *)
ReplayStaffing(q, periods) ==
  LET p == q.staffing
  IN  [p EXCEPT !.roles = <<>> \o [r \in DOMAIN @ |-> ReplayRole(@[r], periods, r)], !.caps = <<>>]

(* Mutant: the people who stay come on top of the plan.                    *)
ShortfallOnTop(role, plan) == plan

(* reduceEnvelopeByProtectedCapacity                                       *)
Shortfall(role, plan) ==
  LET required == Table(Required(plan))
      add(acc, w) ==
        LET heads == Max({0, required[w] - NamedPercent(role, w)})
            n == Len(acc)
        IN  IF n > 0 /\ acc[n].until = w /\ acc[n].heads = heads THEN [acc EXCEPT ![n].until = w + 1]
            ELSE Append(acc, [from |-> w, until |-> w + 1, heads |-> heads])
  IN  FoldLeft(add, <<>>, InOrder(DOMAIN required, <))

(* What a role has afterwards: its own people, and those of the planner.   *)
StoredPercent(role, periods, r, w) ==
  LET people == Trajectories(Shortfall(role, PeriodsOf(periods, r)))
  IN  NamedPercent(role, w) + SumOver(DOMAIN people, LAMBDA i : PercentAt(people[i], w))
=============================================================================
