--------------------------- MODULE CapacityPlans ---------------------------
(***************************************************************************)
(* What the periods of a capacity plan mean for one role                   *)
(* (capacityPlanMaterialisation.ts): people with windows of weeks, the     *)
(* aggregate segments of the role, and the slot windows of older payloads. *)
(*                                                                         *)
(* Headcounts are percentages of one person.  A period is                  *)
(* [from, until, heads] with until exclusive; a plan is a sequence of them *)
(* in the order of periodIndex.  Windows include both their ends.          *)
(***************************************************************************)
EXTENDS Integers, SequencesExt

Quarter == 25

Window(a, b, p) == [from |-> a, to |-> b, percent |-> p]

Covers(window, w) == window.from <= w /\ w <= window.to

Clamp(n, top) == Max({0, Min({n, top})})

MaxOf(f(_), plan) == Max({0} \cup {f(plan[i]) : i \in DOMAIN plan})

MaxHeads(plan) == MaxOf(LAMBDA p : p.heads, plan)

CeilDiv(a, b) == (a + b - 1) \div b

(* The window before goes on through p.                                    *)
Joins(last, p, percent) == last.percent = percent /\ p.from <= last.to + 1

(* One period: the open window goes on, is closed, or another one opens.   *)
Extend(acc, p, percent) ==
  LET ws == acc.windows
  IN  IF percent = 0 \/ p.until <= p.from
      THEN [acc EXCEPT !.open = FALSE]
      ELSE IF acc.open /\ Joins(ws[Len(ws)], p, percent)
      THEN [acc EXCEPT !.windows[Len(ws)].to = p.until - 1]
      ELSE [windows |-> Append(ws, Window(p.from, p.until - 1, percent)),
            open |-> TRUE]

Windows(plan, percent) ==
  FoldLeftDomain(LAMBDA acc, i : Extend(acc, plan[i], percent[i]),
                 [windows |-> <<>>, open |-> FALSE], plan).windows

(* materializeResourceTrajectories: person t, counted from 0, has what is  *)
(* left of the headcount beyond t whole people.                            *)
Trajectory(plan, t) ==
  Windows(plan, [i \in DOMAIN plan |-> Clamp(plan[i].heads - 100 * t, 100)])

Trajectories(plan) ==
  SelectSeq([t \in 1 .. CeilDiv(MaxHeads(plan), 100) |-> Trajectory(plan, t - 1)],
            LAMBDA ws : ws # <<>>)

(* isQuarterAligned                                                        *)
QuarterAligned(plan) == \A i \in DOMAIN plan : plan[i].heads % Quarter = 0

(* The windows of each quarter of a person.                                *)
Quanta(plan) ==
  FlattenSeq([u \in 1 .. MaxHeads(plan) \div Quarter |->
    Windows(plan, [i \in DOMAIN plan |-> IF plan[i].heads >= Quarter * u THEN Quarter ELSE 0])])

(* Quarters with the same weeks make up people of up to 100 percent.       *)
Stacked(quanta) ==
  LET same(q) == {i \in DOMAIN quanta : quanta[i] = q}
      total(q) == Quarter * Cardinality(same(q))
  IN  UNION {{[window |-> Window(q.from, q.to, Min({100, total(q) - 100 * k})), nth |-> k]
                : k \in 0 .. CeilDiv(total(q), 100) - 1}
             : q \in ToSet(quanta)}

(* deriveSlotWindows: a set, nth tells equal windows apart.                *)
SlotWindows(plan) ==
  IF QuarterAligned(plan)
  THEN Stacked(Quanta(plan))
  ELSE UNION {{[window |-> ws, nth |-> t] : ws \in ToSet(Trajectory(plan, t))}
              : t \in 0 .. CeilDiv(MaxHeads(plan), 100) - 1}

(* weeklyHeadcount: of overlapping periods the last one counts.            *)
PlannedWeeks(plan) == UNION {plan[i].from .. plan[i].until - 1 : i \in DOMAIN plan}

WeeklyHeadcount(plan) ==
  [w \in PlannedWeeks(plan) |->
     plan[Max({i \in DOMAIN plan : plan[i].from <= w /\ w < plan[i].until})].heads]

(* totalDays, in days of one percent of a person.                          *)
PlanDays(plan) ==
  FoldLeft(LAMBDA n, p : n + p.heads * Max({0, p.until - p.from}) * 5, 0, plan)

(* materializeRoleCapacitySegments: the runs of weeks with one headcount.  *)
RoleSegments(head) ==
  LET alike(a, b) == b \in DOMAIN head /\ head[a] = head[b]
      run(a, b) == \A w \in a .. b : alike(a, w)
  IN  {Window(s[1], s[2], head[s[1]]) :
         s \in {s \in (DOMAIN head) \X (DOMAIN head) :
                  /\ head[s[1]] > 0 /\ s[1] <= s[2] /\ run(s[1], s[2])
                  /\ ~ alike(s[1], s[1] - 1) /\ ~ alike(s[1], s[2] + 1)}}

(* The segments of the profile that is written for a role: an empty plan   *)
(* is one explicit week of nothing.                                        *)
RoleProfileSegments(head) ==
  LET ws == RoleSegments(head)
  IN  IF ws = {} THEN <<Window(0, 0, 0)>>
      ELSE SetToSortSeq(ws, LAMBDA s, t : s.from < t.from)

(* computeDefaultPercentForSegments, {} for null.                          *)
DefaultPercent(ws) ==
  IF ws # <<>> /\ \A i \in DOMAIN ws : ws[i].percent = ws[1].percent
  THEN {ws[1].percent} ELSE {}
=============================================================================
