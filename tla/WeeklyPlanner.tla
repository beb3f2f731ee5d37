--------------------------- MODULE WeeklyPlanner ---------------------------
(***************************************************************************)
(* The week by week planner of lib/sa-planner.ts, one Step for each week.  *)
(*                                                                         *)
(* A plan is asked for with p = [roles, caps, parallelism, atOnce, target, *)
(* epics, features].  A role is a resolved role of CapacityViews with a    *)
(* count, caps gives some roles (by index) a largest headcount (both in    *)
(* percent of a person; without segments, None, a role has its unnamed     *)
(* people whole), an epic is                                               *)
(* [after, sequential] and a feature [epic, after, days, lock, pins]: the  *)
(* features it waits for, 0 for one that is switched off; the work of each *)
(* role in its stories that are not pinned; its manual window in ticks, or *)
(* None; and the work [role, from, to, days] of its pinned stories.        *)
(*                                                                         *)
(* A feature is done at a moment, counted in half ticks, so that the end   *)
(* of a lock, which the code lowers by an epsilon, comes just before the   *)
(* tick.  Shares of work are rounded up to a 120th of a day.               *)
(***************************************************************************)
EXTENDS CapacityViews

CONSTANTS LeastWeeks   \* 52: the planner gives up no earlier

ASSUME PlannerAssumption == LeastWeeks \in Nat /\ None \notin Int

Moment(week) == 2 * TicksPerWeek * week

Features(p) == DOMAIN p.features
Roles(p) == DOMAIN p.roles

(* What is asked: people with segments, pinned stories that last, and      *)
(* references to what there is.                                            *)
IsStaff(role) ==
  /\ role.count \in Nat /\ InSeq(role.people)
  /\ role.segments # None => HasSegments(role)
  /\ \A k \in DOMAIN role.people :
       LET person == role.people[k]
       IN  HasSegments(person) /\ {person.display.from, person.display.to} \subseteq Nat \cup {None}

IsWork(p, f) ==
  /\ f.epic \in DOMAIN p.epics /\ f.after \subseteq {0} \cup Features(p)
  /\ DOMAIN f.days \subseteq Roles(p) /\ \A r \in DOMAIN f.days : f.days[r] \in Nat
  /\ f.lock = None \/ f.lock \in Nat \X Nat
  /\ IsFiniteSet(f.pins)
  /\ \A pin \in f.pins :
       pin.role \in Roles(p) /\ {pin.from, pin.to, pin.days} \subseteq Nat /\ pin.from < pin.to

IsStaffing(p) ==
  /\ InSeq(p.roles) /\ InSeq(p.features) /\ InSeq(p.epics)
  /\ p.parallelism \in Nat /\ p.target \in Nat /\ \A r \in DOMAIN p.caps : p.caps[r] \in Nat
  /\ \A r \in Roles(p) : IsStaff(p.roles[r])
  /\ \A i \in Features(p) : IsWork(p, p.features[i])

Earlier(p, i) == {j \in 1 .. i - 1 : p.features[j].epic = p.features[i].epic}

Predecessors(p, i) ==
  LET f == p.features[i]
      epic == p.epics[f.epic]
  IN  f.after \cup {j \in Features(p) : p.features[j].epic \in epic.after}
        \cup (IF epic.sequential /\ Earlier(p, i) # {} THEN {Max(Earlier(p, i))} ELSE {})

Pins(p, i) == p.features[i].pins
PinnedFrom(p, i) == Min({pin.from : pin \in Pins(p, i)})
PinnedTo(p, i) == Max({pin.to : pin \in Pins(p, i)})
HasDemand(p, i) == DOMAIN p.features[i].days # {}
LockEnd(p, i) ==
  LET lock == p.features[i].lock
  IN  Max({0} \cup {pin.to : pin \in Pins(p, i)} \cup (IF lock = None THEN {} ELSE {lock[2]}))

OverlapOf(from, to, w) ==
  Max({0, Min({(w + 1) * TicksPerWeek, to}) - Max({w * TicksPerWeek, from})})

PinDays(pin, w) == (pin.days * OverlapOf(pin.from, pin.to, w)) \div (pin.to - pin.from)

PinnedDays(p, r, w) ==
  SumOver(Features(p), LAMBDA i : SumOver({pin \in Pins(p, i) : pin.role = r}, LAMBDA pin : PinDays(pin, w)))

NamedPercent(role, w) == SumOver(DOMAIN role.people, LAMBDA i : PercentAt(role.people[i].segments, w))

(* getWeeklyCapacity                                                       *)
PercentIn(role, w) ==
  NamedPercent(role, w)
    + (IF role.segments = None THEN Max({0, role.count - 100 * Len(role.people)}) ELSE PercentAt(role.segments, w))

(* A largest headcount scales what there is, when it is below the count.   *)
Capped(p, r, capacity) ==
  IF r \in DOMAIN p.caps /\ p.caps[r] < p.roles[r].count THEN (capacity * p.caps[r]) \div p.roles[r].count
  ELSE capacity

CapacityOf(p, r, w) == Capped(p, r, Point * PercentIn(p.roles[r], w))

FeatureCap(p, r) ==
  Point * (IF r \in DOMAIN p.caps THEN Min({100 * p.parallelism, p.caps[r]}) ELSE 100 * p.parallelism)

----------------------------------------------------------------------------
(* MAX_WEEKS, from durations in 120ths of a week.                          *)
Fine == 120

(* The role that would take a feature longest, <<its work, its cap>>, and  *)
(* no less than a week.                                                    *)
Pace(p, days) ==
  LET slow == {<<days[r], FeatureCap(p, r)>> : r \in {r \in DOMAIN days : days[r] > 0 /\ FeatureCap(p, r) > 0}}
  IN  CHOOSE x \in slow \cup {<<1, 1>>} : \A y \in slow \cup {<<1, 1>>} : x[1] * y[2] >= y[1] * x[2]

Alone(p, i) == LET pace == Pace(p, p.features[i].days) IN CeilDiv(Fine * pace[1], pace[2])

Demanding(p) == {i \in Features(p) : HasDemand(p, i)}
Serial(p) == SumOver(Demanding(p), LAMBDA i : Alone(p, i))
Longest(p) == Max({0} \cup {Alone(p, i) : i \in Demanding(p)})

WorkOfRole(p, r) ==
  SumOver({i \in Features(p) : r \in DOMAIN p.features[i].days}, LAMBDA i : p.features[i].days[r])

People(p, r) == IF r \in DOMAIN p.caps THEN Min({p.roles[r].count, p.caps[r]}) ELSE p.roles[r].count

DemandWeeks(p, r) == CeilDiv(Fine * WorkOfRole(p, r), Point * People(p, r))

ProbeWeeks(p, r) ==
  LET ends(q) == {Or(q.display.from, 0), Or(q.display.to, 0)}
      latest == Max({0} \cup UNION {ends(p.roles[r].people[k]) : k \in DOMAIN p.roles[r].people})
      longest == Max({DemandWeeks(p, r), Longest(p), Serial(p)})
  IN  Max({LeastWeeks, 3 * p.target, CeilDiv(4 * longest, Fine) + Len(p.features) + 12, latest + 2 * p.target + 12})

(* The first week with anybody of the role.                                *)
FirstAble(p, r, limit) == Min({limit} \cup {w \in 0 .. limit : CapacityOf(p, r, w) > 0})
Delay(p, r) == FirstAble(p, r, ProbeWeeks(p, r))

Needed(p) == {r \in Roles(p) : WorkOfRole(p, r) > 0 /\ People(p, r) > 0}

(* Mutant: nobody waits for the first people of a role.                    *)
AfterNoDelays(p, delay) ==
  Max({Serial(p), Longest(p)} \cup {DemandWeeks(p, r) : r \in DOMAIN delay})

AfterDelays(p, delay) ==
  Max({Max({Serial(p), Longest(p)}) + Fine * Max({0} \cup Range(delay))}
        \cup {DemandWeeks(p, r) + Fine * delay[r] : r \in DOMAIN delay})

Aggregate(p) == AfterDelays(p, [r \in Needed(p) |-> Delay(p, r)])

LatestPin(p) == Max({0} \cup {LockEnd(p, i) : i \in Features(p)})

MaxWeeks(p) ==
  Max({LeastWeeks, 3 * p.target, CeilDiv(4 * Aggregate(p), Fine) + Len(p.features) + 12,
       CeilDiv(LatestPin(p), TicksPerWeek) + Len(p.features) + 12})

----------------------------------------------------------------------------
(* What is checked before the first week: pinned work fits the capacity of *)
(* its weeks, and the manual window of its feature.                        *)
PinsFit(p, limit) ==
  /\ \A r \in Roles(p), w \in 0 .. limit - 1 : PinnedDays(p, r, w) <= CapacityOf(p, r, w)
  /\ \A i \in Features(p) : p.features[i].lock # None =>
       LET lock == p.features[i].lock
       IN  /\ HasDemand(p, i) => lock[1] < lock[2]
           /\ \A pin \in Pins(p, i) : lock[1] <= pin.from /\ pin.to <= lock[2]

Within(p, limit) ==
  [week |-> 0, limit |-> limit, refused |-> ~PinsFit(p, limit),
   left |-> [i \in Features(p) |-> p.features[i].days],
   started |-> [i \in Features(p) |-> None], done |-> [i \in Features(p) |-> None], given |-> {},
   last |-> Max({-1} \cup {CeilDiv(pin.to, TicksPerWeek) - 1 : pin \in UNION {Pins(p, i) : i \in Features(p)}})]

Begin(p) == Within(p, MaxWeeks(p))

----------------------------------------------------------------------------
(* A week.                                                                 *)

InWindow(p, s, i) ==
  LET lock == p.features[i].lock
  IN  lock # None =>
        /\ OverlapOf(lock[1], lock[2], s.week) > 0
        /\ s.started[i] = None => s.week <= lock[1] \div TicksPerWeek

(* Mutant: a feature starts once its predecessors have started.            *)
ReadyEarly(p, s, i) ==
  /\ s.done[i] = None
  /\ InWindow(p, s, i)
  /\ \A j \in Predecessors(p, i) : j # 0 /\ s.started[j] # None

(* isFeatureReady                                                          *)
Ready(p, s, i) ==
  /\ s.done[i] = None
  /\ InWindow(p, s, i)
  /\ \A j \in Predecessors(p, i) : j # 0 /\ s.done[j] # None /\ s.done[j] < Moment(s.week)

EpicStarted(p, s, e) == \E i \in Features(p) : p.features[i].epic = e /\ s.started[i] # None
EpicActive(p, s, e) ==
  EpicStarted(p, s, e) /\ \E i \in Features(p) : p.features[i].epic = e /\ s.done[i] = None

(* canStartFeature                                                         *)
CanStart(p, s, i) ==
  \/ p.atOnce = None
  \/ EpicStarted(p, s, p.features[i].epic)
  \/ Cardinality({e \in DOMAIN p.epics : EpicActive(p, s, e)}) < p.atOnce

(* assertPinnedStoryDependencies                                           *)
PinsWait(p, s, i) ==
  Pins(p, i) # {} =>
    \A j \in Predecessors(p, i) : j # 0 /\ s.done[j] # None /\ s.done[j] < 2 * PinnedFrom(p, i) - 1

(* compareFeatures                                                         *)
Before(p, s, i, j) ==
  LET key(k) == <<p.features[k].epic, IF s.started[k] # None THEN 0 ELSE 1, k>>
      x == key(i)
      y == key(j)
  IN  \E n \in 1 .. 3 : x[n] < y[n] /\ \A m \in 1 .. n - 1 : x[m] = y[m]

LockStart(p, i, default) == IF p.features[i].lock # None THEN p.features[i].lock[1] ELSE default

(* Features without work that moves start and end at once.                 *)
StartEmpty(p, s, ready) ==
  LET empty == {i \in ready : ~HasDemand(p, i)}
      from(i) == LockStart(p, i, IF Pins(p, i) # {} THEN PinnedFrom(p, i) ELSE TicksPerWeek * s.week)
      locked(i) == p.features[i].lock # None \/ Pins(p, i) # {}
      to(i) == IF p.features[i].lock # None THEN p.features[i].lock[2] ELSE PinnedTo(p, i)
  IN  [s EXCEPT !.refused = \E i \in empty : ~PinsWait(p, s, i),
                !.started = [i \in Features(p) |-> IF i \in empty THEN from(i) ELSE @[i]],
                !.done = [i \in Features(p) |->
                            IF i \notin empty THEN @[i]
                            ELSE IF locked(i) THEN 2 * to(i) - 1 ELSE 2 * from(i)],
                !.last = Max({@} \cup {IF locked(i) THEN CeilDiv(to(i), TicksPerWeek) - 1 ELSE s.week - 1 : i \in empty})]

(* The weeks the work of a feature is paced over, <<weeks, of>>.           *)
NoLonger(pace, weeks) == IF pace[1] <= weeks * pace[2] THEN pace ELSE <<weeks, 1>>

PacedOver(p, s, i) ==
  LET lock == p.features[i].lock
  IN  IF lock # None THEN <<Max({TicksPerWeek, lock[2] - TicksPerWeek * s.week}), TicksPerWeek>>
      ELSE IF s.week >= p.target THEN <<1, 1>>
      ELSE NoLonger(Pace(p, s.left[i]), p.target - s.week)

(* What a feature may get of a role, within its cap and its window.        *)
Room(p, s, i, r) == Min({s.left[i][r], FeatureCap(p, r)})

WindowShare(p, s, i, r) ==
  LET lock == p.features[i].lock
      overlap == OverlapOf(lock[1], lock[2], s.week)
  IN  IF lock = None THEN {}
      ELSE {(CapacityOf(p, r, s.week) * o) \div TicksPerWeek : o \in {overlap} \ {TicksPerWeek}}

PerWeek(days, over) == CeilDiv(days * over[2], over[1])

Wanted(p, s, i, r) ==
  Min({Room(p, s, i, r), PerWeek(s.left[i][r], PacedOver(p, s, i))} \cup WindowShare(p, s, i, r))

FreeDays(p, r, w) == CapacityOf(p, r, w) - PinnedDays(p, r, w)

Candidates(p, s, ready, r) == {i \in ready : r \in DOMAIN s.left[i] /\ s.left[i][r] > 0}

Foremost(p, s, S) == CHOOSE i \in S : \A j \in S \ {i} : Before(p, s, i, j)

(* First each its pace, in order; a candidate alone may take the rest.     *)
InTurn(p, s, candidates, r, free) ==
  LET turn[n \in 0 .. Cardinality(candidates)] ==
        IF n = 0 THEN [left |-> free, share |-> <<>>]
        ELSE LET acc == turn[n - 1]
                 i == Foremost(p, s, candidates \ DOMAIN acc.share)
                 share == Max({0, Min({acc.left, Wanted(p, s, i, r)})})
             IN  [left |-> acc.left - share,
                  share |-> [j \in {i} \cup DOMAIN acc.share |-> IF j = i THEN share ELSE acc.share[j]]]
  IN  turn[Cardinality(candidates)].share

Shares(p, s, candidates, r, free) ==
  IF \E i \in candidates : candidates = {i} /\ p.features[i].lock = None
  THEN [i \in candidates |-> Max({0, Min({free, Room(p, s, i, r)})})]
  ELSE InTurn(p, s, candidates, r, free)

(* Those who have got something start and work.                            *)
Worked(p, s, r, share) ==
  LET of == {i \in DOMAIN share : share[i] > 0}
      fresh == {i \in of : s.started[i] = None}
      less(i) == [s.left[i] EXCEPT ![r] = @ - share[i]]
  IN  [s EXCEPT !.left = [i \in Features(p) |-> IF i \in of THEN less(i) ELSE @[i]],
                !.refused = @ \/ \E i \in fresh : ~PinsWait(p, s, i),
                !.started = [i \in Features(p) |->
                               IF i \in fresh THEN LockStart(p, i, TicksPerWeek * s.week) ELSE @[i]],
                !.given = @ \cup {[feature |-> i, role |-> r, week |-> s.week, days |-> share[i]] : i \in of},
                !.last = IF of = {} THEN @ ELSE Max({@, s.week})]

RoleWeek(p, s, ready, r) ==
  Worked(p, s, r, Shares(p, s, Candidates(p, s, ready, r), r, FreeDays(p, r, s.week)))

Complete(p, s, ready) ==
  LET ended == {i \in ready : s.done[i] = None /\ \A r \in DOMAIN s.left[i] : s.left[i][r] = 0}
  IN  [s EXCEPT !.started = [i \in Features(p) |->
                               IF i \in ended /\ @[i] = None THEN TicksPerWeek * s.week ELSE @[i]],
                !.done = [i \in Features(p) |->
                            IF i \in ended THEN Max({Moment(s.week), 2 * LockEnd(p, i) - 1}) ELSE @[i]]]

(* The roles in their order.                                               *)
AllRoles(p, s, ready) ==
  LET after[n \in 0 .. Len(p.roles)] == IF n = 0 THEN s ELSE RoleWeek(p, after[n - 1], ready, n)
  IN  after[Len(p.roles)]

StepWith(p, s, ready) ==
  [Complete(p, AllRoles(p, StartEmpty(p, s, ready), ready), ready) EXCEPT !.week = @ + 1]

Step(p, s) == StepWith(p, s, {i \in Features(p) : Ready(p, s, i) /\ CanStart(p, s, i)})

(* The end: all are done, or the weeks have run out.                       *)
Over(p, s) == s.refused \/ s.week >= s.limit \/ \A i \in Features(p) : s.done[i] # None

Unfinished(p, s) == {i \in Features(p) : \E r \in DOMAIN s.left[i] : s.left[i][r] > 0}

Starts(p, s) == [i \in Features(p) |-> IF s.started[i] = None THEN 0 ELSE s.started[i]]
EpicStarts(p, s) ==
  [e \in DOMAIN p.epics |->
     LET starts == {s.started[i] : i \in {j \in Features(p) : p.features[j].epic = e /\ s.started[j] # None}}
     IN  IF starts = {} THEN 0 ELSE Min(starts)]
=============================================================================
