---------------------------- MODULE EpicLeveller ----------------------------
(***************************************************************************)
(* levelEpicStarts of lib/leveller.ts, for a staffing p as the weekly      *)
(* planner takes it: the features, in an order that respects what they     *)
(* wait for, are put one by one where the roles that hold them up are      *)
(* free, and an epic starts with the first of its features.  Durations are *)
(* in 120ths of a week, rounded up; demand rates are rounded down.         *)
(***************************************************************************)
EXTENDS WeeklyPlanner

WaitsFor(p, i) == Predecessors(p, i) \ {0, i}

(* How long a feature takes; only in a parallel epic the people who may    *)
(* work on a feature are limited.                                          *)
Takes(p, i) ==
  LET f == p.features[i]
      count(r) == IF p.epics[f.epic].sequential THEN p.roles[r].count
                  ELSE Min({p.roles[r].count, 100 * p.parallelism})
      alone(r) == CeilDiv(Fine * f.days[r], Point * Max({100, count(r)}))
  IN  IF p.epics[f.epic].sequential /\ f.lock # None THEN (Fine * (f.lock[2] - f.lock[1])) \div TicksPerWeek
      ELSE IF f.days = <<>> THEN Fine
      ELSE Max({Fine \div 5} \cup {alone(r) : r \in DOMAIN f.days})

Lasts(p, i) == CeilDiv(Takes(p, i), Fine)

(* What is asked: manual windows do not end before they start.             *)
IsLevelling(p) ==
  /\ IsStaffing(p)
  /\ \A i \in Features(p) : LET lock == p.features[i].lock IN lock # None => lock[1] <= lock[2]

(* Days a week of a role while a feature is worked on, if it takes time.   *)
Rate(p, i, r) == (Fine * p.features[i].days[r]) \div Takes(p, i)

WeekZero(p, r) == Point * PercentIn(p.roles[r], 0)

(* The roles that would take longest, or nearly; or have nobody yet.       *)
HoldUp(p, i) ==
  LET days == p.features[i].days
      absent == {r \in DOMAIN days : WeekZero(p, r) = 0}
  IN  IF absent # {} THEN absent
      ELSE {r \in DOMAIN days : \A q \in DOMAIN days :
              10 * days[r] * WeekZero(p, q) >= 8 * days[q] * WeekZero(p, r)}

(* Kahn: the first features of all epics before the second ones; what is   *)
(* in a circle comes last, as it is listed.                                *)
Key(p, i) == 100000 * Cardinality(Earlier(p, i)) + p.features[i].epic

Released(p, queue) == {i \in Features(p) \ Range(queue) : WaitsFor(p, i) \subseteq Range(queue)}

NextInOrder(p, queue) ==
  IF Released(p, queue) = {} THEN queue
  ELSE Append(queue, CHOOSE i \in Released(p, queue) : \A j \in Released(p, queue) : Key(p, i) <= Key(p, j))

LeftOver(queue, i) == IF i \in Range(queue) THEN queue ELSE Append(queue, i)

Queued(p) ==
  LET all == Len(p.features)
      queue[n \in 0 .. 2 * all] ==
        IF n = 0 THEN <<>>
        ELSE IF n <= all THEN NextInOrder(p, queue[n - 1]) ELSE LeftOver(queue[n - 1], n - all)
  IN  queue[2 * all]

(* What is placed: the starts of features, as a function.                  *)
Occupies(p, starts, i, w) == starts[i] <= w /\ w < starts[i] + Lasts(p, i)

UsedBy(p, starts, S, r, w) ==
  SumOver({i \in S \cap DOMAIN starts : r \in DOMAIN p.features[i].days /\ Occupies(p, starts, i, w)},
          LAMBDA i : Rate(p, i, r))

FinishOf(p, starts, i) == IF i \in DOMAIN starts THEN Fine * starts[i] + Takes(p, i) ELSE 0

(* Mutant: a feature starts in the week in which the last it waits for is. *)
EarliestTouching(p, starts, i) ==
  Max({0} \cup {FinishOf(p, starts, j) \div Fine : j \in WaitsFor(p, i)})

EarliestStart(p, starts, i) ==
  CeilDiv(Max({0} \cup {FinishOf(p, starts, j) : j \in WaitsFor(p, i)}), Fine)

(* Mutant: what is placed already is forgotten.                            *)
HasRoomAlone(p, starts, i, week) ==
  \A r \in HoldUp(p, i), w \in week .. week + Lasts(p, i) - 1 : Rate(p, i, r) <= WeekZero(p, r)

HasRoom(p, starts, i, week) ==
  \A r \in HoldUp(p, i), w \in week .. week + Lasts(p, i) - 1 :
    UsedBy(p, starts, Features(p), r, w) + Rate(p, i, r) <= WeekZero(p, r)

(* How much there is to do for the other roles of the feature by then.     *)
GapFill(p, starts, i, week) ==
  SumOver(week .. week + Lasts(p, i) - 1, LAMBDA w :
    SumOver(DOMAIN p.features[i].days \ HoldUp(p, i), LAMBDA r : UsedBy(p, starts, Features(p), r, w)))

Fit == 12
Search == 200

(* The first week there is room from a week on, None if there is none.     *)
FirstRoom(p, starts, i, earliest) ==
  IF \A w \in earliest .. earliest + Search : ~HasRoom(p, starts, i, w) THEN None
  ELSE CHOOSE w \in earliest .. earliest + Search :
         HasRoom(p, starts, i, w) /\ \A v \in earliest .. w - 1 : ~HasRoom(p, starts, i, v)

(* Of the weeks with room near the first, the one with most to do.         *)
Openings(p, starts, i, first, latest) ==
  {[week |-> w, fill |-> GapFill(p, starts, i, w)] : w \in {w \in first .. latest : HasRoom(p, starts, i, w)}}

Fullest(openings) ==
  CHOOSE x \in openings : \A y \in openings : y.fill < x.fill \/ (y.fill = x.fill /\ x.week <= y.week)

PlacedNear(p, starts, i, earliest, first) ==
  IF first = None THEN earliest
  ELSE Fullest(Openings(p, starts, i, first, Min({first + Fit, earliest + Search}))).week

PlacedFrom(p, starts, i, earliest) == PlacedNear(p, starts, i, earliest, FirstRoom(p, starts, i, earliest))

WithStart(p, starts, i) ==
  LET start == PlacedFrom(p, starts, i, EarliestStart(p, starts, i))
  IN  [j \in {i} \cup DOMAIN starts |-> IF j = i THEN start ELSE starts[j]]

Starting(p) ==
  LET queue == Queued(p)
      placed[n \in 0 .. Len(queue)] == IF n = 0 THEN <<>> ELSE WithStart(p, placed[n - 1], queue[n])
  IN  placed[Len(queue)]

FirstStarts(p, starts) ==
  [e \in DOMAIN p.epics |->
     LET own == {starts[i] : i \in {j \in Features(p) : p.features[j].epic = e}}
     IN  IF own = {} THEN 0 ELSE Min(own)]

Delivers(p, starts) == Max({0} \cup {FinishOf(p, starts, i) : i \in DOMAIN starts})

(* peakUtilisationPct, in tenths of a percent, over the weeks that have    *)
(* anybody.                                                                *)
PeakUse(p, starts) ==
  LET last == CeilDiv(Delivers(p, starts), Fine)
      share(r, w) == LET capacity == Point * PercentIn(p.roles[r], w)
                     IN  IF capacity = 0 THEN 0
                         ELSE (1000 * UsedBy(p, starts, Features(p), r, w)) \div capacity
  IN  Max({0} \cup {share(r, w) : r \in Roles(p), w \in 0 .. last})
=============================================================================
