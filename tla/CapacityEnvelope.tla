-------------------------- MODULE CapacityEnvelope --------------------------
(***************************************************************************)
(* From the demand of a finished weekly plan to the headcounts of each     *)
(* period, and back to people the weekly planner can be run with again     *)
(* (lib/capacity-planner.ts).                                              *)
(*                                                                         *)
(* A capacity plan is asked for with q = [staffing, period, floors, delta, *)
(* passes, edits]: what the weekly planner is asked, the weeks of a        *)
(* period, the least headcount of some roles, the largest change from one  *)
(* period to the next and how often it is smoothed, and the draft edits    *)
(* [role, from, until, heads, locked], one at most for a role.  Headcounts *)
(* are percentages of a person, as in CapacityPlans.                       *)
(***************************************************************************)
EXTENDS WeeklyPlanner

(* The same function, evaluated once by the model checker.                 *)
Table(f) == f @@ <<>>

(* The members of a set in some order: SetToSeq tries them all.            *)
Listed(S) == FoldSet(LAMBDA x, seq : Append(seq, x), <<>>, S)
InOrder(S, before(_, _)) == SortSeq(Listed(S), before)

QuantizeUp(n, of) == Quarter * CeilDiv(n, Quarter * of)

InRoleWindow(role, w) ==
  role.segments = None \/ \E i \in DOMAIN role.segments : Covers(role.segments[i], w)

(* canMaterializeSyntheticCapacity                                         *)
TakesUnnamed(role, heads) ==
  IF role.segments # None THEN role.segments # <<>>
  ELSE role.count > 100 * Len(role.people) \/ heads > role.count

Floor(q, r) == IF r \in DOMAIN q.floors THEN q.floors[r] ELSE 0

----------------------------------------------------------------------------
(* The demand of a finished plan s, by role and week.                      *)

Delivered(s) == s.last + 1

Demand(p, s) ==
  Table([r \in Roles(p) |-> Table([w \in 0 .. Delivered(s) |->
     SumOver({g \in s.given : g.role = r /\ g.week = w}, LAMBDA g : g.days) + PinnedDays(p, r, w)])])

Asked(demand) == {r \in DOMAIN demand : \E w \in DOMAIN demand[r] : demand[r][w] > 0}

Count(q, total) == Max({1, CeilDiv(total, q.period)})
WeeksIn(q, total, k) == (k - 1) * q.period .. Min({k * q.period, total + 1}) - 1

PeakIn(q, total, days, k) == Max({0} \cup {days[w] : w \in WeeksIn(q, total, k)})
SumIn(q, total, days, k) == SumOver(WeeksIn(q, total, k), LAMBDA w : days[w])
NamedIn(q, total, role, k) == Max({0} \cup {NamedPercent(role, w) : w \in WeeksIn(q, total, k)})

----------------------------------------------------------------------------
(* deriveCapacityEnvelope for one role: its headcount in each period.      *)

Covering(q, total, role, days, k) ==
  Max({QuantizeUp(11 * SumIn(q, total, days, k), 10 * Point * Cardinality(WeeksIn(q, total, k))),
       QuantizeUp(PeakIn(q, total, days, k), Point), NamedIn(q, total, role, k)})

(* A step up or down is at most delta, forwards and then backwards.        *)
Ramp(q, cap) ==
  LET forth == FoldLeft(LAMBDA c, h : IF c = <<>> THEN <<h>> ELSE Append(c, Min({h, c[Len(c)] + q.delta})), <<>>, cap)
      back == FoldRight(LAMBDA h, c : IF c = <<>> THEN <<h>> ELSE <<Min({h, c[1] + q.delta})>> \o c, forth, <<>>)
  IN  back

LeastIn(q, total, r, role, days, k) ==
  Max({QuantizeUp(Floor(q, r), 1), NamedIn(q, total, role, k), QuantizeUp(PeakIn(q, total, days, k), Point)})

Smoothed(q, cap, least) ==
  FoldLeft(LAMBDA c, pass : LET ramped == Ramp(q, c)
                            IN  [k \in DOMAIN c |-> Max({ramped[k], least[k]})],
           cap, [pass \in 1 .. q.passes |-> pass])

(* Allocation beyond 120% of the demand is taken from the periods that are *)
(* used least, as far as they need it.                                     *)
Allocated(width, c) == SumOver(DOMAIN c, LAMBDA k : c[k] * width[k])

Idler(sum, width, cap, k, j) ==
  IF cap[j] = 0 THEN FALSE
  ELSE IF cap[k] = 0 THEN sum[j] > 0
  ELSE sum[k] * width[j] * cap[j] < sum[j] * width[k] * cap[k]

LoweredTo(c, k, least, i) == [c EXCEPT ![k] = Min({@, Max({least, @ - Quarter * i})})]

TrimOne(width, enough, c, k, least) ==
  LET tries == 0 .. CeilDiv(Max({0, c[k] - least}), Quarter)
      good == {i \in tries : Allocated(width, LoweredTo(c, k, least, i)) <= enough}
  IN  LoweredTo(c, k, least, IF good = {} THEN Max(tries) ELSE Min(good))

TrimmedBy(cap, least, sum, width) ==
  LET demanded == SumOver(DOMAIN sum, LAMBDA k : sum[k])
      order == InOrder(DOMAIN cap, LAMBDA k, j : \/ Idler(sum, width, cap, k, j)
                                                 \/ ~Idler(sum, width, cap, j, k) /\ k < j)
  IN  IF demanded = 0 THEN cap
      ELSE FoldLeft(LAMBDA c, k : TrimOne(width, (12 * demanded) \div (10 * Point), c, k, least[k]), cap, order)

Trimmed(q, total, days, cap, least) ==
  TrimmedBy(cap, least, [k \in DOMAIN cap |-> SumIn(q, total, days, k)],
            [k \in DOMAIN cap |-> Cardinality(WeeksIn(q, total, k))])

Raise(q, r, needed) == IF needed < Floor(q, r) THEN QuantizeUp(Floor(q, r), 1) ELSE needed
CapOf(q, r) == IF r \in DOMAIN q.staffing.caps THEN q.staffing.caps[r] ELSE Forever
Lowest(cap, limit) == [k \in DOMAIN cap |-> Min({cap[k], limit})]

Envelope(q, role, days, total, r) ==
  LET n == 1 .. Count(q, total)
      needed == [k \in n |-> Raise(q, r, Covering(q, total, role, days, k))]
      least == <<>> \o [k \in n |-> LeastIn(q, total, r, role, days, k)]
      smooth == Smoothed(q, <<>> \o needed, least)
      trimmed == Trimmed(q, total, days, <<>> \o Lowest(smooth, CapOf(q, r)), least)
  IN  <<>> \o [k \in n |-> Max({trimmed[k], NamedIn(q, total, role, k)})]

----------------------------------------------------------------------------
(* buildEnvelopeOutput: the periods [from, until, heads] of a plan, cut    *)
(* where the headcount or the named people of a role change.               *)

Locks(q) == {q.edits[i] : i \in {j \in DOMAIN q.edits : q.edits[j].locked}}
LockOf(q, r, w) == {e \in Locks(q) : e.role = r /\ e.from <= w /\ w < e.until}

LastOfPeople(role) ==
  Max({-1} \cup ({s.to : s \in UNION {Range(x.segments) : x \in Range(role.people)}} \ {Forever}))

HeadsIn(role, w, heads) ==
  LET named == NamedPercent(role, w)
  IN  IF ~InRoleWindow(role, w) \/ (~TakesUnnamed(role, heads) /\ named = 0) THEN named ELSE Max({heads, named})

Cut(starts, end, heads) ==
  LET at == InOrder(starts, <)
  IN  <<>> \o [i \in DOMAIN at |->
                 [from |-> at[i], until |-> IF i = Len(at) THEN end ELSE at[i + 1], heads |-> heads[at[i]]]]

(* What the envelope and the locks ask of a role in period k.              *)
Raised(q, envelope, last, r, k) ==
  Max({IF k \in DOMAIN envelope THEN envelope[k] ELSE 0}
        \cup {e.heads : e \in {e \in Locks(q) : /\ e.role = r /\ k <= Count(q, last)
                                             /\ e.from < k * q.period /\ e.until > (k - 1) * q.period}})

CutWhereChanged(q, roles, end, weekly) ==
  LET starts == {w \in 0 .. end - 1 :
                   w % q.period = 0
                     \/ \E r \in DOMAIN weekly : \/ weekly[r][w] # weekly[r][w - 1]
                                               \/ NamedPercent(roles[r], w) # NamedPercent(roles[r], w - 1)}
  IN  Cut(starts, end, [w \in starts |-> Table([r \in DOMAIN weekly |-> weekly[r][w]])])

RaisedPeriods(q, roles, last, end, envelope) ==
  CutWhereChanged(q, roles, end, Table([r \in DOMAIN envelope |-> Table([w \in 0 .. end - 1 |->
    HeadsIn(roles[r], w, Raised(q, envelope[r], last, r, (w \div q.period) + 1))])]))

Periods(q, roles, demand, total) ==
  LET planned == Asked(demand) \cup {e.role : e \in Locks(q)}
      last == Max({total} \cup {e.until : e \in Locks(q)})
  IN  RaisedPeriods(q, roles, last, Max({last + 1} \cup {LastOfPeople(roles[r]) + 1 : r \in planned}),
        Table([r \in planned |-> IF r \in Asked(demand) THEN Envelope(q, roles[r], demand[r], total, r) ELSE <<>>]))

(* splitAndApplyDraftLocks                                                 *)
SplitAtLocks(q, periods) ==
  LET edges == UNION {{periods[i].from, periods[i].until} : i \in DOMAIN periods}
                 \cup UNION {{e.from, e.until} : e \in Locks(q)}
      at(w) == {i \in DOMAIN periods : periods[i].from <= w /\ w < periods[i].until}
      held(w) == {e \in Locks(q) : e.from <= w /\ w < e.until}
      source(w) == IF at(w) = {} THEN <<>> ELSE periods[CHOOSE i \in at(w) : TRUE].heads
      begins == edges \ {Max(edges)}
      heads(w) == [r \in DOMAIN source(w) \cup {e.role : e \in held(w)} |->
                     IF LockOf(q, r, w) # {} THEN (CHOOSE e \in LockOf(q, r, w) : TRUE).heads ELSE source(w)[r]]
  IN  IF Locks(q) = {} THEN periods
      ELSE SelectSeq(Cut(begins, Max(edges), [w \in begins |-> heads(w)]), LAMBDA c : at(c.from) # {} \/ held(c.from) # {})

----------------------------------------------------------------------------
(* materializeEnvelopeToResourceTypes: the people a plan needs beside the  *)
(* named ones, in slots of at most one person.                             *)

HeadsAt(periods, r, w) ==
  LET at == {i \in DOMAIN periods : periods[i].from <= w /\ w < periods[i].until /\ r \in DOMAIN periods[i].heads}
  IN  IF at = {} THEN 0 ELSE periods[CHOOSE i \in at : TRUE].heads[r]

(* Mutant: named people are added to the headcount.                        *)
MissingBeside(role, heads, w) ==
  IF InRoleWindow(role, w) /\ (TakesUnnamed(role, heads) \/ NamedPercent(role, w) > 0) THEN heads ELSE 0
Missing(role, heads, w) ==
  LET named == NamedPercent(role, w)
  IN  IF InRoleWindow(role, w) /\ (TakesUnnamed(role, heads) \/ named > 0) THEN Max({0, heads - named}) ELSE 0

Added(role, missing, weeks) ==
  LET share(slot, w) == IF w \in weeks THEN Clamp(missing[w] - 100 * slot, 100) ELSE 0
      slots == 0 .. CeilDiv(Max({0} \cup Range(missing)), 100) - 1
      run(slot, v, w) ==
        /\ v <= w /\ share(slot, v) > 0
        /\ \A u \in v .. w : share(slot, u) = share(slot, v)
        /\ share(slot, v - 1) # share(slot, v) /\ share(slot, w + 1) # share(slot, v)
      runs == {x \in slots \X weeks \X weeks : run(x[1], x[2], x[3])}
  IN  {[segments |-> <<Window(x[2], x[3], share(x[1], x[2]))>>,
        display |-> [from |-> x[2], to |-> x[3]], slot |-> x[1]] : x \in runs}

Materialized(role, periods, r) ==
  LET weeks == UNION {periods[i].from .. periods[i].until - 1 : i \in DOMAIN periods}
      missing == Table([w \in weeks |-> Missing(role, HeadsAt(periods, r, w), w)])
  IN  IF \A i \in DOMAIN periods : r \notin DOMAIN periods[i].heads THEN role
      ELSE [count |-> Max({0} \cup {HeadsAt(periods, r, w) : w \in weeks}),
            segments |-> IF role.segments = <<>> THEN <<>> ELSE None,
            people |-> role.people \o Listed(Added(role, missing, weeks))]

Replayed(roles, periods) == <<>> \o [r \in DOMAIN roles |-> Materialized(roles[r], periods, r)]

----------------------------------------------------------------------------
(* Draft edits: the segments of a role around them.                        *)

BaseUnnamed(role, w) ==
  IF role.segments = None THEN Max({0, role.count - 100 * Len(role.people)}) ELSE PercentAt(role.segments, w)

EditEdges(role, edits) ==
  LET windows == (IF role.segments = None THEN {} ELSE Range(role.segments))
                   \cup UNION {Range(x.segments) : x \in Range(role.people)}
      after(w) == IF w = Forever THEN Forever ELSE w + 1
  IN  {0, Forever} \cup UNION {{s.from, after(s.to)} : s \in windows} \cup UNION {{e.from, e.until} : e \in edits}

Unnamed(role, edits, limit, w) ==
  LET held == {e \in edits : e.from <= w /\ w < e.until}
      e == CHOOSE e \in held : TRUE
      named == NamedPercent(role, w)
  IN  IF held = {} THEN BaseUnnamed(role, w)
      ELSE IF ~e.locked THEN Max({BaseUnnamed(role, w), Min({e.heads, limit}) - named})
      ELSE IF InRoleWindow(role, w) THEN Max({0, e.heads - named}) ELSE 0

(* adaptDraftCapacitySegments                                              *)
Joined(ss, s) ==
  IF ss # <<>> /\ ss[Len(ss)].to + 1 = s.from /\ ss[Len(ss)].percent = s.percent THEN [ss EXCEPT ![Len(ss)].to = s.to]
  ELSE IF s.percent > 0 THEN Append(ss, s) ELSE ss

Adapted(role, edits, limit) ==
  LET at == InOrder(EditEdges(role, edits), <)
      until(i) == IF at[i + 1] = Forever THEN Forever ELSE at[i + 1] - 1
  IN  FoldLeft(LAMBDA ss, i : Joined(ss, Window(at[i], until(i), Unnamed(role, edits, limit, at[i]))),
               <<>>, [i \in 1 .. Len(at) - 1 |-> i])

EditsOf(q, r) == {q.edits[i] : i \in {j \in DOMAIN q.edits : q.edits[j].role = r}}

(* applyDraftCapacitySeeds                                                 *)
Seeded(q, role, r) ==
  LET edits == EditsOf(q, r)
  IN  CASE edits = {} -> role
        [] edits # {} /\ role.segments = None /\ \A e \in edits : ~e.locked ->
             [role EXCEPT !.count = Max({@} \cup {Min({e.heads, CapOf(q, r)}) : e \in edits})]
        [] OTHER -> [role EXCEPT !.segments = Adapted(role, edits, CapOf(q, r))]

(* restoreDraftLockedCapacity                                              *)
Relocked(q, role, r) ==
  LET locks == {e \in Locks(q) : e.role = r}
  IN  IF locks = {} THEN role ELSE [role EXCEPT !.segments = Adapted(role, locks, Forever)]

(* The diagnoses of a draft: locks above the cap, below the named people   *)
(* or the floor, or where the role is closed.                              *)
AtOdds(q) ==
  \E e \in Locks(q) :
    LET role == q.staffing.roles[e.role]
        weeks == {w \in EditEdges(role, EditsOf(q, e.role)) : e.from <= w /\ w < e.until}
    IN  \/ e.heads > CapOf(q, e.role)
        \/ e.heads < Floor(q, e.role)
        \/ \E w \in weeks : e.heads < NamedPercent(role, w)
        \/ \E w \in weeks : ~InRoleWindow(role, w) /\ e.heads > NamedPercent(role, w)
=============================================================================
