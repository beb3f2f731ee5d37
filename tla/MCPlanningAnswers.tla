------------------------- MODULE MCPlanningAnswers -------------------------
(* Questions for PlanningAnswers: four weeks of two ticks, two roles.      *)
EXTENDS PlanningAnswers

MCLower == [n \in {"Dev", "DEV", "Ops"} |-> IF n = "Ops" THEN "ops" ELSE "dev"]

Period(a, b, h) == [from |-> a, until |-> b, heads |-> h]

Heads == {0, 25, 75, 100, 130, 200, 225}

(* Three periods, with or without a gap before the last.                   *)
MCPlans ==
  {<<>>} \cup
  {<<Period(0, 1, h), Period(1, 3, i), Period(3 + g, 4 + g, j)>> :
     h \in Heads, i \in Heads, j \in Heads, g \in {0, 1}}

Profile(kind, basis, source, percent, from, to, segments) ==
  [kind |-> kind, basis |-> basis, source |-> source, transferred |-> FALSE,
   percent |-> percent, from |-> from, to |-> to, segments |-> segments]

Two == <<Window(0, 0, 50), Window(2, 3, 100)>>
Early(percent) == <<Window(0, 1, percent)>>

InPlan(kind, source, segments) ==
  Profile(kind, "capacityProfile", source, None, None, None, segments)

Persons ==
  {[profiles |-> P] : P \in
     {{},
      {Profile("NAMED_PERSON", "demandFollowing", "fixed", 100, None, None, <<>>)},
      {Profile("NAMED_PERSON", "availabilityWindow", "availabilityWindow", 50, 1, 2, <<>>)},
      {InPlan("NAMED_PERSON", "manual", Two)},
      {InPlan("PLANNED_RESOURCE", "squadPlanner", Early(100))},
      {[InPlan("PLANNED_RESOURCE", "manual", Early(100)) EXCEPT !.transferred = TRUE]}}}

RoleProfiles ==
  {{}, {Profile("ROLE", "demandFollowing", "fixed", 100, None, None, <<>>)},
   {Profile("ROLE", "availabilityWindow", "legacy", 300, None, None, <<>>)},
   {Profile("ROLE", "availabilityWindow", "availabilityWindow", 50, 1, None, <<>>)},
   {InPlan("ROLE", "squadPlanner", Early(150))}, {InPlan("ROLE", "manual", Early(150))}}

Ops ==
  [id |-> "r2", name |-> "Ops", people |-> <<>>, count |-> 1, plan |-> <<>>,
   profiles |-> {Profile("ROLE", "wholeProjectAllocation", "fixed", 50, None, None, <<>>)}]

Story(active, bar, dev, ops, nobody) ==
  [active |-> active, bar |-> bar, hours |-> ("r1" :> dev @@ "r2" :> ops @@ None :> nobody)]

Feature(active, from, length, stories) ==
  [epic |-> "e1", active |-> active, from |-> from, length |-> length, stories |-> stories]

FeatureLists ==
  {<<Feature(TRUE, 0, 3, <<Story(TRUE, None, dev, 8, 0), Story(FALSE, None, 40, 0, 0)>>),
     Feature(active, 1, 4, <<Story(TRUE, bar, 24, 0, 4)>>),
     Feature(TRUE, None, None, <<Story(TRUE, None, 16, 0, 0)>>)>> :
     dev \in {0, 160}, active \in BOOLEAN, bar \in {None, <<2, 1>>}}

Row(key, week, days) == [key |-> key, week |-> week, days |-> days * Day]

Caches ==
  {<<>>, <<Row("r1", 0, 2), Row("r1", 1, 7)>>,
   <<Row("DEV", 1, 3), Row("r9", 0, 4), Row("r2", 3, 1)>>}

MCProjects ==
  {[roles |-> <<[id |-> "r1", name |-> "Dev", profiles |-> P, people |-> people, count |-> 2,
                 plan |-> <<Period(0, 2, 150)>>], Ops>>,
    features |-> features, cache |-> cache, parallel |-> {"e1"}, buffer |-> 1, onboarding |-> 0,
    overheads |-> {[type |-> "PERCENTAGE", value |-> 10, role |-> "r1"],
                   [type |-> "DAYS_PER_WEEK", value |-> 1, role |-> "r2"],
                   [type |-> "FIXED_DAYS", value |-> 2, role |-> None]}] :
     P \in RoleProfiles, people \in BoundedSeq(Persons, 2),
     features \in FeatureLists, cache \in Caches}

(* Terms: people billed one way, the other, or both; all kinds of discount. *)
Discount(of, type, value) == [of |-> of, type |-> type, value |-> value]
Sold(dev, proRata, discounts, tax) ==
  [rates |-> ("r1" :> dev) @@ ("r2" :> 7), proRata |-> proRata, discounts |-> discounts, tax |-> tax]

MCTerms ==
  {Sold(10, {}, {}, None), Sold(None, {1}, {Discount("r1", "FIXED_AMOUNT", 900)}, None),
   Sold(10, {1, 2}, {Discount("r1", "PERCENTAGE", 10), Discount(None, "PERCENTAGE", 5)}, 10),
   Sold(10, {1}, {Discount("r1", "FIXED_AMOUNT", 900), Discount(None, "FIXED_AMOUNT", 50)}, 10)}

----------------------------------------------------------------------------
(* Three rows of two roles of one project, the first of which has a person, *)
(* or of the other project.                                                *)
MCHomes == ("a" :> "p1") @@ ("b" :> "p1") @@ ("q" :> "p1") @@ ("z" :> "p2")
MCStaffOf == ("a" :> <<"q">>) @@ ("b" :> <<>>)

Owner(project, role, person, kind, source, says) ==
  [project |-> project, role |-> role, person |-> person, kind |-> kind, source |-> source, says |-> says]

Contents ==
  {Owner("p1", "a", None, "ROLE", "manual", 1), Owner("p1", "a", None, "ROLE", "manual", 2),
   Owner("p1", "b", None, "ROLE", "manual", 1), Owner("p2", "a", None, "ROLE", "manual", 1),
   Owner("p1", None, "q", "NAMED_PERSON", "manual", 1), Owner("p1", "a", "q", "ROLE", "manual", 1),
   Owner("p1", None, "q", "PLANNED_RESOURCE", "squadPlanner", 1), Owner("p1", None, None, "ROLE", "manual", 1)}

Rows(n) == {{}} \cup {{c @@ [id |-> n, made |-> IF n = 1 THEN 1 ELSE 0]} : c \in Contents}
MCDatabases == {r1 \cup r2 \cup r3 : r1 \in Rows(1), r2 \in Rows(2), r3 \in Rows(3)}

----------------------------------------------------------------------------
(* Searches of the optimiser: a first feature without developers, so that  *)
(* these may come later.                                                   *)
Scalar(basis, source, provenance, percent, from, to) ==
  {[Profile("NAMED_PERSON", basis, source, percent, from, to, <<>>) EXCEPT !.percent = percent]
     @@ [provenance |-> provenance]}
Owned(P) == [profiles |-> {p @@ [provenance |-> "none"] : p \in P}]

Rampers ==
  {[profiles |-> Scalar("demandFollowing", "fixed", "mapper", 50, None, None)],
   [profiles |-> Scalar("availabilityWindow", "availabilityWindow", "mapper", 50, 0, 3)],
   [profiles |-> Scalar("availabilityWindow", "derived", "optimiser", 100, 1, None)],
   [profiles |-> Scalar("availabilityWindow", "manual", "none", 50, 2, None)],
   Owned({InPlan("PLANNED_RESOURCE", "squadPlanner", Early(100))})}

DevProfiles ==
  {{Profile("ROLE", "demandFollowing", "fixed", 100, None, None, <<>>)}, {InPlan("ROLE", "manual", Early(150))}}

Build(active, stories) == [epic |-> "e1", active |-> active, from |-> None, length |-> None, stories |-> stories]
Backlogs ==
  {<<Build(TRUE, <<Story(TRUE, None, 0, 40, 0)>>), Build(FALSE, <<Story(TRUE, None, 80, 0, 0)>>),
     Build(TRUE, <<Story(TRUE, None, dev, ops, 0), Story(FALSE, None, 40, 0, 0)>>)>> :
     dev \in {40, 120}, ops \in {0, 80}}

Unlimited == [budget |-> None, longest |-> None, shortest |-> None]

MCSearches ==
  {[project |->
      [roles |-> <<[id |-> "r1", name |-> "Dev", profiles |-> P, people |-> people, count |-> 1, plan |-> <<>>], Ops>>,
       features |-> features, cache |-> <<>>, parallel |-> parallel, buffer |-> 0, onboarding |-> 0, overheads |-> {}],
    ranges |-> ("r1" :> <<1, 3>>) @@ ranges, rampUp |-> ramp, limits |-> limits, mode |-> mode,
    rates |-> ("r1" :> 10) @@ ("r2" :> 7)] :
     P \in DevProfiles, people \in {<<>>} \cup {<<q>> : q \in Rampers}, features \in Backlogs,
     parallel \in {{}, {"e1"}}, ranges \in {<<>>, "r2" :> <<1, 2>>}, ramp \in BOOLEAN,
     limits \in {Unlimited, [Unlimited EXCEPT !.shortest = 4, !.budget = 200]}, mode \in {"speed", "utilisation", "balanced"}}

----------------------------------------------------------------------------
(* Staffings of the weekly planner: three features of two epics, of which  *)
(* the first two may wait for each other, and a fourth that is pinned.     *)
Staff(count, segments) == [count |-> count, people |-> <<>>, segments |-> segments]

Developer == Staff(100, <<Window(0, Forever, 100)>>)
Late == Staff(200, <<Window(32, Forever, 200)>>)
Fading == Staff(200, <<Window(0, 1, 150), Window(3, Forever, 50)>>)

Work(dev, ops) == (1 :> dev * Day) @@ (IF ops = 0 THEN <<>> ELSE 2 :> ops * Day)

Job(epic, after, days, lock, pins) == [epic |-> epic, after |-> after, days |-> days, lock |-> lock, pins |-> pins]

Jobs(after, lock, pins, days) ==
  <<Job(1, {}, Work(6, 3), None, {}), Job(1, {}, Work(8, 0), lock, {}),
    Job(2, after, Work(12, 2), None, pins), Job(3, {}, days, None, {})>>

Pin == [role |-> 2, from |-> 3, to |-> 5, days |-> 2 * Day]

Staffing(dev, caps, parallelism, atOnce, target, sequential, jobs) ==
  [roles |-> <<dev, Developer>>, caps |-> caps, parallelism |-> parallelism, atOnce |-> atOnce,
   target |-> target, features |-> jobs,
   epics |-> <<[after |-> {}, sequential |-> sequential], [after |-> {}, sequential |-> TRUE],
               [after |-> IF sequential THEN {1} ELSE {}, sequential |-> TRUE]>>]

Held == {<<None, {}>>, <<None, {Pin}>>, <<<<4, 7>>, {}>>, <<<<5, 9>>, {Pin}>>}

MCStaffings ==
  {Staffing(dev, caps, parallelism, atOnce, target, sequential, Jobs(after, held[1], held[2], days)) :
     dev \in {Developer, Fading}, caps \in {<<>>, 1 :> 100}, parallelism \in {1, 2}, atOnce \in {None, 1},
     target \in {2, 6}, sequential \in BOOLEAN, after \in {{}, {1}}, held \in Held, days \in {<<>>, Work(25, 0)}}
  \cup {Staffing(Late, <<>>, parallelism, None, 2, sequential, Jobs(after, None, {}, days)) :
          parallelism \in {1, 2}, sequential \in BOOLEAN, after \in {{}, {0}, {1}}, days \in {<<>>, Work(25, 0)}}

(* Staffings for the leveller: epics side by side or one after the other,  *)
(* a circle between features of two of them, people who come later.        *)
MCLevels ==
  {Staffing(dev, <<>>, parallelism, None, 2, sequential, Jobs(after, lock, {}, days)) :
     dev \in {Developer, Late, Staff(200, <<Window(0, Forever, 200)>>)}, parallelism \in {1, 2},
     sequential \in BOOLEAN, after \in {{}, {1}, {0, 2}}, lock \in {None, <<5, 9>>, <<5, 5>>}, days \in {<<>>, Work(25, 0), Work(3, 4)}}
  \cup {Staffing(dev, <<>>, 1, None, 2, TRUE, [Jobs({2}, None, {}, <<>>) EXCEPT ![2].after = {3}]) : dev \in {Developer, Fading}}

----------------------------------------------------------------------------
(* Squads: developers without a profile, with one that closes, or with     *)
(* a person of their own.                                                  *)
Half == [segments |-> <<Window(1, 2, 50)>>, display |-> [from |-> 1, to |-> 2]]
Whole == [segments |-> <<Window(0, Forever, 100)>>, display |-> [from |-> None, to |-> None]]
Squadron(count, people, segments) == [count |-> count, people |-> people, segments |-> segments]

Teams ==
  {Squadron(100, <<>>, <<Window(0, Forever, 100)>>), Squadron(100, <<>>, <<Window(1, 3, 100), Window(5, Forever, 100)>>),
   Squadron(100, <<Whole>>, <<>>), Squadron(100, <<Half>>, <<>>), Squadron(200, <<Half>>, <<Window(0, Forever, 50)>>)}

Edit(from, until, heads, locked) == [role |-> 1, from |-> from, until |-> until, heads |-> heads, locked |-> locked]

MCSquads ==
  {[staffing |-> Staffing(dev, caps, 2, None, target, sequential, Jobs(after, lock, {}, <<>>)),
    period |-> 4, floors |-> smoothing[1], delta |-> 100, passes |-> smoothing[2], edits |-> edits] :
     dev \in Teams, caps \in {<<>>, 1 :> 50, 1 :> 150}, target \in {3, 5}, sequential \in {TRUE}, after \in {{1}},
     lock \in {None}, smoothing \in {<<<<>>, 0>>, <<1 :> 60, 0>>, <<1 :> 60, 5>>},
     edits \in {<<>>, <<Edit(1, 3, 125, TRUE)>>, <<Edit(2, 6, 200, FALSE)>>}}
=============================================================================
