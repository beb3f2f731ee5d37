--------------------------- MODULE ScheduleGraph ---------------------------
(***************************************************************************)
(* What runScheduler (scheduler.ts) is given, and the graph it builds from *)
(* it: which feature has to wait for which.                                *)
(*                                                                         *)
(* Epics and features are numbers, in the order of the backlog: a feature  *)
(* of an earlier epic, or earlier in the same epic, has the smaller one,   *)
(* and so the smaller priority (epic.order * 100000 + order).  Inactive    *)
(* ones are filtered out by the callers.  Time is counted in steps of the  *)
(* simulation, a fifth of a week; durations (featureDurationWeeks) are     *)
(* part of the input.                                                      *)
(***************************************************************************)
EXTENDS Integers, FiniteSets

CONSTANTS Epic, Feature,
          Project,     \* the inputs considered, see ProjectShape
          None

ProjectShape ==
  [epicOf : [Feature -> Epic],
   featureMode : [Epic -> {"sequential", "parallel"}],
   scheduleMode : [Epic -> {"sequential", "parallel"}],
   epicStart : [Epic -> Nat \cup {None}],          \* timelineStartWeek
   featureStart : [Feature -> Nat \cup {None}],    \* timelineStartWeek
   deps : SUBSET (Feature \X Feature),             \* <<f, g>>: f depends on g
   epicDeps : SUBSET (Epic \X Epic),
   pin : [Feature -> Nat \cup {None}],             \* start of a manual entry
   stored : [Feature -> Nat \ {0}],                \* its durationWeeks
   duration : [Feature -> Nat \ {0}]]

ASSUME ScheduleAssumption ==
  /\ Epic \subseteq Nat
  /\ Feature \subseteq Nat /\ IsFiniteSet(Feature)
  /\ None \notin Nat
  /\ \A p \in Project :
       /\ p \in ProjectShape
       /\ \A f, g \in Feature : f <= g => p.epicOf[f] <= p.epicOf[g]

Pinned(p, f) == p.pin[f] # None

(* The earliest week the user allows.                                      *)
Base(p, f) ==
  IF p.featureStart[f] # None THEN p.featureStart[f]
  ELSE IF p.epicStart[p.epicOf[f]] # None THEN p.epicStart[p.epicOf[f]]
  ELSE 0

(* Does f wait for g?  Four reasons.                                       *)

(* Neighbours in a sequential epic, "don't chain onto a pinned feature".   *)
Sequential(p, g, f) ==
  /\ g < f /\ p.epicOf[g] = p.epicOf[f]
  /\ p.featureMode[p.epicOf[f]] = "sequential"
  /\ ~ \E h \in Feature : g < h /\ h < f
  /\ ~ Pinned(p, g)

Previous(d, e) == d < e /\ ~ \E c \in Epic : d < c /\ c < e

First(p, f) == ~ \E g \in Feature : p.epicOf[g] = p.epicOf[f] /\ g < f

(* The epic just before: for the first feature of a sequential epic and    *)
(* all features of a parallel one, unless the epic has a start week or     *)
(* scheduleMode parallel, or g itself depends on some feature of it.       *)
Chained(p, g, f) ==
  LET e == p.epicOf[f]
  IN  /\ Previous(p.epicOf[g], e)
      /\ p.epicStart[e] = None
      /\ p.scheduleMode[e] # "parallel"
      /\ p.featureMode[e] = "sequential" => First(p, f)
      /\ ~ \E h \in Feature : <<g, h>> \in p.deps /\ p.epicOf[h] = e

Dependency(p, g, f) == <<f, g>> \in p.deps

EpicDependency(p, g, f) == <<p.epicOf[f], p.epicOf[g]>> \in p.epicDeps

Edge(p, g, f) ==
  Sequential(p, g, f) \/ Chained(p, g, f) \/ Dependency(p, g, f) \/ EpicDependency(p, g, f)

Edges(p) == {e \in Feature \X Feature : Edge(p, e[1], e[2])}

Before(p, f) == {g \in Feature : Edge(p, g, f)}

(* Every set of features has one that waits for none of them.              *)
Acyclic(E) ==
  \A S \in SUBSET Feature : S # {} => \E f \in S : \A g \in S : <<g, f>> \notin E
=============================================================================
