------------------------- MODULE MCFeatureSchedule -------------------------
(* Projects for FeatureSchedule: three features in up to three epics, one  *)
(* of them possibly empty, of which feature n takes n steps.               *)
EXTENDS FeatureSchedule

Modes == {"sequential", "parallel"}

(* Features keep the order of their epics.                                 *)
Layouts == {o \in [Feature -> Epic] : \A f, g \in Feature : f <= g => o[f] <= o[g]}

AtMost(n, S) == {D \in SUBSET S : Cardinality(D) <= n}

Pairs(S) == {e \in S \X S : e[1] # e[2]}

NoneFor(S) == [x \in S |-> None]

Build(layouts, deps, epicDeps, pins, stored, epicStarts, featureStarts) ==
  [epicOf : layouts, featureMode : [Epic -> Modes],
   scheduleMode : {m \in [Epic -> Modes] : m[1] = "sequential"},
   epicStart : epicStarts, featureStart : featureStarts,
   deps : deps, epicDeps : epicDeps, pin : pins, stored : stored,
   duration : {[f \in Feature |-> f]}]

(* Every mix of modes with up to two dependencies between features and one *)
(* between epics.                                                          *)
GraphProjects ==
  Build(Layouts, AtMost(2, Pairs(Feature)), AtMost(1, Pairs(Epic)),
        {NoneFor(Feature)}, {[f \in Feature |-> 1]}, {NoneFor(Epic)}, {NoneFor(Feature)})

(* One feature pinned, one epic or feature with a start week, or neither,  *)
(* and up to one dependency.                                               *)
OneOf(S, values) == {NoneFor(S)} \cup {[NoneFor(S) EXCEPT ![x] = v] : x \in S, v \in values}

PinnedProjects ==
  Build(Layouts, AtMost(1, Pairs(Feature)), {{}},
        OneOf(Feature, {0, 4}), {[f \in Feature |-> 5]}, OneOf(Epic, {3}), {NoneFor(Feature)})
  \cup
  Build(Layouts, AtMost(1, Pairs(Feature)), {{}},
        OneOf(Feature, {0, 4}), {[f \in Feature |-> 5]}, {NoneFor(Epic)}, OneOf(Feature, {3}))

Projects == GraphProjects \cup PinnedProjects
=============================================================================
