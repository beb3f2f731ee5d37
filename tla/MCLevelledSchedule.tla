------------------------ MODULE MCLevelledSchedule ------------------------
(* Workloads for LevelledSchedule: weeks of two steps, four of them, and   *)
(* two roles.                                                              *)
EXTENDS LevelledSchedule

Modes == {"sequential", "parallel"}

NoneFor(S) == [x \in S |-> None]

Pairs(S) == {e \in S \X S : e[1] # e[2]}

AtMost(n, S) == {D \in SUBSET S : Cardinality(D) <= n}

(* Three features in two epics, with up to one dependency.  One may be     *)
(* pinned, or one epic wait for a week.                                    *)
Projects ==
  [epicOf : {[f \in Feature |-> IF f = 3 THEN 2 ELSE 1]},
   featureMode : [Epic -> Modes],
   scheduleMode : {[e \in Epic |-> "sequential"]},
   epicStart : {NoneFor(Epic), [NoneFor(Epic) EXCEPT ![2] = 2]},
   featureStart : {NoneFor(Feature), [NoneFor(Feature) EXCEPT ![1] = 3]},
   deps : AtMost(1, Pairs(Feature)), epicDeps : {{}},
   pin : {NoneFor(Feature), [NoneFor(Feature) EXCEPT ![2] = 1]},
   stored : {[f \in Feature |-> 2]},
   duration : {[f \in Feature |-> IF f = 2 THEN 2 ELSE 1]}]

Story(a, b, n) == [demand |-> <<a, b>>, length |-> n]

(* A story for one role, two stories of which the first needs two steps,   *)
(* and a story without effort before one for both roles.                   *)
Stories ==
  {[f \in Feature |-> CASE f = 1 -> <<Story(2, 0, 1)>>
                        [] f = 2 -> <<Story(4, 0, 2), Story(0, 1, 1)>>
                        [] f = 3 -> <<Story(0, 0, 1), Story(1, 1, 1)>>],
   [f \in Feature |-> CASE f = 1 -> <<Story(2, 1, 1)>>
                        [] f = 2 -> <<>>
                        [] f = 3 -> <<Story(2, 0, 1)>>]}

Flat(n) == [w \in Weeks |-> n]

Capacities ==
  {<<Flat(2), Flat(1)>>, <<Flat(3), Flat(2)>>,
   <<[w \in Weeks |-> IF w = 1 THEN 3 ELSE 1], Flat(2)>>,
   <<[w \in Weeks |-> IF w = 2 THEN 2 ELSE 0], Flat(2)>>}

Workloads ==
  [phases : Stories, capacity : Capacities,
   held : {[r \in Role |-> [s \in Step |-> 0]],
           [r \in Role |-> [s \in Step |-> IF r = 1 /\ s \in 1 .. 2 THEN 1 ELSE 0]]},
   orphans : {{}, {<<1, 3>>}}]
=============================================================================
