-------------------------- MODULE LevelledSchedule --------------------------
(***************************************************************************)
(* runScheduler with resource levelling: after the placement of            *)
(* FeatureSchedule, the work of the features is simulated step by step     *)
(* against the weekly capacity of the roles, and what the simulation finds *)
(* replaces the placement.                                                 *)
(*                                                                         *)
(* Effort is counted in units for which the shares below come out even.    *)
(***************************************************************************)
EXTENDS FeatureSchedule, Sequences, FiniteSetsExt

CONSTANTS Role,
          Work,          \* the workloads considered, see WorkShape
          StepsPerWeek,  \* STEP is a fifth of a week in the code
          LastStep       \* MAX_WEEKS is 200

Step == 0 .. LastStep
Weeks == 0 .. LastStep \div StepsPerWeek

(* One story of a feature: its effort and its length (storyBottleneckWeeks) *)
(* in steps.                                                               *)
Phase == [demand : [Role -> Nat], length : Nat \ {0}]

WorkShape ==
  [phases : [Feature -> Seq(Phase)],
   capacity : [Role -> [Weeks -> Nat]],   \* for each step of the week
   held : [Role -> [Step -> Nat]],        \* taken by pinned features and stories
   orphans : SUBSET (Nat \X Nat)]         \* from when to when features are pinned
                                          \* that are not active any more

ASSUME WorkAssumption ==
  /\ StepsPerWeek \in Nat \ {0} /\ LastStep \in Nat
  /\ Role \subseteq Nat /\ IsFiniteSet(Role)
  /\ \A w \in Work : w \in WorkShape

VARIABLES work,
          stage,
          t,          \* the step the simulation is at,
          low,        \* and if rounding errors have made it a hair less
          simStart, simDone,
          idx,        \* currentStoryIdx
          remaining,  \* remainingHours
          free,       \* remainingStepCapacity
          served,     \* <<f, r>>: f has had its share of r in this step
          consumed,   \* weeklyConsumptionMap
          phaseStart, \* storyPhaseStart of the current phase, or None
          bars        \* storyPhaseStart and storyPhaseDone of the earlier ones

placement == <<project, queue, inDegree, start, finish, sorted>>
clock == <<t, low>>
progress == <<idx, remaining, phaseStart, bars, consumed>>
step == <<free, served>>
levelVars == <<placement, work, stage, clock, simStart, simDone, progress, step>>

----------------------------------------------------------------------------
AutoFeatures == {f \in Feature : ~ Pinned(project, f)}
Unfinished == {f \in AutoFeatures : simDone[f] = None}
Active == {f \in Unfinished : simStart[f] # None}

NoDemand == [r \in Role |-> 0]

Phases(f) == work.phases[f]

DemandOf(f, n) == IF n \in DOMAIN Phases(f) THEN Phases(f)[n].demand ELSE NoDemand

(* Mutant: the last story is left out.                                     *)
MoreButOne(f) == idx[f] + 1 < Len(Phases(f))

More(f) == idx[f] < Len(Phases(f))

(* t >= s.                                                                 *)
Reached(s) == s < t \/ (s = t /\ ~ low)

CurrentWeek == (IF low THEN t - 1 ELSE t) \div StepsPerWeek

LevelInit ==
  /\ Init
  /\ work \in Work
  /\ stage = "place"
  /\ t = 0 /\ low = FALSE
  /\ simStart = [f \in Feature |-> None] /\ simDone = [f \in Feature |-> None]
  /\ idx = [f \in Feature |-> 1]
  /\ remaining = [f \in Feature |-> DemandOf(f, 1)]
  /\ free = NoDemand /\ served = {}
  /\ consumed = [r \in Role |-> [w \in Weeks |-> 0]]
  /\ phaseStart = [f \in Feature |-> None]
  /\ bars = [f \in Feature |-> <<>>]

(* The first half of runScheduler.                                         *)
PlaceNext ==
  /\ stage = "place" /\ ~ Done /\ Next
  /\ UNCHANGED <<work, stage, clock, simStart, simDone, progress, step>>

(* Pinned features keep their entries.                                     *)
Prepare ==
  /\ stage = "place" /\ Done
  /\ stage' = "begin"
  /\ simStart' = [f \in Feature |-> project.pin[f]]
  /\ simDone' = [f \in Feature |-> IF Pinned(project, f)
                                   THEN project.pin[f] + project.stored[f] ELSE None]
  /\ UNCHANGED <<placement, work, clock, progress, step>>

----------------------------------------------------------------------------
(* One round of the simulation: begin, allocate, finish.                   *)

Simulating == Unfinished # {} /\ ~ Reached(LastStep)

(* Some role of the first story has capacity this week.                    *)
HasCapacity(f) ==
  LET needs == {r \in Role : remaining[f][r] > 0}
  IN  needs # {} => \E r \in needs : work.capacity[r][CurrentWeek] > 0

Waiting(f) ==
  f \in Unfinished /\ simStart[f] = None /\ Reached(Base(project, f)) /\ HasCapacity(f)

(* Mutant: waits for one of its predecessors only.                         *)
SomeEnded(f) ==
  Before(project, f) = {} \/ \E g \in Before(project, f) : simDone[g] # None /\ simDone[g] <= t

(* Its predecessors have ended, the last ones perhaps just now.            *)
Ended(f) == \A g \in Before(project, f) : simDone[g] # None /\ simDone[g] <= t

EndedEarlier(f) == \A g \in Before(project, f) : simDone[g] # None /\ simDone[g] < t

(* simDone is not rounded and t is, so an end at this very step may or may *)
(* not count as reached.                                                   *)
Eligible == {B \in SUBSET {f \in Feature : Waiting(f) /\ Ended(f)} :
               \A f \in Feature : Waiting(f) /\ EndedEarlier(f) => f \in B}

(* The entry of a pinned feature that is not active any more has no place  *)
(* in featureResourceHoursCache, which is read all the same: the call      *)
(* throws.                                                                 *)
Throws == \E e \in work.orphans : Reached(e[1]) /\ ~ Reached(e[2])

(* What pins leave of a role's capacity.                                   *)
StepCapacity(r) == Max({0, work.capacity[r][CurrentWeek] - work.held[r][t]})

(* Mutant: the round is skipped without a tick.                            *)
Skip == UNCHANGED <<clock, stage, step>>

(* With nothing to do the clock just ticks, and t += STEP is not rounded.  *)
Tick ==
  /\ t' = t + 1 /\ low' \in BOOLEAN
  /\ UNCHANGED <<stage, step>>

BeginRound ==
  /\ stage = "begin" /\ Simulating
  /\ \E B \in Eligible :
       /\ simStart' = [f \in Feature |-> IF f \in B THEN t ELSE simStart[f]]
       /\ IF Active \cup B = {}
          THEN Tick
          ELSE /\ stage' = IF Throws THEN "failed" ELSE "allocate"
               /\ free' = [r \in Role |-> StepCapacity(r)] /\ served' = {}
               /\ UNCHANGED clock
  /\ UNCHANGED <<placement, work, simDone, progress>>

Competing(r) == {f \in Active : remaining[f][r] > 0 /\ <<f, r>> \notin served}

(* What the length of the story asks for.                                  *)
Pace(f, r) == DemandOf(f, idx[f])[r] \div Phases(f)[idx[f]].length

Share(f, r) == Min({remaining[f][r], free[r], Pace(f, r)})

(* Role by role, the feature with the least remaining effort first.        *)
Allocate(f, r) ==
  /\ stage = "allocate"
  /\ \A q \in Role : q < r => Competing(q) = {}
  /\ f \in Competing(r)
  /\ \A g \in Competing(r) : remaining[f][r] <= remaining[g][r]
  /\ served' = served \cup {<<f, r>>}
  /\ free' = [free EXCEPT ![r] = @ - Share(f, r)]
  /\ remaining' = [remaining EXCEPT ![f][r] = @ - Share(f, r)]
  /\ consumed' = [consumed EXCEPT ![r][CurrentWeek] = @ + Share(f, r)]
  /\ phaseStart' = IF Share(f, r) > 0 /\ phaseStart[f] = None
                   THEN [phaseStart EXCEPT ![f] = t] ELSE phaseStart
  /\ UNCHANGED <<placement, work, stage, clock, simStart, simDone, idx, bars>>

Exhausted(f) == f \in Active /\ \A r \in Role : remaining[f][r] = 0

Bar(f) == [start |-> IF phaseStart[f] = None THEN t ELSE phaseStart[f], done |-> t + 1]

(* Mutant: t += STEP is not rounded after a round of work either.          *)
Unrounded == t' = t + 1 /\ low' \in BOOLEAN

Rounded == t' = t + 1 /\ low' = FALSE

(* Stories that have used up their effort give way to the next one of      *)
(* their feature; after the last one the feature is done.                  *)
FinishRound ==
  /\ stage = "allocate" /\ \A r \in Role : Competing(r) = {}
  /\ bars' = [f \in Feature |-> IF Exhausted(f) /\ Phases(f) # <<>>
                                THEN Append(bars[f], Bar(f)) ELSE bars[f]]
  /\ idx' = [f \in Feature |-> IF Exhausted(f) /\ More(f) THEN idx[f] + 1 ELSE idx[f]]
  /\ remaining' = [f \in Feature |-> IF Exhausted(f) /\ More(f) THEN DemandOf(f, idx[f] + 1)
                                     ELSE remaining[f]]
  /\ phaseStart' = [f \in Feature |-> IF Exhausted(f) THEN None ELSE phaseStart[f]]
  /\ simDone' = [f \in Feature |-> IF Exhausted(f) /\ ~ More(f) THEN t + 1 ELSE simDone[f]]
  /\ Rounded
  /\ stage' = "begin"
  /\ UNCHANGED <<placement, work, simStart, consumed, step>>

(* A feature that began and did not end is given its computed duration.    *)
EndOf(f) == IF simDone[f] # None THEN simDone[f] ELSE start'[f] + Length(f)

(* A feature that did not begin keeps the place it had without levelling.  *)
WriteBack ==
  /\ stage = "begin" /\ ~ Simulating
  /\ stage' = "written"
  /\ start' = [f \in Feature |-> IF simStart[f] # None THEN simStart[f] ELSE start[f]]
  /\ finish' = [f \in Feature |-> EndOf(f)]
  /\ UNCHANGED <<project, queue, inDegree, sorted, work, clock, simStart, simDone, progress, step>>

LevelNext ==
  \/ PlaceNext \/ Prepare
  \/ BeginRound \/ (\E f \in Feature, r \in Role : Allocate(f, r)) \/ FinishRound
  \/ WriteBack

LevelSpec == LevelInit /\ [][LevelNext]_levelVars

(* runScheduler is one synchronous call.                                   *)
LevelFairSpec == LevelSpec /\ WF_levelVars(LevelNext)

----------------------------------------------------------------------------
LevelTypeOK ==
  /\ stage \in {"place", "begin", "allocate", "failed", "written"}
  /\ work \in Work
  /\ t \in 0 .. LastStep + 1 /\ low \in BOOLEAN /\ (low => t > 0)
  /\ simStart \in [Feature -> Nat \cup {None}] /\ simDone \in [Feature -> Nat \cup {None}]
  /\ idx \in [Feature -> Nat \ {0}] /\ \A f \in Feature : idx[f] \in DOMAIN Phases(f) \cup {1}
  /\ remaining \in [Feature -> [Role -> Nat]]
  /\ free \in [Role -> Nat] /\ served \subseteq Feature \X Role
  /\ consumed \in [Role -> [Weeks -> Nat]]
  /\ phaseStart \in [Feature -> Nat \cup {None}]
  /\ bars \in [Feature -> Seq([start : Nat, done : Nat])]

(* No week is given more effort than its capacity, although a step whose   *)
(* time is a hair low is booked on the week before.                        *)
WeeklyBudget ==
  \A r \in Role, w \in Weeks : consumed[r][w] <= StepsPerWeek * work.capacity[r][w]

(* The sum of F: there are F[x] units for each x.                          *)
Units(F) == UNION {{x} \X (1 .. F[x]) : x \in DOMAIN F}
Total(F) == Cardinality(Units(F))

(* What a feature asks of a role in all, and what it still asks.           *)
AskedBy(f, r, N) == Total([n \in N |-> Phases(f)[n].demand[r]])

Asked(f, r) == AskedBy(f, r, DOMAIN Phases(f))

Later(f) == {n \in DOMAIN Phases(f) : n > idx[f]}

Left(f, r) ==
  IF simDone[f] # None THEN 0 ELSE remaining[f][r] + AskedBy(f, r, Later(f))

(* Effort is neither lost nor made: what the weeks were given and what     *)
(* remains is what the stories ask for.                                    *)
EffortKept ==
  stage # "place" =>
  \A r \in Role :
    Total(consumed[r]) + Total([f \in AutoFeatures |-> Left(f, r)])
      = Total([f \in AutoFeatures |-> Asked(f, r)])

(* The stories of a feature come one after another, between its start and  *)
(* its end.                                                                *)
StoriesInOrder ==
  \A f \in Feature :
    /\ \A n \in DOMAIN bars[f] :
         /\ (IF n = 1 THEN simStart[f] ELSE bars[f][n - 1].done) <= bars[f][n].start
         /\ bars[f][n].start < bars[f][n].done
    /\ simDone[f] # None /\ ~ Pinned(project, f) =>
         Len(bars[f]) = Len(Phases(f)) /\ (bars[f] # <<>> => bars[f][Len(bars[f])].done = simDone[f])

(* What is written keeps pins and the end of each feature after its start, *)
(* and a feature the simulation finished starts after everything it waits  *)
(* for, pinned or not.                                                     *)
WrittenInOrder ==
  stage = "written" =>
    \A f \in Feature :
      /\ start[f] < finish[f]
      /\ Pinned(project, f) => /\ start[f] = project.pin[f]
                               /\ finish[f] = start[f] + project.stored[f]
      /\ ~ Pinned(project, f) /\ simDone[f] # None =>
           \A g \in Before(project, f) : finish[g] <= start[f]

(* What the simulation and its result keep at every step: budgets, and the  *)
(* order of stories and features.                                           *)
LevelledSound == LevelTypeOK /\ WeeklyBudget /\ StoriesInOrder /\ WrittenInOrder

(* The call comes to an end: with a schedule, or by throwing.              *)
LevellingEnds == <>(stage \in {"written", "failed"})

(* The simulation keeps the promise to every unpinned feature, whatever    *)
(* the graph: features that wait for themselves never begin.               *)
SimulationPromise ==
  INSTANCE SchedulePromise
  WITH waits <- {e \in Edges(project) : ~ Pinned(project, e[2])},
       begun <- simStart, ended <- simDone

SimulationImplementsPromise == SimulationPromise!Spec
=============================================================================
