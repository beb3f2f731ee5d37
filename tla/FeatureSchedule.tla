-------------------------- MODULE FeatureSchedule --------------------------
(***************************************************************************)
(* The start weeks of features without resource levelling: the first half  *)
(* of runScheduler.  Features are taken from a queue in topological order  *)
(* and placed at the end of what they wait for; the ones a cycle keeps out *)
(* of the queue are placed afterwards, behind the earlier epics.           *)
(***************************************************************************)
EXTENDS ScheduleGraph

VARIABLES project,   \* the input
          queue,     \* features with nothing left to wait for
          inDegree,  \* how many unplaced features each one waits for
          start, finish,
          sorted     \* the features taken from the queue

vars == <<project, queue, inDegree, start, finish, sorted>>

Placed == {f \in Feature : start[f] # None}
Done == queue = {} /\ Placed = Feature

(* An unplaced feature keeps nobody waiting.                               *)
End(f) == IF finish[f] = None THEN 0 ELSE finish[f]

(* Mutant: the last step is not counted.                                   *)
InclusiveLength(f) == project.duration[f] - 1

Length(f) == project.duration[f]

(* The latest of some bounds is where f starts.                            *)
Place(f, Bounds) ==
  \E s \in Bounds :
    /\ \A b \in Bounds : b <= s
    /\ start' = [start EXCEPT ![f] = s]
    /\ finish' = [finish EXCEPT ![f] = s + Length(f)]

Init ==
  /\ project \in Project
  /\ inDegree = [f \in Feature |-> Cardinality(Before(project, f))]
  /\ queue = {f \in Feature : Before(project, f) = {}}
  /\ start = [f \in Feature |-> None]
  /\ finish = [f \in Feature |-> None]
  /\ sorted = {}

(* Placing f leaves g with nothing to wait for.                            *)
Ready(f, g) == Edge(project, f, g) /\ inDegree[g] = 1

Pop(f) == queue \ {f}

(* The sort takes the feature with the smallest priority.                  *)
Sort(f) ==
  /\ f \in queue /\ \A g \in queue : f <= g
  /\ Place(f, IF Pinned(project, f) THEN {project.pin[f]}
              ELSE {Base(project, f)} \cup {End(g) : g \in Before(project, f)})
  /\ inDegree' = [g \in Feature |-> IF Edge(project, f, g)
                                    THEN inDegree[g] - 1 ELSE inDegree[g]]
  /\ queue' = Pop(f) \cup {g \in Feature : Ready(f, g)}
  /\ sorted' = sorted \cup {f}
  /\ UNCHANGED project

(* Mutant: only the epic just before counts.                               *)
NeighbourEpic(f, g) == Previous(project.epicOf[g], project.epicOf[f])

EarlierEpic(f, g) == project.epicOf[g] < project.epicOf[f]

(* Mutant: pinned features are left to the pins.                           *)
NextUnpinned(f) ==
  /\ f \notin Placed /\ \A g \in Feature \ Placed : f <= g
  /\ ~ Pinned(project, f)

NextLeft(f) == f \notin Placed /\ \A g \in Feature \ Placed : f <= g

(* Features no order was found for, in the order of the backlog.  Neither  *)
(* what they wait for nor a pin counts any more.                           *)
Fallback(f) ==
  /\ queue = {}
  /\ NextLeft(f)
  /\ Place(f, {Base(project, f)} \cup {End(g) : g \in {h \in Placed : EarlierEpic(f, h)}})
  /\ UNCHANGED <<project, queue, inDegree, sorted>>

Next == \E f \in Feature : Sort(f) \/ Fallback(f)

Spec == Init /\ [][Next]_vars

(* runScheduler is one synchronous call.                                   *)
FairSpec == Spec /\ WF_vars(Next)

----------------------------------------------------------------------------
TypeOK ==
  /\ project \in Project
  /\ inDegree \in [Feature -> Nat]
  /\ start \in [Feature -> Nat \cup {None}]
  /\ finish \in [Feature -> Nat \cup {None}]
  /\ sorted \subseteq Placed
  /\ queue \subseteq Feature \ Placed

(* A feature taken from the queue starts after everything it waits for,    *)
(* which left the queue before it; a pinned one starts at its pin.         *)
SortedInOrder ==
  \A f \in sorted :
    IF Pinned(project, f) THEN start[f] = project.pin[f]
    ELSE \A g \in Before(project, f) : g \in sorted /\ finish[g] <= start[f]

(* The fallback only gets features on a cycle or behind one: each of them  *)
(* waits for another of them.                                              *)
LeftoverWaits ==
  queue = {} =>
    \A f \in Feature \ sorted : \E g \in Feature \ sorted : g \in Before(project, f)

(* In a project whose waiting graph has no cycle, features wait for the    *)
(* features and epics they depend on, and pins are kept: "Feature          *)
(* dependencies ensure a feature cannot start before all its dependencies  *)
(* complete" (FUNCTIONAL_SPEC.md).                                         *)
DependenciesHold ==
  Done /\ Acyclic(Edges(project)) =>
    \A f, g \in Feature :
      IF Pinned(project, f) THEN start[f] = project.pin[f]
      ELSE \/ <<f, g>> \in project.deps
           \/ <<project.epicOf[f], project.epicOf[g]>> \in project.epicDeps
           => finish[g] <= start[f]

(* What the fallback places comes after everything in the earlier epics.   *)
FallbackAfterEarlierEpics ==
  Done => \A f \in Feature \ sorted, g \in Feature :
            project.epicOf[g] < project.epicOf[f] => finish[g] <= start[f]

(* What a placement promises its readers, as far as it got: the queue keeps *)
(* every edge, what it never gets is caught in a cycle, dependencies hold   *)
(* where there is none, and the fallback respects the order of the epics.   *)
PlacementSound ==
  /\ TypeOK /\ SortedInOrder /\ LeftoverWaits
  /\ DependenciesHold /\ FallbackAfterEarlierEpics

(* Every feature gets a place, on any graph.                               *)
AllPlaced == <>Done

(* The schedule keeps the promise: to all unpinned features when nothing   *)
(* waits for itself; otherwise it promises no more than a place each.      *)
Waits == IF Acyclic(Edges(project)) THEN {e \in Edges(project) : ~ Pinned(project, e[2])}
         ELSE {}

Promise == INSTANCE SchedulePromise WITH waits <- Waits, begun <- start, ended <- finish

ImplementsPromise == Promise!Spec
=============================================================================
