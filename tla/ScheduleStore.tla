--------------------------- MODULE ScheduleStore ---------------------------
(***************************************************************************)
(* The stored schedule of one project: a timeline row per feature and per  *)
(* story, which is either a manual override (a pin) or the place some      *)
(* computed schedule gave it, and the cache of weekly demand that the      *)
(* histogram and the exports read.                                         *)
(*                                                                         *)
(* Six handlers compute a schedule or write pins: POST /timeline/schedule  *)
(* (scheduleProject.ts), POST /timeline/level, the pin and unpin routes    *)
(* (timeline.ts), optimiser apply (optimiserApplyService.ts) and Squad     *)
(* Planner apply (squadPlan.ts).  A handler is a sequence of statements,   *)
(* and those of other requests may come between any two of them; a         *)
(* database transaction is one statement here.                             *)
(*                                                                         *)
(* A schedule is known by the request that computed it.  Weeks, the        *)
(* snapshots taken on the way, headcounts and Epic/Feature.timelineStart-  *)
(* Week are left out; a story is not tied to its feature, so the deletion  *)
(* of a feature with its stories is several deletions.                     *)
(***************************************************************************)
EXTENDS Naturals

CONSTANTS Feature, Story,  \* ids of what can have a timeline row
          Value,           \* the places a user pins something to
          MaxRequest,      \* bound: requests in one behaviour
          None             \* no row

Item == Feature \cup Story
Request == 1..MaxRequest
Past == 0   \* the computation of what is stored at first

(* Kinds of requests that run the scheduler, and those that write pins.    *)
Planner == {"schedule", "level", "optimise", "squad"}
Pinner == {"pin", "unpin", "clearPins"}

Row == [kind : {"auto"}, of : Request \cup {Past}] \cup [kind : {"manual"}, of : Value]
Placed(r) == [kind |-> "auto", of |-> r]
Manual(v) == [kind |-> "manual", of |-> v]

(* What a computation has read and found: the pins it respects, the items  *)
(* it places itself, the inactive features it cleans up.                   *)
Plan == [pins : UNION {[S -> Value] : S \in SUBSET Item},
         placed : SUBSET Item, inactive : SUBSET Feature]

(* The demand cache, known by the computation it is from and what that     *)
(* placed with which pins.                                                 *)
Cache == [by : Request \cup {Past}, placed : SUBSET Item, pins : UNION {[S -> Value] : S \in SUBSET Item}]

Control == {"unborn", "begun", "computed", "written",
            "half", "otherHalf", "done", "failed"}

(* What a request asks for; a finished one has no state left, and of one   *)
(* that failed half-way it is remembered.                                  *)
Op == [kind : Planner \cup {"draft", "clearPins"}, item : {None}, value : {None}]
      \cup [kind : {"unpin"}, item : Item, value : {None}]
      \cup [kind : {"pin"}, item : Item, value : Value]

ASSUME StoreAssumption ==
  /\ MaxRequest \in Nat
  /\ Feature \cap Story = {}
  /\ None \notin Row /\ None \notin Plan /\ None \notin Item /\ None \notin Cache

VARIABLES planning,  \* Project.planningState
          status,    \* Epic/Feature/UserStory.isActive; deleted items are gone
          row,       \* TimelineEntry, StoryTimelineEntry
          cache,     \* Project.weeklyDemandCache; None is empty or null
          op,        \* what a request asks for
          pc,        \* how far its handler is
          plan,      \* what its handler has computed
          seen,      \* the project state a reviewed draft was generated from
          overlapped \* history: requests that another one, or a reset, overlapped

project == <<planning, status, row, cache>>
vars == <<planning, status, row, cache, op, pc, plan, seen, overlapped>>

InFlight == {r \in Request : pc[r] \notin {"unborn", "done", "failed"}}
Pinned(i) == row[i] # None /\ row[i].kind = "manual"
AutoRow(i) == row[i] # None /\ row[i].kind = "auto"
Active == {i \in Item : status[i] = "active"}

TypeOK ==
  /\ planning \in {"CURRENT", "NEEDS_REPLAN"}
  /\ status \in [Item -> {"active", "inactive", "gone"}]
  /\ row \in [Item -> Row \cup {None}]
  /\ cache \in Cache \cup {None}
  /\ op \in [Request -> Op \cup {None}]
  /\ pc \in [Request -> Control]
  /\ plan \in [Request -> Plan \cup {None}]
  /\ overlapped \subseteq Request

----------------------------------------------------------------------------
(* Admission and computation.                                              *)

(* assertPlanningCurrent, which Squad Planner's routes do not call.  A pin *)
(* needs an item that exists; everything else needs only the project.      *)
Admitted(o) ==
  /\ o.kind \notin {"squad", "draft"} => planning = "CURRENT"
  /\ o.kind = "pin" => status[o.item] # "gone"

Begin(r, o) ==
  /\ pc[r] = "unborn"
  /\ \A q \in Request : q < r => pc[q] # "unborn"
  /\ Admitted(o)
  /\ op' = [op EXCEPT ![r] = o]
  /\ pc' = [pc EXCEPT ![r] = "begun"]
  /\ seen' = [seen EXCEPT ![r] = IF o.kind = "draft" THEN project ELSE None]
  /\ overlapped' = overlapped \cup InFlight \cup (IF InFlight = {} THEN {} ELSE {r})
  /\ UNCHANGED <<planning, status, row, cache, plan>>

(* The next statement, which needs nothing of what was computed; the end   *)
(* of the handler; the end of its computation.                             *)
Goes(r, c) ==
  /\ pc' = [pc EXCEPT ![r] = c]
  /\ plan' = [plan EXCEPT ![r] = None]
  /\ UNCHANGED <<planning, status, op, seen, overlapped>>

Ends(r) ==
  /\ pc' = [pc EXCEPT ![r] = "done"]
  /\ op' = [op EXCEPT ![r] = None]
  /\ plan' = [plan EXCEPT ![r] = None]
  /\ seen' = [seen EXCEPT ![r] = None]
  /\ UNCHANGED <<planning, status, overlapped>>

Computes(r, p) ==
  /\ pc' = [pc EXCEPT ![r] = "computed"]
  /\ plan' = [plan EXCEPT ![r] = p]
  /\ UNCHANGED <<project, op, seen, overlapped>>

At(r, c, kinds) == pc[r] = c /\ op[r].kind \in kinds

(* The manual overrides of what is scheduled at all.                       *)
ReadPins == [i \in {j \in Active : Pinned(j)} |-> row[i].of]

PlanWith(pins) ==
  [pins |-> pins, placed |-> Active \ DOMAIN pins, inactive |-> {}]

(* Only POST /timeline/schedule cleans up after inactive features.         *)
Cleaning(p, kind) ==
  [p EXCEPT !.inactive = IF kind = "schedule" THEN {f \in Feature : status[f] = "inactive"} ELSE {}]

(* Loading the backlog, the capacity and the overrides, and running the    *)
(* scheduler (or the SA planner) on them.                                  *)
Compute(r) ==
  /\ At(r, "begun", {"schedule", "level", "squad"})
  /\ Computes(r, Cleaning(PlanWith(ReadPins), op[r].kind))

(* Squad Planner's generation: the pins are those of the draft, and the    *)
(* state must be the one the generation began with.                        *)
Generate(r, pins) ==
  /\ At(r, "begun", {"draft"})
  /\ seen[r] = project
  /\ DOMAIN pins \subseteq Active
  /\ Computes(r, PlanWith(pins))

(* An error answer: capacity that cannot be resolved, a scheduler that     *)
(* throws, an infeasible plan, a refused preflight, a serialization        *)
(* conflict.  Nothing has been written yet.                                *)
Refuse(r) ==
  /\ \E c \in {"begun", "computed"} : At(r, c, Planner \cup {"draft"})
  /\ Ends(r)
  /\ UNCHANGED <<row, cache>>

----------------------------------------------------------------------------
(* Writing a schedule.                                                     *)

(* The rows a statement refers to must exist, or the foreign key (or the   *)
(* update of a start week) fails and the transaction leaves nothing.       *)
Needed(r) ==
  CASE op[r].kind = "schedule" -> plan[r].placed \cup DOMAIN plan[r].pins
    [] op[r].kind = "level" -> plan[r].placed \cup (DOMAIN plan[r].pins \cap Feature)
    [] OTHER -> plan[r].placed

Writable(r) == \A i \in Needed(r) : status[i] # "gone"

CacheOf(r) == [by |-> r, placed |-> plan[r].placed, pins |-> plan[r].pins]

(* The upserts of scheduleProject: rows of inactive features go, what was  *)
(* placed is written over whatever is there, what was pinned is left as it *)
(* is, or created again if it has gone meanwhile.                          *)
UpsertedRows(r) ==
  [i \in Item |->
     IF i \in plan[r].inactive THEN None
     ELSE IF i \in plan[r].placed THEN Placed(r)
     ELSE IF i \in DOMAIN plan[r].pins /\ row[i] = None
          THEN Manual(plan[r].pins[i])
     ELSE row[i]]

(* The whole transaction, with the cache in it.                            *)
CommitSchedule(r) ==
  /\ At(r, "computed", {"schedule"})
  /\ IF Writable(r) THEN row' = UpsertedRows(r) /\ cache' = CacheOf(r)
                    ELSE UNCHANGED <<row, cache>>
  /\ Ends(r)

(* Mutant: deleteMany without isManual: false.                             *)
ReplacedAllRows(r, placed) ==
  [i \in Item |-> IF i \in placed THEN Placed(r) ELSE None]

(* deleteMany of the automatic rows, createMany that skips what is there.  *)
ReplacedRows(r, placed) ==
  [i \in Item |-> IF Pinned(i) THEN row[i]
                  ELSE IF i \in placed THEN Placed(r) ELSE None]

(* POST /timeline/level: the start weeks, the rows in a transaction, and   *)
(* then the cache in a statement of its own.                               *)
ReplaceLevelled(r) ==
  /\ At(r, "computed", {"level"})
  /\ UNCHANGED cache
  /\ \/ /\ Writable(r)
        /\ row' = ReplacedRows(r, plan[r].placed)
        /\ Goes(r, "written")
     \/ /\ ~Writable(r)
        /\ UNCHANGED row
        /\ Ends(r)

(* Optimiser apply reads, computes, writes and clears the cache in one     *)
(* Serializable transaction.                                               *)
ApplyOptimiser(r) ==
  /\ At(r, "begun", {"optimise"})
  /\ row' = ReplacedRows(r, PlanWith(ReadPins).placed)
  /\ cache' = None
  /\ Ends(r)

(* Squad Planner apply without a draft: rows and cache computed before the *)
(* transaction, written in it.                                             *)
CommitSquad(r) ==
  /\ At(r, "computed", {"squad"})
  /\ IF Writable(r)
     THEN row' = ReplacedRows(r, plan[r].placed) /\ cache' = CacheOf(r)
     ELSE UNCHANGED <<row, cache>>
  /\ Ends(r)

(* Squad Planner apply of a reviewed draft: the state must be the one it   *)
(* was generated from; all rows are replaced, pins included.               *)
CommitDraft(r) ==
  /\ At(r, "computed", {"draft"})
  /\ IF seen[r] = project
     THEN /\ row' = [i \in Item |->
                       IF i \in plan[r].placed THEN Placed(r)
                       ELSE IF i \in DOMAIN plan[r].pins THEN Manual(plan[r].pins[i])
                       ELSE None]
          /\ cache' = CacheOf(r)
     ELSE UNCHANGED <<row, cache>>
  /\ Ends(r)

----------------------------------------------------------------------------
(* Pins.  Each statement commits by itself.                                *)

Exists(r) == status[op[r].item] # "gone"
PinnedRow(r) == [row EXCEPT ![op[r].item] = Manual(op[r].value)]

(* PUT of a story's override upserts and then clears the cache ...         *)
PinStory(r) ==
  /\ At(r, "begun", {"pin"}) /\ op[r].item \in Story
  /\ UNCHANGED cache
  /\ \/ Exists(r) /\ row' = PinnedRow(r) /\ Goes(r, "written")
     \/ ~Exists(r) /\ UNCHANGED row /\ Ends(r)

(* ... PUT of a feature's override clears the cache and then upserts.      *)
ClearForPin(r) ==
  /\ At(r, "begun", {"pin"}) /\ op[r].item \in Feature
  /\ cache' = None
  /\ Goes(r, "half")
  /\ UNCHANGED row

PinFeature(r) ==
  /\ At(r, "half", {"pin"})
  /\ row' = IF Exists(r) THEN PinnedRow(r) ELSE row
  /\ Ends(r)
  /\ UNCHANGED cache

(* DELETE of one override removes the row, an override or not.             *)
Unpin(r) ==
  /\ At(r, "begun", {"unpin"})
  /\ row' = [row EXCEPT ![op[r].item] = None]
  /\ Goes(r, "written")
  /\ UNCHANGED cache

(* DELETE /timeline: two deleteMany at once, in either order.              *)
WithoutPins(S) == [i \in Item |-> IF i \in S /\ Pinned(i) THEN None ELSE row[i]]

ClearFeaturePins(r) ==
  /\ \/ At(r, "begun", {"clearPins"}) /\ Goes(r, "half")
     \/ At(r, "otherHalf", {"clearPins"}) /\ Goes(r, "written")
  /\ row' = WithoutPins(Feature)
  /\ UNCHANGED cache

ClearStoryPins(r) ==
  /\ \/ At(r, "begun", {"clearPins"}) /\ Goes(r, "otherHalf")
     \/ At(r, "half", {"clearPins"}) /\ Goes(r, "written")
  /\ row' = WithoutPins(Story)
  /\ UNCHANGED cache

(* Mutant: levelling leaves the cache alone.                               *)
ClearUnlessLevelled(r) ==
  /\ pc[r] = "written"
  /\ cache' = IF op[r].kind = "level" THEN cache ELSE None
  /\ Ends(r)
  /\ UNCHANGED row

(* project.update of weeklyDemandCache to {}.                              *)
ClearCache(r) ==
  /\ pc[r] = "written"
  /\ cache' = None
  /\ Ends(r)
  /\ UNCHANGED row

(* Between two statements of a handler the database is lost or the server  *)
(* stops, or the next statement fails.  What is committed stays: rows or   *)
(* pins that the stored cache does not know.                               *)
FailHalfWay(r) ==
  /\ pc[r] \in {"written", "half", "otherHalf"}
  /\ Goes(r, "failed")
  /\ UNCHANGED <<row, cache>>

----------------------------------------------------------------------------
(* What the rest of the program does to these rows.                        *)

Elsewhere == UNCHANGED <<op, pc, plan, seen>>

(* PUT of an epic, a feature or a story with isActive.                     *)
SetActive(i, s) ==
  /\ status[i] \notin {"gone", s}
  /\ s \in {"active", "inactive"}
  /\ status' = [status EXCEPT ![i] = s]
  /\ Elsewhere
  /\ UNCHANGED <<planning, row, cache, overlapped>>

(* DELETE of a feature or story; its row goes with it.                     *)
Delete(i) ==
  /\ status[i] # "gone"
  /\ status' = [status EXCEPT ![i] = "gone"]
  /\ row' = [row EXCEPT ![i] = None]
  /\ Elsewhere
  /\ UNCHANGED <<planning, cache, overlapped>>

(* Edits of roles, people and profiles, and of the backlog grid.           *)
InvalidateDemand ==
  /\ cache # None
  /\ cache' = None
  /\ Elsewhere
  /\ UNCHANGED <<planning, status, row, overlapped>>

(* resetProjectPlanning: all rows, the cache.                              *)
ResetPlanning ==
  /\ row' = [i \in Item |-> None]
  /\ cache' = None
  /\ planning' = "NEEDS_REPLAN"
  /\ overlapped' = overlapped \cup InFlight
  /\ Elsewhere
  /\ UNCHANGED status

(* completeReplanning, once it has no findings.                            *)
CompleteReplanning ==
  /\ planning = "NEEDS_REPLAN"
  /\ planning' = "CURRENT"
  /\ Elsewhere
  /\ UNCHANGED <<status, row, cache, overlapped>>

----------------------------------------------------------------------------
(* Nothing is scheduled yet, or everything around some pins; levelling and *)
(* later edits leave no cache of it.                                       *)
InitStored ==
  \/ row = [i \in Item |-> None] /\ cache = None
  \/ \E S \in SUBSET Item : \E pins \in [S -> Value] :
       /\ row = [i \in Item |-> IF i \in S THEN Manual(pins[i]) ELSE Placed(Past)]
       /\ cache \in {None, [by |-> Past, placed |-> Item \ S, pins |-> pins]}

Init ==
  /\ planning = "CURRENT"
  /\ status = [i \in Item |-> "active"]
  /\ InitStored
  /\ op = [r \in Request |-> None]
  /\ pc = [r \in Request |-> "unborn"]
  /\ plan = [r \in Request |-> None]
  /\ seen = [r \in Request |-> None]
  /\ overlapped = {}

Statement(r) ==
  \/ \E o \in Op : Begin(r, o)
  \/ Compute(r)
  \/ \E S \in SUBSET Active : \E pins \in [S -> Value] : Generate(r, pins)
  \/ Refuse(r)
  \/ CommitSchedule(r) \/ ReplaceLevelled(r) \/ ApplyOptimiser(r)
  \/ CommitSquad(r) \/ CommitDraft(r)
  \/ PinStory(r) \/ ClearForPin(r) \/ PinFeature(r)
  \/ Unpin(r) \/ ClearFeaturePins(r) \/ ClearStoryPins(r)
  \/ ClearCache(r) \/ FailHalfWay(r)

OtherWriters ==
  \/ \E i \in Item : Delete(i) \/ \E s \in {"active", "inactive"} : SetActive(i, s)
  \/ InvalidateDemand \/ ResetPlanning \/ CompleteReplanning

Next == (\E r \in Request : Statement(r)) \/ OtherWriters

Spec == Init /\ [][Next]_vars

----------------------------------------------------------------------------
(* Properties.                                                             *)

(* A cache that is not empty and the automatic rows come from the same     *)
(* computation, as far as that computation placed things, or else the rows *)
(* are of a levelling that has not cleared the cache yet, or failed before *)
(* it could: whatever the interleaving, the histogram shows the demand of  *)
(* the schedule in the Gantt chart, but for that one gap                   *)
(* ("clear cached demand", timeline.ts).                                   *)
Unsettled(r) == r \in Request /\ pc[r] \in {"written", "failed"}

CacheOfRows ==
  cache # None =>
    \A i \in cache.placed :
      AutoRow(i) => row[i].of = cache.by \/ Unsettled(row[i].of)

(* A request that began after the cache was computed has written the pin   *)
(* of i, and has not cleared the cache, or failed before it could.         *)
PinUnsettled(q, i) ==
  /\ q > cache.by
  /\ pc[q] \in {"written", "half", "otherHalf", "failed"}
  /\ op[q].kind = "clearPins" \/ op[q].item = i

(* A cache that is not empty, from a request that nobody overlapped, was   *)
(* computed with exactly the pins that are stored now, of everything it    *)
(* knew: whatever overlapped or failed half-way before, the next schedule  *)
(* repairs, and afterwards only pins whose request has not cleared the     *)
(* cache differ.                                                           *)
CacheKnowsPins ==
  cache # None /\ cache.by \notin overlapped =>
    \A i \in cache.placed \cup DOMAIN cache.pins :
      \/ status[i] = "gone"
      \/ \E q \in Request : PinUnsettled(q, i)
      \/ IF i \in DOMAIN cache.pins
         THEN row[i] = Manual(cache.pins[i])
         ELSE ~Pinned(i)

(* The stored schedule is sound: rows and cache have their types and belong *)
(* to things that exist, the cache shows the demand of the rows, and it     *)
(* knows the pins.                                                          *)
CacheSound == TypeOK /\ CacheOfRows /\ CacheKnowsPins

(* Handlers that compute a schedule from the stored pins leave the pin of  *)
(* something active alone, however they overlap with what sets pins,       *)
(* switches items off and on, resets or computes.  One does not:           *)
(* scheduling takes a pin that it did not find when it read them, because  *)
(* an overlapping request set it since, or because the feature was         *)
(* switched off then and on again since.  "manual rows keep their pinned   *)
(* values" (scheduleProject.ts) is without that exception.                 *)
KeepsPins ==
  \A r \in InFlight : pc'[r] # pc[r] /\ op[r].kind \in Planner =>
    \A i \in Active :
      Pinned(i) /\ row'[i] # row[i] =>
        /\ op[r].kind = "schedule"
        /\ i \notin DOMAIN plan[r].pins
        /\ r \in overlapped \/ i \in plan[r].inactive

PinsSurvive == [][KeepsPins]_vars
=============================================================================
