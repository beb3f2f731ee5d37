--------------------------- MODULE PlanActivation ---------------------------
(***************************************************************************)
(* How a squad plan gets from a reviewed draft into the database           *)
(* (routes/squadPlan.ts, lib/squadPlanDraft.ts).                           *)
(*                                                                         *)
(* POST /squad-plan computes a draft and signs a proof of the planning     *)
(* state it was computed from.  POST /squad-plan/apply checks the proof,   *)
(* checks for conflicts, takes a snapshot to undo with, computes the       *)
(* timeline, and writes everything in a Serializable transaction that it   *)
(* tries again a few times; what fails cleanly takes its snapshot with it. *)
(* Anything else may happen between two statements: other requests,        *)
(* edits, a reset, a rollback, the end of the process.                     *)
(*                                                                         *)
(* The proof names the planning state by a hash of its contents.  Roles,   *)
(* people, profiles, settings and pins are hashed without their times, so  *)
(* what is edited and edited back is the same state again.  What the plan  *)
(* does to profiles and rows is in CapacityOwnership and ScheduleStore.    *)
(***************************************************************************)
EXTENDS Naturals, Sequences, FiniteSets, SequencesExt

CONSTANTS MaxRequest,  \* bound: requests in one behaviour
          MaxState,    \* bound: commits that change the planning state
          MaxRetries,  \* MAX_SERIALIZATION_RETRIES
          Keep,        \* snapshots that pruneSnapshots leaves
          Content,     \* what a planning state says, its plans aside
          Initial,     \* the contents at first
          Protected,   \* those with an owner in a plan's way that is not its own
          None

Request == 1..MaxRequest
State == 0..MaxState

ASSUME ActivationAssumption ==
  /\ MaxRequest \in Nat /\ MaxState \in Nat /\ MaxRetries \in Nat
  /\ Keep \in Nat \ {0}
  /\ Initial \in Content
  /\ None \notin Request

VARIABLES state,      \* commits so far
          past,       \* the planning state after each of them, the present one last
          origin,     \* history: what a plan was committed with
          snapshots,  \* BacklogSnapshot, oldest first
          pc,         \* how far a request's handler is
          job,        \* its request and its local variables
          swaps,      \* last commit that replaced the active plan
          reviews     \* last commit that had read everything

vars == <<state, past, origin, snapshots, pc, job, swaps, reviews>>
project == <<state, past, origin, swaps, reviews>>

(* CapacityPlan, by id: what is stored and what of it is active.  A plan   *)
(* has the id of the request that created it.                              *)
Plans == [stored : SUBSET Request, active : SUBSET Request]

(* What planningStateFingerprint hashes, and what a proof binds.           *)
Fingerprint == [content : Content, plans : Plans]

Now == past[state]

(* buildSnapshot reads its tables by queries of their own: outside a       *)
(* transaction the contents may be of one moment, the plans of another.    *)
ReadBetween(first, last) ==
  {[content |-> past[i].content, plans |-> past[k].plans] : i, k \in first..last}

(* A commit that changes the planning state.                               *)
Moves(content, plans) ==
  /\ state < MaxState
  /\ state' = state + 1
  /\ past' = [past EXCEPT ![state + 1] = [content |-> content, plans |-> plans]]

Origin == [proof : Fingerprint \cup {None}, began : State, base : State]

Ended == {"done", "refused", "failed"}
Control == {"unborn", "begun", "verified", "checked", "ready", "open", "conflict", "applied"} \cup Ended

InFlight == {r \in Request : pc[r] \notin {"unborn"} \cup Ended}

TypeOK ==
  /\ {state, swaps, reviews} \subseteq State
  /\ past \in [State -> Fingerprint]
  /\ origin \in [Request -> Origin]
  /\ \A i \in DOMAIN snapshots :
       snapshots[i].by \in Request \cup {None} /\ snapshots[i].saved \in Fingerprint
  /\ pc \in [Request -> Control]
  /\ \A r \in InFlight : job[r].proof \in Fingerprint \cup {None} /\ job[r].tries \in 0..MaxRetries

----------------------------------------------------------------------------
(* Requests.                                                               *)

Fresh == [setActive |-> FALSE, proof |-> None, began |-> 0, seen |-> 0, tries |-> 0]

Goes(r, c) == pc' = [pc EXCEPT ![r] = c]

(* Generation reads, plans, and signs the state it read if it reads it     *)
(* again at the end and the plan delivers.  What a client holds may have   *)
(* been signed at any time.                                                *)
Signed == ReadBetween(0, state)

(* A reviewed apply carries a token, and the draft, schedule, config,      *)
(* periods and figures it was signed with; a legacy apply carries none.    *)
Begin(r, setActive, proof) ==
  /\ pc[r] = "unborn"
  /\ \A q \in Request : q < r => pc[q] # "unborn"
  /\ Goes(r, "begun")
  /\ job' = [job EXCEPT ![r].setActive = setActive, ![r].proof = proof, ![r].began = state]
  /\ UNCHANGED <<project, snapshots>>

(* The transaction or the request is over: what it knew is forgotten.      *)
Over(r, c) == Goes(r, c) /\ job' = [job EXCEPT ![r] = Fresh]

----------------------------------------------------------------------------
(* Apply, up to its transaction.                                           *)

(* The proof's state against the present one, which is read in pieces      *)
(* since the request began.                                                *)
VerifyProof(r) ==
  /\ pc[r] = "begun"
  /\ job[r].proof # None => job[r].proof \in ReadBetween(job[r].began, state)
  /\ Goes(r, "verified")
  /\ job' = [job EXCEPT ![r].seen = state]
  /\ UNCHANGED <<project, snapshots>>

(* capturePlannerAuthority and conflictPreflightCheck; a plan that is only *)
(* stored needs neither, nor the snapshot and the timeline.                *)
Preflight(r) ==
  /\ pc[r] = "verified"
  /\ IF job[r].setActive THEN Now.content \notin Protected /\ Goes(r, "checked")
                         ELSE Goes(r, "ready")
  /\ UNCHANGED <<project, snapshots, job>>

(* An invalid body, a proof that has expired or does not fit it, a state   *)
(* that has moved, a conflict: an error answer, and nothing is written.    *)
Refuse(r) ==
  /\ pc[r] = "begun" \/ pc[r] = "verified"
  /\ Over(r, "refused")
  /\ UNCHANGED <<project, snapshots>>

(* The snapshot, read in pieces after the checks, and then the timeline,   *)
(* which is computed once, before the first attempt.                       *)
TakeSnapshot(r) ==
  /\ pc[r] = "checked"
  /\ Goes(r, "ready")
  /\ \E read \in ReadBetween(job[r].seen, state) :
       snapshots' = Append(snapshots, [by |-> r, saved |-> read])
  /\ UNCHANGED <<project, job>>

(* An unexpected error answers 500 and leaves the snapshot, and so does    *)
(* the end of the process.                                                 *)
Fail(r) ==
  /\ pc[r] \in {"ready", "open", "conflict", "applied"}
  /\ Over(r, "failed")
  /\ UNCHANGED <<project, snapshots>>

----------------------------------------------------------------------------
(* The transaction.  It reads the state as of its first statement.         *)

Open(r) ==
  /\ pc[r] = "ready"
  /\ Goes(r, "open")
  /\ job' = [job EXCEPT ![r].seen = state]
  /\ UNCHANGED <<project, snapshots>>

(* Mutant: the state is not looked at again inside the transaction.        *)
StillReviewedUnchecked(r) == TRUE

(* planningStateFingerprint of the transaction's own reads.                *)
StillReviewed(r) == job[r].proof # None => job[r].proof = past[job[r].seen]

(* revalidatePlannerPlan, on the authority captured in the transaction.    *)
StillSound(r) == job[r].setActive => past[job[r].seen].content \notin Protected

(* DraftProofConflictError, PlannerConflictError.                          *)
Conflict(r) ==
  /\ pc[r] = "open"
  /\ ~(StillReviewed(r) /\ StillSound(r))
  /\ Over(r, "conflict")
  /\ UNCHANGED <<project, snapshots>>

(* Mutant: without the isolation level.                                    *)
SerializableReadCommitted(r) == TRUE

(* What PostgreSQL promises: of two Serializable transactions that each    *)
(* read what the other writes, or of one and a reset or rollback that      *)
(* writes the rows it writes, the later one does not commit.  A proof is   *)
(* checked by reading everything; an activation reads and writes the       *)
(* active plan.  An ordinary edit runs under READ COMMITTED and is not     *)
(* noticed unless it writes a row this transaction writes.                 *)
Serializable(r) ==
  /\ job[r].setActive => swaps <= job[r].seen
  /\ job[r].proof # None => reviews <= job[r].seen

(* The plans the transaction sees active are deactivated, and its own is   *)
(* added.                                                                  *)
PlansWith(r) ==
  [stored |-> Now.plans.stored \cup {r},
   active |-> IF job[r].setActive
              THEN (Now.plans.active \ past[job[r].seen].plans.active) \cup {r}
              ELSE Now.plans.active]

(* An activation writes profiles, rows and the cache too, its own.         *)
Commit(r) ==
  /\ pc[r] = "open"
  /\ StillReviewed(r) /\ StillSound(r) /\ Serializable(r)
  /\ \E content \in IF job[r].setActive THEN Content ELSE {Now.content} :
       /\ (content \in Protected) = (Now.content \in Protected)
       /\ Moves(content, PlansWith(r))
  /\ origin' = [origin EXCEPT ![r] =
                  [proof |-> job[r].proof, began |-> job[r].began, base |-> job[r].seen]]
  /\ swaps' = IF job[r].setActive THEN state' ELSE swaps
  /\ reviews' = IF job[r].proof # None THEN state' ELSE reviews
  /\ Over(r, IF job[r].setActive THEN "applied" ELSE "done")
  /\ UNCHANGED <<snapshots>>

(* Mutant: tries for ever.                                                 *)
SerializationFailureForever(r) ==
  /\ pc[r] = "open"
  /\ state # job[r].seen \/ \E q \in Request \ {r} : pc[q] = "open"
  /\ Goes(r, "ready")
  /\ UNCHANGED <<project, snapshots, job>>

(* A serialization failure tries again with the timeline it has; a clash   *)
(* of profile owners, or one failure too many, is a conflict.              *)
SerializationFailure(r) ==
  /\ pc[r] = "open"
  /\ state # job[r].seen \/ \E q \in Request \ {r} : pc[q] = "open"
  /\ \/ /\ job[r].tries < MaxRetries
        /\ Goes(r, "ready")
        /\ job' = [job EXCEPT ![r].tries = @ + 1]
     \/ Over(r, "conflict")
  /\ UNCHANGED <<project, snapshots>>

----------------------------------------------------------------------------
(* After the transaction.                                                  *)

(* Mutant: the answer is given without cleaning up.                        *)
CompensateNothing(r) ==
  /\ pc[r] = "conflict"
  /\ Over(r, "refused")
  /\ UNCHANGED <<project, snapshots>>

(* 409, after deleting the snapshot that was taken for nothing, unless     *)
(* somebody's pruning has.                                                 *)
Compensate(r) ==
  /\ pc[r] = "conflict"
  /\ \/ /\ \A i \in DOMAIN snapshots : snapshots[i].by # r
        /\ UNCHANGED snapshots
     \/ \E i \in DOMAIN snapshots :
          snapshots[i].by = r /\ snapshots' = RemoveAt(snapshots, i)
  /\ Over(r, "refused")
  /\ UNCHANGED project

Newest(s) == SubSeq(s, IF Len(s) > Keep THEN Len(s) - Keep + 1 ELSE 1, Len(s))

Prune(r) ==
  /\ pc[r] = "applied"
  /\ snapshots' = Newest(snapshots)
  /\ Over(r, "done")
  /\ UNCHANGED project

----------------------------------------------------------------------------
(* Other requests.                                                         *)

(* Whatever changes the planning state, possibly back to what it was, and  *)
(* possibly who owns what.                                                 *)
Edit ==
  /\ \E content \in Content \ {Now.content} : Moves(content, Now.plans)
  /\ UNCHANGED <<origin, snapshots, pc, job, swaps, reviews>>

(* resetProjectPlanning: the plans and every profile go.                   *)
Reset ==
  /\ Now.plans.stored # {}
  /\ \E content \in Content \ Protected : Moves(content, [stored |-> {}, active |-> {}])
  /\ swaps' = state'
  /\ UNCHANGED <<origin, snapshots, pc, job, reviews>>

(* Rollback: the plans of the snapshot, after one of the present state.    *)
(* The contents are those of the snapshot when it holds no epic: epics,    *)
(* features, stories and tasks come back under other ids.                  *)
Rollback(i) ==
  /\ \E content \in Content : Moves(content, snapshots[i].saved.plans)
  /\ swaps' = state'
  /\ snapshots' = Newest(Append(snapshots, [by |-> None, saved |-> Now]))
  /\ UNCHANGED <<origin, pc, job, reviews>>

----------------------------------------------------------------------------
NoPlans == [stored |-> {}, active |-> {}]

Init ==
  /\ state = 0 /\ swaps = 0 /\ reviews = 0
  /\ past = [i \in State |-> [content |-> Initial, plans |-> NoPlans]]
  /\ origin = [r \in Request |-> [proof |-> None, began |-> 0, base |-> 0]]
  /\ snapshots = <<>>
  /\ pc = [r \in Request |-> "unborn"]
  /\ job = [r \in Request |-> Fresh]

Attempt(r) == Open(r) \/ Conflict(r) \/ Commit(r) \/ SerializationFailure(r)

(* What a request that has begun does next.                                *)
Step(r) ==
  \/ VerifyProof(r) \/ Preflight(r) \/ Refuse(r)
  \/ TakeSnapshot(r)
  \/ Attempt(r)
  \/ Compensate(r) \/ Prune(r) \/ Fail(r)

Next ==
  \/ \E r \in Request :
       \/ \E setActive \in BOOLEAN, proof \in Signed \cup {None} : Begin(r, setActive, proof)
       \/ Step(r)
  \/ Edit \/ Reset
  \/ \E i \in DOMAIN snapshots : Rollback(i)

Spec == Init /\ [][Next]_vars

(* A handler that has begun goes on: each of its statements gets an        *)
(* answer.                                                                 *)
FairSpec == Spec /\ \A r \in Request : WF_vars(Step(r))

----------------------------------------------------------------------------
(* Properties.                                                             *)

(* The stored plans, snapshots and requests have their types, and a project *)
(* has at most one active plan, whatever applies, resets and rollbacks      *)
(* overlap.                                                                 *)
OnePlanActive ==
  /\ TypeOK
  /\ \A p, q \in Now.plans.active : p = q

(* What a transaction writes for a reviewed draft, it writes on the state  *)
(* that was reviewed, and, when it activates, in place of the plan that    *)
(* was active then; and no draft is active a second time from one review.  *)
(* Nothing is activated over an owner that has become somebody else's      *)
(* between the preflight and the transaction.                              *)
CommitsWhatWasChecked ==
  [][\A r \in Request : pc[r] = "open" /\ pc'[r] \in {"applied", "done"} =>
       /\ job[r].setActive => past[job[r].seen].content \notin Protected
       /\ job[r].proof # None =>
          /\ past[job[r].seen] = job[r].proof
          /\ job[r].setActive =>
             /\ Now.plans.active = job[r].proof.plans.active
             /\ \A p \in Now.plans.stored : origin[p].proof # job[r].proof]_vars

(* While the plan's request ran, a part of the planning state went away    *)
(* from what was reviewed and had come back when the transaction began.    *)
CameBack(p, part) ==
  \E i, k \in origin[p].began..origin[p].base :
    /\ i < k
    /\ past[i][part] = origin[p].proof[part] /\ past[k][part] # origin[p].proof[part]
    /\ past[origin[p].base][part] = origin[p].proof[part]

(* The snapshot a reviewed plan can be undone with is of the state the     *)
(* plan replaced, although it was read in pieces and before: only what was *)
(* edited and edited back meanwhile it may hold as it was in between.      *)
UndoIsExact ==
  \A p \in Now.plans.active : origin[p].proof # None =>
    \A i \in DOMAIN snapshots : snapshots[i].by = p =>
      \A part \in {"content", "plans"} :
        snapshots[i].saved[part] = origin[p].proof[part] \/ CameBack(p, part)

(* An apply that was refused leaves no snapshot behind.                    *)
NothingLeftBehind ==
  \A i \in DOMAIN snapshots : snapshots[i].by # None => pc[snapshots[i].by] # "refused"

(* Exactly the applies that went through can be undone, and exactly.        *)
UndoSound == UndoIsExact /\ NothingLeftBehind

(* Every request ends, although applies make each other fail.              *)
RequestsEnd == \A r \in Request : pc[r] = "begun" ~> pc[r] \in Ended
=============================================================================
