----------------------------- MODULE Snapshots -----------------------------
(***************************************************************************)
(* Backlog snapshots of one project: how they are taken, kept, classified  *)
(* and restored (projectSnapshotService.ts, projectSnapshotCapacity.ts,    *)
(* projectSnapshotTypes.ts, snapshotUtils.ts, routes/snapshots.ts), and    *)
(* its clones (routes/projects.ts).                                        *)
(*                                                                         *)
(* A manual snapshot is a sequence of statements that commit one by one;   *)
(* CSV import, template apply, levelling and Squad Planner take theirs in  *)
(* the same way.  A rollback is one READ COMMITTED transaction: what it    *)
(* reads first it writes back at the end, and other requests commit        *)
(* between its statements, unless they wait for a row that it has written. *)
(*                                                                         *)
(* The backlog tree is a set of items with a role each, its timeline rows  *)
(* and dependencies one row per item; rates, wording, overheads and the    *)
(* demand cache, which are copied as they are, are left out.               *)
(***************************************************************************)
EXTENDS Naturals, FiniteSets

CONSTANTS Role, Person, Item, \* ids
          Name,               \* names of roles
          Lower,              \* name.toLowerCase(), a function on Name
          Capacity,           \* what a sound capacity profile can say
          Odd,                \* a profile that only the stricter validator refuses
          Bad,                \* a profile that snapshots refuse too
          Row, Plan,          \* timeline rows, capacity plans
          Entries,            \* the roles with an entry in each plan
          Client,             \* whoever sends requests
          Keep,               \* pruneSnapshots' keep
          MaxRecord, MaxEdit, \* bounds: snapshots taken, other edits made
          None

Profile == Capacity \cup {Odd, Bad}
Planning == {"CURRENT", "NEEDS_REPLAN"}
Generation == 0..MaxRecord

(* The project: roles and people with their profiles, the role and the     *)
(* timeline row of each item, and which ids the items have.                *)
Project ==
  [role : [Role -> [name : Name, cap : Profile \cup {None}] \cup {None}],
   person : [Person -> [of : Role, cap : Profile \cup {None}] \cup {None}],
   does : [Item -> Role \cup {None}], row : [Item -> Row \cup {None}],
   ids : Generation, plan : Plan \cup {None}, state : Planning]

(* SnapshotV5, and SnapshotV4 for what older payloads lack: an item's role *)
(* is there by name, a row by the id of its item, and the plans and the    *)
(* planning state may be absent ({}).                                      *)
Snapshot ==
  [role : [Role -> [name : Name, cap : Profile \cup {None}] \cup {None}],
   person : [Person -> [of : Role, cap : Profile \cup {None}] \cup {None}],
   does : [Item -> Name \cup {None}], row : [Item -> Row \cup {None}],
   ids : Generation, rowIds : Generation,
   plan : {{}} \cup {{p} : p \in Plan \cup {None}},
   state : {{}} \cup {{s} : s \in Planning}]

(* BacklogSnapshot: v1 to v3 are retired, what does not parse or validate  *)
(* is a defect.                                                            *)
Record == [at : 0..MaxRecord,
           kind : {"v1", "v2", "v3", "v4", "v5", "malformed"},
           data : Snapshot \cup {None}]

ASSUME SnapshotAssumption ==
  /\ Keep \in Nat \ {0} /\ MaxRecord \in Nat /\ MaxEdit \in Nat
  /\ DOMAIN Lower = Name /\ Entries \in [Plan -> SUBSET Role]
  /\ None \notin Role \cup Person \cup Name \cup Profile \cup Row \cup Plan
  /\ None \notin [name : Name, cap : Profile \cup {None}] \cup [of : Role, cap : Profile \cup {None}]

VARIABLES live,    \* the project
          stored,  \* its BacklogSnapshot records
          taken,   \* how many were ever created: createdAt of the last
          edits,   \* how many other edits there were
          pc,      \* how far each client's request is
          work     \* what its handler holds

vars == <<live, stored, taken, edits, pc, work>>

RoleIds(p) == {r \in Role : p.role[r] # None}
PersonIds(p) == {q \in Person : p.person[q] # None}

TypeOK ==
  /\ live \in Project
  /\ stored \subseteq Record
  /\ taken \in 0..MaxRecord /\ edits \in 0..MaxEdit
  /\ pc \in [Client -> {"idle", "tree", "built", "stored", "listed",
                        "opened", "loaded", "owners", "cloning", "cloned"}]

----------------------------------------------------------------------------
(* Taking and classifying.                                                 *)

(* validateSnapshotV3: owners exist and profiles are well formed; a role   *)
(* without a profile passes.                                               *)
Valid(s) ==
  /\ \A r \in RoleIds(s) : s.role[r].cap # Bad
  /\ \A q \in PersonIds(s) : s.person[q].of \in RoleIds(s) /\ s.person[q].cap # Bad

(* fetchEpics, and the other queries of buildSnapshot.                     *)
NameOf(p, i) == IF p.does[i] = None THEN None ELSE p.role[p.does[i]].name

Tree(p) == [does |-> [i \in Item |-> NameOf(p, i)], ids |-> p.ids]

Rest(tree, p) ==
  [role |-> p.role, person |-> p.person, does |-> tree.does, row |-> p.row,
   ids |-> tree.ids, rowIds |-> p.ids, plan |-> {p.plan}, state |-> {p.state}]

Capture(p) == Rest(Tree(p), p)

(* classifySnapshotVersion and classifySnapshotRestorability.              *)
Classify(x) ==
  CASE x.kind \in {"v1", "v2", "v3"} -> "retired"
    [] x.kind \in {"v4", "v5"} /\ Valid(x.data) -> "restorable"
    [] OTHER -> "defect"

Restorable(S) == {x \in S : Classify(x) = "restorable"}
NewerIn(S, x) == {y \in S : y.at > x.at}

(* Mutant: the records are read oldest first.                              *)
BeyondKeepOldest(S) ==
  {x \in Restorable(S) :
     Cardinality({y \in Restorable(S) : y.at < x.at}) >= Keep}

(* pruneSnapshots: beyond the newest Keep restorable records.              *)
BeyondKeep(S) ==
  {x \in Restorable(S) : Cardinality(NewerIn(Restorable(S), x)) >= Keep}

Goes(c, to, w) ==
  /\ pc' = [pc EXCEPT ![c] = to]
  /\ work' = [work EXCEPT ![c] = w]

Ends(c) == Goes(c, "idle", None)

----------------------------------------------------------------------------
(* POST /snapshots.                                                        *)

ReadTree(c) ==
  /\ pc[c] = "idle"
  /\ Goes(c, "tree", Tree(live))
  /\ UNCHANGED <<live, stored, taken, edits>>

ReadRest(c) ==
  /\ pc[c] = "tree"
  /\ LET s == Rest(work[c], live)
     IN IF Valid(s) THEN Goes(c, "built", s) ELSE Ends(c)
  /\ UNCHANGED <<live, stored, taken, edits>>

Taken(data) == [at |-> taken + 1, kind |-> "v5", data |-> data]

Create(c) ==
  /\ pc[c] = "built" /\ taken < MaxRecord
  /\ stored' = stored \cup {Taken(work[c])}
  /\ taken' = taken + 1
  /\ Goes(c, "stored", None)
  /\ UNCHANGED <<live, edits>>

(* The two statements of pruneSnapshots.                                   *)
ListForPrune(c) ==
  /\ pc[c] = "stored"
  /\ Goes(c, "listed", [delete |-> BeyondKeep(stored)])
  /\ UNCHANGED <<live, stored, taken, edits>>

Prune(c) ==
  /\ pc[c] = "listed"
  /\ stored' = stored \ work[c].delete
  /\ Ends(c)
  /\ UNCHANGED <<live, taken, edits>>

(* The process dies or the connection goes: what was committed stays.      *)
Fail(c) ==
  /\ pc[c] # "idle"
  /\ Ends(c)
  /\ UNCHANGED <<live, stored, taken, edits>>

----------------------------------------------------------------------------
(* POST /snapshots/:id/rollback.                                           *)

(* The target is loaded, parsed and classified before the transaction;     *)
(* only a restorable one goes on.  No other project has these ids here.    *)
OpenRollback(c, x) ==
  /\ pc[c] = "idle" /\ x \in Restorable(stored)
  /\ Goes(c, "opened", [target |-> x.data])
  /\ UNCHANGED <<live, stored, taken, edits>>

(* loadRetainedRoleProfiles: roles the target does not know survive ...    *)
Retained(s) == RoleIds(live) \ RoleIds(s)

(* ... if each of them has one profile that the stricter validator takes.  *)
RetainedSound(s) == \A r \in Retained(s) : live.role[r].cap \in Capacity

(* First statements of the transaction: the undo snapshot is built, the    *)
(* survivors' profiles are read.                                           *)
LoadRollback(c) ==
  /\ pc[c] = "opened" /\ taken < MaxRecord
  /\ LET s == work[c].target
     IN IF Valid(Capture(live)) /\ RetainedSound(s)
        THEN /\ Goes(c, "loaded",
                     [target |-> s, undo |-> Taken(Capture(live)),
                      kept |-> [r \in Retained(s) |-> live.role[r].cap]])
             /\ taken' = taken + 1
        ELSE Ends(c) /\ UNCHANGED taken
  /\ UNCHANGED <<live, stored, edits>>

(* rtNameMap: the id under which a name is found again; of two roles with  *)
(* one name the query's order decides.                                     *)
Lookups(s) ==
  {m \in [{Lower[s.role[r].name] : r \in RoleIds(s)} -> RoleIds(s)] :
     \A n \in DOMAIN m : Lower[s.role[m[n]].name] = n}

RestoredDoes(s, m) ==
  [i \in Item |->
     IF s.does[i] # None /\ Lower[s.does[i]] \in DOMAIN m
     THEN m[Lower[s.does[i]]] ELSE None]

(* Mutant: the profiles of survivors are not written again.                *)
RestoredRolesBare(s, kept) ==
  [r \in Role |->
     IF r \in RoleIds(s) THEN s.role[r]
     ELSE IF r \in RoleIds(live) THEN [live.role[r] EXCEPT !.cap = None]
     ELSE None]

(* Roles are upserted; all profiles of the project are deleted, those of   *)
(* the snapshot created, and those of the survivors that were read.        *)
RestoredRoles(s, kept) ==
  [r \in Role |->
     IF r \in RoleIds(s) THEN s.role[r]
     ELSE IF r \in RoleIds(live)
          THEN [live.role[r] EXCEPT !.cap =
                  IF r \in DOMAIN kept THEN kept[r] ELSE None]
     ELSE None]

(* The planning state, only if the payload has one; so with the plans.     *)
RestoredState(s) == IF s.state = {} THEN live.state ELSE CHOOSE x \in s.state : TRUE
RestoredPlan(s) == IF s.plan = {} THEN live.plan ELSE CHOOSE x \in s.plan : TRUE

(* Who is in the snapshot is upserted, the orphans that were listed are    *)
(* deleted; whoever was added since stays and loses the profile.           *)
RestoredPeople(s, orphans) ==
  [q \in Person |->
     IF q \in PersonIds(s) THEN s.person[q]
     ELSE IF q \in PersonIds(live) \ orphans
          THEN [live.person[q] EXCEPT !.cap = None]
     ELSE None]

(* restoreSnapshotCommonState, recreateV3CapacityProfiles and              *)
(* restoreSnapshotCapacityPlans.  The tree is created again under new ids, *)
(* and a row whose item the id map does not know is dropped.               *)
Restored(s, kept, orphans, m, ids) ==
  [role |-> RestoredRoles(s, kept),
   person |-> RestoredPeople(s, orphans),
   does |-> RestoredDoes(s, m),
   row |-> IF s.rowIds = s.ids THEN s.row ELSE [i \in Item |-> None],
   ids |-> ids, plan |-> RestoredPlan(s), state |-> RestoredState(s)]

(* A rollback that has written the roles of its snapshot and the items.    *)
Rewrites(c) == pc[c] = "owners"

(* Whoever would write such a row waits for the end of the transaction.    *)
ItemsFree == \A c \in Client : ~ Rewrites(c)
RoleFree(r) == \A c \in Client : Rewrites(c) => r \notin RoleIds(work[c].target)

(* The roles are upserted, the people that the snapshot does not have are  *)
(* listed and deleted, its own are upserted, and the tree is created.      *)
RestoreOwners(c) ==
  /\ pc[c] = "loaded" /\ ItemsFree
  /\ LET w == work[c]
     IN Goes(c, "owners", [target |-> w.target, undo |-> w.undo, kept |-> w.kept,
                           orphans |-> PersonIds(live) \ PersonIds(w.target)])
  /\ UNCHANGED <<live, stored, taken, edits>>

(* The rest: the project's row, the timeline, the profiles, the plans and  *)
(* the retention; the profile of a survivor that has gone cannot be        *)
(* created.  Once the project's row is written only a person of a survivor *)
(* can still be added: before the profiles go that is a step before this   *)
(* one, after they went it is as good as one after it.                     *)
CommitRollback(c) ==
  /\ pc[c] = "owners"
  /\ LET w == work[c] IN
     IF DOMAIN w.kept \subseteq RoleIds(live)
     THEN /\ \E m \in Lookups(w.target) :
               live' = Restored(w.target, w.kept, w.orphans, m, w.undo.at)
          /\ stored' = LET S == stored \cup {w.undo} IN S \ BeyondKeep(S)
     ELSE UNCHANGED <<live, stored>>
  /\ Ends(c)
  /\ UNCHANGED <<taken, edits>>

----------------------------------------------------------------------------
(* POST /projects/:id/clone.  Each row of the copy has a new id; here it   *)
(* is written as the id that it is mapped from.                            *)

(* A task, an overhead or a discount keeps a role that was cloned.         *)
ClonedDoes(p, ids) == [i \in Item |-> IF p.does[i] \in ids THEN p.does[i] ELSE None]

(* Roles and people come at first without their profiles.                  *)
ClonedOwners(rows) ==
  [x \in DOMAIN rows |-> IF rows[x] = None THEN None ELSE [rows[x] EXCEPT !.cap = None]]

(* No foreign key keeps a role that has an entry in a plan.                *)
PlanClones(p) == p.plan # None => Entries[p.plan] \subseteq RoleIds(p)

ClonedRows(p) ==
  [role |-> ClonedOwners(p.role), person |-> ClonedOwners(p.person),
   does |-> ClonedDoes(p, RoleIds(p)), row |-> p.row, ids |-> p.ids,
   plan |-> p.plan, state |-> p.state]

Owners(ps) == {x \in DOMAIN ps : ps[x] # None /\ ps[x].cap # None}

WithProfile(rows, ps) ==
  [x \in DOMAIN rows |-> IF x \in Owners(ps) THEN [rows[x] EXCEPT !.cap = ps[x].cap] ELSE rows[x]]

(* Mutant: the default isolation level.                                    *)
SeesCommitted(c) == live

(* What a query of the clone's transaction sees: REPEATABLE READ.          *)
Sees(c) == work[c].from

(* The source with all it includes; a plan with an entry of a role that    *)
(* has gone ends the request.                                              *)
OpenClone(c) ==
  /\ pc[c] = "idle" /\ PlanClones(live)
  /\ Goes(c, "cloning", [from |-> live, copy |-> ClonedRows(live)])
  /\ UNCHANGED <<live, stored, taken, edits>>

(* loadExactCapacityProfiles; a profile whose owner was not cloned ends    *)
(* the request.                                                            *)
CloneProfiles(c) ==
  /\ pc[c] = "cloning"
  /\ LET w == work[c]
         known == /\ Owners(Sees(c).role) \subseteq RoleIds(w.copy)
                  /\ Owners(Sees(c).person) \subseteq PersonIds(w.copy)
     IN  IF known
         THEN Goes(c, "cloned",
                   [from |-> w.from,
                    copy |-> [w.copy EXCEPT !.role = WithProfile(@, Sees(c).role),
                                            !.person = WithProfile(@, Sees(c).person)]])
         ELSE Ends(c)
  /\ UNCHANGED <<live, stored, taken, edits>>

CommitClone(c) ==
  /\ pc[c] = "cloned" /\ Ends(c)
  /\ UNCHANGED <<live, stored, taken, edits>>

----------------------------------------------------------------------------
(* What the other routes do to the project, each in a transaction.         *)

Edited(p) ==
  /\ edits < MaxEdit
  /\ edits' = edits + 1
  /\ live' = p
  /\ UNCHANGED <<stored, taken, pc, work>>

(* A person's id is new: no rollback has met it.                           *)
NewPerson(q) ==
  /\ live.person[q] = None
  /\ \A c \in Client : Rewrites(c) =>
       q \notin PersonIds(work[c].target) \cup PersonIds(work[c].undo.data) \cup work[c].orphans

(* POST of a role, which comes with a profile and a person, who has one    *)
(* too; nothing makes names unique.                                        *)
CreateRole(r, n) ==
  /\ live.role[r] = None /\ RoleFree(r)
  /\ \E cap \in Capacity, q \in Person :
       /\ NewPerson(q)
       /\ Edited([live EXCEPT !.role[r] = [name |-> n, cap |-> cap],
                              !.person[q] = [of |-> r, cap |-> cap]])

(* PUT of a role: its name, or its profile.                                *)
RenameRole(r, n) ==
  /\ r \in RoleIds(live) /\ RoleFree(r)
  /\ Edited([live EXCEPT !.role[r].name = n])

SetProfile(r, cap) ==
  /\ r \in RoleIds(live) /\ live.role[r].cap \in Capacity
  /\ Edited([live EXCEPT !.role[r].cap = cap])

(* DELETE of a role: its people go with it, its items are left without.    *)
DeleteRole(r) ==
  /\ r \in RoleIds(live) /\ RoleFree(r) /\ live.role[r].cap \in Capacity
  /\ Edited([live EXCEPT
       !.role[r] = None,
       !.person = [q \in Person |->
          IF q \in PersonIds(live) /\ live.person[q].of = r
          THEN None ELSE live.person[q]],
       !.does = [i \in Item |->
          IF live.does[i] = r THEN None ELSE live.does[i]]])

(* POST of a person, who gets the role's profile and is counted in its row.*)
AddPerson(q, r) ==
  /\ NewPerson(q)
  /\ r \in RoleIds(live) /\ RoleFree(r) /\ live.role[r].cap \in Capacity
  /\ Edited([live EXCEPT !.person[q] = [of |-> r, cap |-> live.role[r].cap]])

Assign(i, r) == ItemsFree /\ r \in RoleIds(live) /\ Edited([live EXCEPT !.does[i] = r])
Schedule(i, row) == ItemsFree /\ Edited([live EXCEPT !.row[i] = row])

(* Squad Planner apply, reset and replan completion.                       *)
Activate(p) == Edited([live EXCEPT !.plan = p])
Reset == Edited([live EXCEPT !.plan = None, !.row = [i \in Item |-> None],
                             !.state = "NEEDS_REPLAN"])
Replanned == live.state = "NEEDS_REPLAN" /\ Edited([live EXCEPT !.state = "CURRENT"])

Edit ==
  \/ \E r \in Role :
       \/ \E n \in Name : CreateRole(r, n) \/ RenameRole(r, n)
       \/ \E cap \in Capacity : SetProfile(r, cap)
       \/ DeleteRole(r)
       \/ \E q \in Person : AddPerson(q, r)
       \/ \E i \in Item : Assign(i, r)
  \/ \E i \in Item, row \in Row : Schedule(i, row)
  \/ \E p \in Plan : Activate(p)
  \/ Reset \/ Replanned

----------------------------------------------------------------------------
(* A project with one role, whose profile may be from before validation,   *)
(* and old records: retired, malformed, and a V4 one from before planning  *)
(* states and plans were captured.                                         *)
Init ==
  /\ \E r \in Role, n \in Name, cap \in Profile :
       live = [role |-> [x \in Role |->
                 IF x = r THEN [name |-> n, cap |-> cap] ELSE None],
               person |-> [q \in Person |-> None],
               does |-> [i \in Item |-> r], row |-> [i \in Item |-> None],
               ids |-> 0, plan |-> None, state |-> "CURRENT"]
  /\ LET old == Capture(live)
         v4 == [old EXCEPT !.plan = {}, !.state = {}]
     IN stored = {[at |-> 0, kind |-> "v2", data |-> None],
                  [at |-> 0, kind |-> "malformed", data |-> None],
                  [at |-> 0, kind |-> "v4", data |-> v4]}
  /\ taken = 0 /\ edits = 0
  /\ pc = [c \in Client |-> "idle"]
  /\ work = [c \in Client |-> None]

Request(c) ==
  \/ ReadTree(c) \/ ReadRest(c) \/ Create(c) \/ ListForPrune(c) \/ Prune(c)
  \/ \E x \in stored : OpenRollback(c, x)
  \/ LoadRollback(c) \/ RestoreOwners(c) \/ CommitRollback(c)
  \/ OpenClone(c) \/ CloneProfiles(c) \/ CommitClone(c)
  \/ Fail(c)

Next == (\E c \in Client : Request(c)) \/ Edit

Spec == Init /\ [][Next]_vars

----------------------------------------------------------------------------
(* Properties.                                                             *)

(* A rollback that commits; nobody else committed to the project meanwhile.*)
RollsBack(c) == pc[c] = "owners" /\ pc'[c] = "idle" /\ ~ UNCHANGED <<live, stored>>
Undisturbed(c) == work[c].undo.data = Capture(live)

(* A rollback gives back the roles, the people, their profiles and the     *)
(* plans of the snapshot as they were, and each item a role of the name it *)
(* had; it never takes a project out of NEEDS_REPLAN, or into it, on the   *)
(* word of a payload that has no planning state.  Whoever else is left     *)
(* came after the rollback began, and to a role that the snapshot does not *)
(* know; when nobody else commits meanwhile, nobody is, and roles made     *)
(* after the snapshot stay as they are.                                    *)
RollbackRestores ==
  [][\A c \in Client : RollsBack(c) =>
       LET s == work[c].target IN
       /\ \A r \in RoleIds(s) : live'.role[r] = s.role[r]
       /\ \A q \in PersonIds(s) : live'.person[q] = s.person[q]
       /\ \A q \in PersonIds(live') \ PersonIds(s) :
            /\ q \notin PersonIds(work[c].undo.data)
            /\ live'.person[q].of \notin RoleIds(s)
       /\ s.plan # {} => live'.plan \in s.plan
       /\ IF s.state = {} THEN live'.state = live.state ELSE live'.state \in s.state
       /\ \A i \in Item :
            IF s.does[i] = None \/ \A r \in RoleIds(s) : s.role[r].name # s.does[i]
            THEN live'.does[i] # None => Lower[s.role[live'.does[i]].name] = Lower[s.does[i]]
            ELSE /\ live'.does[i] \in RoleIds(s)
                 /\ Lower[s.role[live'.does[i]].name] = Lower[s.does[i]]
       /\ Undisturbed(c) =>
            \A r \in RoleIds(live) \ RoleIds(s) : live'.role[r] = live.role[r]]_vars

(* After a rollback nobody disturbed, or outdated with a newer snapshot,   *)
(* there is a restorable record of the state before it, and it survives    *)
(* the rollback's own retention.                                           *)
UndoIsStored ==
  [][\A c \in Client :
       RollsBack(c) /\ Undisturbed(c) /\ taken = work[c].undo.at =>
       \E x \in Restorable(stored') : x.data = Capture(live)]_vars

(* Retention deletes only restorable records, and only when Keep newer     *)
(* restorable ones remain, whichever requests prune at the same time.      *)
NewestKept ==
  [][\A x \in stored \ stored' :
       /\ Classify(x) = "restorable"
       /\ Cardinality(NewerIn(Restorable(stored'), x)) >= Keep]_vars

(* Whatever is deleted, taken and rolled back at once, the way back is kept *)
(* and so are the newest records.                                          *)
HistoryKept == UndoIsStored /\ NewestKept

(* The stored rows have their types, and a clone is the project as it was   *)
(* at one moment, whoever commits while it is copied: roles and people with *)
(* the profiles they had then, items with their roles, the plan, and the    *)
(* planning state, so that the copy of a project that needs replanning      *)
(* needs it too.                                                            *)
CloneIsOneMoment ==
  /\ TypeOK
  /\ \A c \in Client : pc[c] = "cloned" => work[c].copy = work[c].from

(* projectSnapshotService.ts: every owner that survives a rollback keeps   *)
(* its valid profile, without a condition on what commits meanwhile.       *)
SurvivorsOwnCapacity ==
  [][\A c \in Client : RollsBack(c) =>
       \A r \in RoleIds(live) \ RoleIds(work[c].target) :
         live.role[r].cap \in Capacity => live'.role[r].cap \in Capacity]_vars
=============================================================================
