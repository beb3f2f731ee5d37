# Monrad Estimator: specifications

This directory holds TLA+ specifications of the estimation tool in `src/`: an
Express server over PostgreSQL (Prisma) and a React client. Users describe a
backlog, say who is available, and the server schedules the work, sizes the
team and prices the result. TLC checks every component on small instances;
for capacity ownership, the dependency graph, the two halves of the scheduler,
the stored schedule, plan activation, snapshots, the backlog, the planner drawer,
the audit and repair of profiles and scope documents TLAPS proves the same
properties for all. `PROJECT.json` lists, for every definition, the lines it stands for.

Contents: [inventory](#inventory), [modules](#the-modules),
[runs](#the-runs), [fairness](#fairness), [proofs](#the-proofs),
[what the models leave out](#what-the-models-leave-out),
[not modelled](#not-modelled),
[disagreements](#where-the-code-and-its-documents-disagree), [plan](#plan).

## Inventory

State is what the tables of `src/server/prisma/schema.prisma` keep, the files
of generated documents, and in the browser the drawer's settings; the server
process itself keeps none. Requests run concurrently and meet only in the
database, under READ COMMITTED unless a handler asks for more (Squad Planner
apply and optimiser apply: Serializable; project clone: RepeatableRead). Many
handlers are not one transaction but several statements.

| Component | State | Operations | What is hard about it | What makes it correct | Module |
|---|---|---|---|---|---|
| Capacity ownership (`resourceTypes.ts`, `namedResources.ts`, `capacityProfiles.ts`, reset, bulk recovery, replan) | roles with a headcount, people, one profile per role or person, `Project.planningState` | create, edit, delete; headcount up and down; profile editor; reset; bulk "as needed"; complete | eleven writers decide by `source` and `provenance` what they may touch | nothing authored is lost or taken over; profiles stay readable; a reset project can be repaired | `CapacityOwnership` |
| Squad Planner apply and transfer (`squadPlannerProfileWriter.ts`, `capacityProfileTransferService.ts`) | active `CapacityPlan`, planned resources | apply, transfer to manual | reuses, creates and empties rows of roles that other routes edit and delete | role and planned rows agree on their owner; headcounts agree with the plan | `CapacityOwnership` |
| Dependencies (`epicDependencies.ts`, `featureDependencies.ts`, `csv.ts`) | two graphs | POST, DELETE, import, cascades | the cycle check is one query per node, outside a transaction | no cycles; the check ends | `BacklogDependencies` |
| Scheduler (`scheduler.ts`) | none; a pure function of the backlog, capacities and pins | placement, fallback for cycles, levelling | four kinds of edges can close a cycle; a simulation with a rounded clock | dependencies and pins hold, no week is overbooked, no effort is lost, it ends | `FeatureSchedule`, `LevelledSchedule` |
| Schedule persistence (`scheduleProject.ts`, `timeline.ts`) | timeline rows, pins, `weeklyDemandCache` | schedule, level, pin, unpin, clear, optimiser and Squad Planner apply | reads outside the write transaction; cache cleared by separate statements | the cache belongs to the stored schedule; pins are not lost | `ScheduleStore` |
| Capacity resolver (`schedulerCapacityResolver.ts`, `capacityPlanMaterialisation.ts`, `capacityProfileResourceAdapter.ts`) | none | weekly capacity of roles and people from their profiles; a plan as people, slots and aggregates | role and planned rows must not count twice; inclusive and exclusive ends | each hour of capacity is counted once, however it is read | `CapacityPlans`, `CapacityViews` |
| Planning model, resource profile (`projectPlanningModel.ts`, `resourceProfile.ts`) | none | weekly demand, assignment to people, days per role | demand partly cached, partly spread anew, matched by names | demand is assigned once; what is costed is what can be assigned | `PlanningModel`, `ResourceProfileView` |
| Commercial data (`financialCalculations.ts`, `useResourceProfileExport.ts`, `resourceProfile.ts`) | rates, discounts, billing, tax | total, sale and export of the same project | priced three times by different code | the three agree where they should | `Commercial` |
| SA planner (`sa-planner.ts`) | none | week by week allocation with locks, pins, caps | heuristics with caps on everything; rounding at the end of weeks | within capacity, in order, and a plan where there is one | `WeeklyPlanner` |
| Epic leveller (`leveller.ts`) | none | earliest start of each epic that fits | peaks of overlapping features | order and capacity hold | `EpicLeveller` |
| Capacity planner (`capacity-planner.ts`) | none | seeds, recovery, growth, smoothing, reduction, replay | a plan is converted to people and back, at each step | limits and locks hold, a target found is kept, nothing to spare | `CapacityEnvelope`, `JointPlan` |
| Squad plan checks and replay (`squadPlan.ts`) | none | validation of drafts and plans, replay of the review | the reviewed plan is recomputed by the apply | the apply gives what was reviewed | `SquadApply` |
| Squad plan protocol (`squadPlan.ts`, `squadPlanDraft.ts`) | drafts, plans, snapshots | generate, prove, apply | Serializable retries, a snapshot before the transaction, compensation | an apply happens on what was reviewed, or leaves nothing | `PlanActivation` |
| Optimiser (`optimiser.ts`, `optimiserApplyService.ts`) | headcounts, optimiser profiles | search, rank, apply with ramp-up | a candidate is judged in memory and written as profiles | the best is not dominated; applied it delivers what it said | `Optimiser` |
| Snapshots (`projectSnapshot*.ts`, `snapshotUtils.ts`, `snapshots.ts`) | `BacklogSnapshot` | create, classify, prune, roll back | formats of several versions, retention by class, a rollback that others commit into | a rollback restores what was saved and can be undone; retention keeps what it must | `Snapshots` |
| Project clone (`projects.ts`) | a copy | clone | reads for a long time | the copy is of one moment | `Snapshots` |
| Backlog (`epics.ts` ... `tasks.ts`, `reorder.ts`, `backlogDuplication.ts`, `backlogGrid.ts`) | epics, features, stories, tasks with an `order` | CRUD, reorder, duplicate, grid entry | `order` is the count at creation; a grid is validated before its transaction | siblings keep their order; a grid does what its rows say | `BacklogTree`, `BacklogGrid`, `Backlog` |
| Templates, CSV (`applyTemplate.ts`, `templates.ts`, `csv.ts`) | templates and their snapshots | apply, refresh, replace, restore; stage, import, export | several statements without a transaction | an import settles; an export comes back; a refresh completes | `BacklogCsv`, `Backlog` |
| Audit, repair, readiness (`capacityProfileOwnershipAudit.ts`, `...Repair.ts`, `productionMigrationReadiness.ts`) | profile rows from before owners were unique | audit, repair, check | repairs from a report made earlier | a repair loses nothing; ready means readable | `ProfileAudit` |
| Scope documents (`documents.ts`) | rows and files | generate, delete, delete the project | no transaction covers a file | rows and files belong together | `ScopeDocuments` |
| Squad Planner drawer (`SquadPlannerDrawer.tsx`, `TimelinePage.tsx`) | draft, settings in the browser, requests in flight | generate, edit cells, lock, apply, reset, close, navigate | answers that come late or after the project has changed | what is applied is what is shown; edits are kept | `PlannerDrawer` |
| Accounts, server shell, the rest of the client, tools | see [not modelled](#not-modelled) | | | | |

Components interact through shared rows and through calls. The identity
routes, the editor and Squad Planner write profiles; the resolver turns profiles
into weekly capacity; the scheduler takes capacity, backlog, dependencies and
pins and returns a schedule, which persistence, optimiser apply and Squad Planner
apply store; the planning model assigns demand to people, and the commercial
views price the result. Reset discards profiles and plans and blocks the
planning routes (`assertPlanningCurrent`) until replanning is completed. The
drawer asks for plans and applies one; the apply verifies its proof, replays
it and writes ownership, timeline and snapshot.

The hazards this code is exposed to are listed in `PROJECT.json` at their lines,
with the properties that would catch them going wrong.

## The modules

| Module | Models | Composition |
|---|---|---|
| `CapacityOwnership` | who owns which profile, and every writer of profiles, people, headcounts | |
| `BacklogDependencies` | the dependency graph under concurrent requests and imports | |
| `ScheduleGraph` | which feature waits for which: the edges `runScheduler` draws | |
| `SchedulePromise` | abstract: what a schedule promises to who waits | |
| `FeatureSchedule` | placement without levelling | extends `ScheduleGraph`, implements `SchedulePromise` |
| `LevelledSchedule` | placement followed by the levelling simulation | extends `FeatureSchedule`, implements `SchedulePromise` |
| `ScheduleStore` | timeline rows, pins and the demand cache under six handlers | |
| `PlanActivation` | from a reviewed draft to an active plan | |
| `Snapshots` | snapshots, retention, rollback, clone | |
| `CapacityPlans`, `CapacityViews`, `PlanningModel`, `ResourceProfileView`, `Commercial` | capacity, demand, assignment, costs and prices, as operators | each extends the one before |
| `ProfileAudit` | audit, repair, readiness | extends `CapacityViews` |
| `Optimiser` | search, ranking and application | extends `PlanningModel` |
| `WeeklyPlanner`, `CapacityEnvelope`, `JointPlan`, `SquadApply` | the planner week by week; its demand as headcounts; the search around it; review and replay | each extends the one before |
| `EpicLeveller` | starts of epics | extends `WeeklyPlanner` |
| `PlanningAnswers` | the pure libraries, asked one question at a time | extends all of the four groups above |
| `BacklogTree` | the backlog and its one-step operations, as operators | |
| `BacklogGrid`, `BacklogCsv` | Grid Entry; export, staging and import | extend `BacklogTree` |
| `Backlog` | requests that edit a backlog side by side | extends the two |
| `ScopeDocuments` | rows and files of generated documents | |
| `PlannerDrawer` | the drawer of the timeline page | |
| `WorkOrder_proofs` | theorems about `BacklogDependencies`, `FeatureSchedule` and `LevelledSchedule` | extends the three |
| `Backlog_proofs` | theorems about the backlog modules and about `ScopeDocuments` | extends the two |
| other `*_proofs` | theorems about the module of the same name | |
| `MC*` | constants for TLC | |

Operators marked *Mutant* in the modules are not used by them. Each is a
plausible mistake in the definition after it; put in its place, it makes TLC
report the property it is listed with in `PROJECT.json`.

### CapacityOwnership

`roles`, `count`, `home`, `roleProfile`, `resProfile`, `activePlan` and
`planning` are the rows of `ResourceType`, its `count`,
`NamedResource.resourceTypeId`, the `CapacityProfile` of a role and of a
person, the `resourceTypeId`s in the active `CapacityPlan`, and
`Project.planningState`. A profile keeps its owner kind, basis, source,
provenance, its largest percentage and whether it has segments: what any
guard of a writer looks at. Ids are numbered in the order of creation, because
the headcount reduction takes the newest people and the planner fills the
oldest rows.

Each request is one action: `CreateRole`, `SetCount` (PUT), `RaiseCount` and
`LowerCount` (the two directions of PATCH), `DeleteRole`, `CreatePerson`,
`DeletePerson`, `ReplaceRole` and `ReplacePerson` (the profile editor, with the
generated clones it updates), `ApplyPlan` (authority capture, conflict
validation, reuse, creation, surplus, omitted roles, headcount), `Transfer`,
`ResetPlanning`, `BulkRolesAsNeeded`, `BulkPeopleAsNeeded`,
`CompleteReplanning`. The guards are those of the code: a row that is missing or
structurally illegal makes the readers throw (`Authoritative`), a planner-owned
row answers 409 (`PlannerOwned`, `OwnerConflict`). A project begins with the
roles `POST /projects` seeds, which have a headcount of one and nobody in them.

### BacklogDependencies

A POST is `Begin`, then one `Visit` per query of the walk, then `Reject`,
`InsertNew` or `InsertFails`; anything may happen between two of them: another
POST, a DELETE, the deletion of an epic or feature with its cascade, an import,
which writes without a search. Epics and features have the same protocol, so
the nodes are either. Three variables are history: `searched`, the dependencies
a POST inserted, for which requests are answerable; `unseen`, what others
inserted during a search; and `blind`, for two stored dependencies, that the
second came in during the search for the first.

### ScheduleGraph, FeatureSchedule, LevelledSchedule

`ScheduleGraph` has the edges: features of a sequential epic in a chain, epics
chained by their modes, feature dependencies, epic dependencies. Features and
epics are numbers, in the order of the backlog.

`FeatureSchedule` is the queue: `Sort` pops a feature, places it and counts down
those behind it; `Fallback` places what a cycle kept out. `LevelledSchedule`
goes on after the last placement: `Prepare` starts the simulation, and one
iteration of its loop is `BeginRound` (eligible features begin; an idle step;
the throw on a missing entry), an `Allocate` for every feature and role that
competes, and `FinishRound` (stories and features that are done, the clock).
`WriteBack` replaces the placement. The order of features within a round is left
open, since the code's tie-breaks decide nothing the properties tell apart. The
clock counts steps; `low` says that the floating-point sum sits a hair below
the week boundary it should have reached, which books a step on the week
before.

`SchedulePromise` says that features begin and end once, that none begins before
everything it waits for has ended, and that nothing moves. Both modules implement
it: placement for acyclic graphs (otherwise the fallback ignores edges and the
promise is empty), levelling for all graphs.

### ScheduleStore

`row` is a feature's or story's timeline row, a pin or the place that some
computation gave it; `cache` is the demand cache, known by the computation it is
from. `POST /timeline/schedule` is `Begin`, `Compute` (its reads) and
`CommitSchedule` (its transaction); levelling replaces the rows and clears the
cache in a statement of its own; optimiser and Squad Planner apply compute and
commit in one transaction each, the latter also from a draft that was reviewed
earlier (`Generate`, `CommitDraft`); pins of features, of stories, unpinning and
clearing all are one to three statements. Between two statements a handler may
fail (`FailHalfWay`). `OtherWriters` deletes and switches items, and resets
planning. `overlapped` is history: the requests beside which another ran.

### PlanActivation

`past` is the planning state after each commit, contents and plans; `state` is the
number of the last one. A proof (`Signed`) is a `Fingerprint`, which is what the hash
covers: contents, not times, so that an edit that is undone leaves what was
reviewed. What is read outside a transaction is read in pieces (`ReadBetween`).
`Begin` to `Prune` are the statements of the apply: `VerifyProof`, `Preflight`,
`TakeSnapshot`, `Open` (the transaction takes its view), `Commit`, which a
Serializable transaction is only allowed as the history variables `swaps` and
`reviews` permit; `SerializationFailure` tries again, `Compensate` deletes the
snapshot of an apply that failed cleanly. `Edit`, `Reset` and `Rollback` happen
between any two of them.

### Snapshots

`live` is the project, reduced to roles, people, profiles, items that have a role
and a row, the plan and the planning state; `stored` the records, of all
versions and with defects. A manual snapshot reads in two statements, `Create`s
and prunes (list, then delete). A rollback opens, loads, rewrites the owners and
commits: what it read first is written back last. From `RestoreOwners`, which
lists and deletes the people that the snapshot does not have, the roles of the
snapshot and the items are locked, and whoever would write one waits; other
roles can still get people, and new ones be made, whose people the list does not
have (`projectSnapshotService.ts:298`). The rest is one step: it begins with the
project's row, which all others write too, but for those that wait for an item,
and `POST` of a person, which is as good before or after the step. An
epic that is created after the old ones were deleted stays beside the restored
ones; that is not modelled, items neither come nor go. A clone reads in three
steps. `Edit` is everybody else.

### PlanningAnswers and what it extends

The libraries and read-only routes compute without state: they are operators, in
the order of the code's own files. `PlanningAnswers` asks one question (a plan,
a project, a search, a staffing, a level, a squad, an audit) and answers it in
the steps that matter: the weekly planner one week per step, the capacity
planner one run of the weekly planner per step, the application of a plan or
candidate after the answer. Its invariants relate an answer to its question
and to other answers computed by other code. Work is counted in 120ths of a day,
so that percentages of a week and the shares of the planner are whole numbers
where the code's are; where the code divides, the modules say which way they
round.

### BacklogTree, BacklogGrid, BacklogCsv, Backlog

`tree` gives an id its kind, parent, name, order, status, role, hours, duration and
template. Durations are in thousandths of a day, so that rounding to hundredths
(`round.ts`) shows; one `HoursPerDay` stands for the project's and its roles'. PUT writes
a name, an order (`Place`), a status, a role or an estimate (`Reestimate`), one at a
time; orders below zero are left out. The export of an empty backlog is its
template (`TemplateRows`), whose description row is read back as a task's. The routes of one statement, or one transaction that reads what it
writes, are one step; creation counts its siblings first and inserts later,
reorder writes an order that was read by a page, Grid Entry validates (`base` is
the tree it saw) and commits later, an import creates its roles one by one
before its transaction, and a template is applied, refreshed and replaced task by
task. `Stop` is a request that fails, or a process that ends, between two
statements.

### ScopeDocuments

`listed` is the table, `files` the directory: which request wrote the file of a
name. A name is the project, the format and the minute that the clock shows in
the time zone asked for. A handler runs from one `await` to the next: `Generate`,
`Write` (named and written at once) or `WriteFails` (which may leave a part of the
file, as nothing is cleaned up before the write has returned), `InsertRow`, `InsertFails`
(which removes the file) or `CleanUpFails` (which could not); `Find`, `Unlink` or
`UnlinkFails`, `DeleteRow`. `Crash` ends every request. `lost` and `begun` are histories
of the documents whose request ended in a crash or a failed file operation, and of those whose
file was removed.

### PlannerDrawer

`drawer` is the component's state, with its revision counter, the request id it
listens to, the settings, the draft of edits and locks and the plan it shows;
`sent` and `applying` are requests in flight; `stored` is the browser's storage
and `page` the page around it. Effects that run after a rendering are part of
the action that caused it. Answers come in any order, or not at all
(`GenerateFailed`, `ApplyLost`).

## The runs

| Run | Bounds | Shows |
|---|---|---|
| `capacity` | 2 symmetric roles, 3 ids, headcount to 1, plans of up to 2 trajectories, 2 editor shapes; 377,572 states | `ProfilesReadable`: only a generated clone of a role above 100% is unreadable; `OwnersAgree`: planned rows, role and headcount agree on the owner; `ReplanPossible`: a reset project can be completed, and stays complete; `UsersCapacityKept`: what users authored is not taken back, and leaves only with its person or role |
| `dependency` | 3 nodes, 2 requests at once for 4 dependencies, an import of mutual dependencies; 359,751 states | `GraphSound`: foreign keys, and no cycle of dependencies that were added one by one but through two requests that overlapped; `SearchEnds`, also on a graph that became cyclic during the walk |
| `schedule` | 3 features, 3 epics, all layouts and modes, up to 2 feature and 1 epic dependency, or a pin and a start week; 636,160 states | `PlacementSound`, `AllPlaced`, `ImplementsPromise` |
| `levelled` | 3 features, 2 epics, 2 roles, 2 sets of stories, 4 capacities, reservations, an orphaned pin; 359,304 states | `LevelledSound`: budgets, order, what is written back; `EffortKept`; `LevellingEnds`; `SimulationImplementsPromise` |
| `schedule_store` | 1 feature, 1 story, 2 pin values, 2 requests; 3,428,609 states | `CacheSound`: the cache belongs to the rows and knows the pins, but for requests that have not cleared it, or failed before they could; `PinsSurvive` |
| `plan_activation` | 2 requests, 3 commits, 2 contents, 1 retry, 2 snapshots kept; 584,368 states | `OnePlanActive`, `CommitsWhatWasChecked`, `UndoSound`, `RequestsEnd` |
| `snapshots` | 2 clients, 2 roles, 2 people, 1 item, names that differ in case, 2 records; 2,426,025 states | `CloneIsOneMoment`, `RollbackRestores`, `HistoryKept` |
| `rollback_race` | the same | counterexample, see the [disagreements](#where-the-code-and-its-documents-disagree) |
| `planning_answers` | 687 plans of three periods, projects of two roles, up to two people and three features, searches, staffings, levels, squads, databases of three rows; 104,259 states | `HoursConserved`, `PeopleCostTheirCapacity`, `SearchIsUseful`, `WeeklyPlanSound`, `StaffedPlansEnd`, `LevelledInOrder`, `SquadPlanSound`, `AuditSound` |
| `backlog` | 3 initial trees, one of them empty, up to 13 items, 2 requests, 8 grids, 5 files, 2 orders, 3 estimates; 41,624 states | `TypeOK`, which says that the backlog is a tree, `OrderKept`, `GridAsAsked`, `ImportSettles`, `RefreshCompletes` |
| `planner_drawer` | 2 projects, 2 roles, plans of 2 weeks, 3 requests, 2 revisions; 1,044,972 states | `AppliesWhatIsShown`, `DraftSound`, `DraftKept`, `WaitingEnds` |
| `documents` | 2 clients, 3 documents, 2 formats, 2 minutes, 2 time zones; 1,619,114 states | `DocumentsKept` |

What the properties of the later runs say:

- `PlacementSound`, `LevelledSound`, `DocumentsKept` and the like are
  conjunctions of the named parts above them in their modules; each part has
  its own comment.
- `HoursConserved`: a plan means the same headcount read as people, as slots or
  as the role's aggregate, owned by the planner or transferred; demand is the
  cache, or the backlog's effort up to rounding; the sale, the export and the
  total agree where billing is alike; discounts take no more than they say.
- `PeopleCostTheirCapacity`: the assignment hands out the smaller of demand and
  capacity, nobody gets more than they have, and the weeks shown of each hold
  what they are given; the days a person with a capacity profile costs are the
  days they can be assigned, and a role costs no less than it is given.
- `SearchIsUseful`: nothing within the limits dominates the candidate ranked first; an
  applied candidate delivers when it said, a person who ramps up is away until
  the start, has no less later and leaves if they left before, and applying it
  twice is applying it once.
- `WeeklyPlanSound`: in every week of a plan in the making, nobody is given more
  than there is beside pinned work or than a feature may take, what was given
  and what is left are all the work, and nothing is worked on before what it
  waits for has ended, or outside a manual window. `StaffedPlansEnd`: a project
  whose roles keep their people from the week they have anybody gets a plan.
- `LevelledInOrder`: no feature of a levelling starts before what it waits for has
  ended; and features that are, each alone, within the capacity of the roles that
  hold them up are so together, week by week. The second part is claimed of
  questions whose features would be done, one after the other with the largest gap
  between them, within the 200 weeks that are searched (`Searchable`; two thirds
  of the run's levellings): beyond them the code takes the earliest week, room
  or not.
- `SquadPlanSound`: the plan read back as people is the headcount it says,
  within caps, floors and locks; a plan found within the target stays
  there after the reduction, and no quantum could have been spared; the apply's
  replay delivers the bars that were reviewed, and the people and slots it
  stores are the headcount of the review.
- `AuditSound`: a repair loses nothing any profile says and touches only rows as
  they were audited; planning can read every role of a database found ready.
- `CommitsWhatWasChecked`: what is committed for a review is committed on contents
  that were reviewed, and activated once. `UndoSound`: exactly the applies that
  went through leave a snapshot, and it is of the state they replaced, but for a
  part of it that went away and came back while the request ran (`CameBack`).
- `CacheSound` and `PinsSurvive` hold of all histories, overlaps and failures
  included, and name what these can do: between two statements, or after a
  failure there, rows or pins may be newer than the cache; the cache of a request
  that another overlapped need not know the pins; and a schedule takes
  a pin that it could not have read.
- `OrderKept`: apart from reorders, and edits that give one of the two its order, nothing
  puts an item before a sibling that it was behind. `ImportSettles`: importing a
  file twice is importing it once, and importing the export of a backlog changes nothing where it
  has an epic (an empty one is exported as an example) and its durations come
  back (they are rounded, and computed anew where they are blank or zero).
- `DocumentsKept`: a listed document has its own file, or that of a later request
  for the same format of the same project in the same minute, unless one of these was
  removed; a file nobody lists is left by a crash, a failed file operation or the
  deletion of the project.
- `RefreshCompletes`: a template refresh completes what an attempt left
  half-way, without doubling a task.

Why the bounds are enough. *Capacity:* two roles with three ids have, in turn, a
surplus row, an unfilled one, a clone, a person of its own and a new hire; what
crosses roles is what a plan leaves out, for which two roles suffice. The two
editor shapes exceed a person's cap, agree by chance with an older
profile, and have segments. *Dependencies:* the four dependencies
make a cycle of two and one of three nodes, so that a node or dependency can be
deleted on a path being walked, and a third request can meet a cycle that two
have closed. *Placement:*
three features in three epics allow an empty epic between two others, a chain
and a dependency that contradict each other, and features behind a cycle.
*Levelling:* weeks have two steps instead of five, so that a
step booked one week early meets a full week; four weeks is a horizon that
some workloads reach and others do not. *Store, activation, drawer:* the
hazards are two requests that overlap; a third would meet the same states
that the first leaves. Three commits let a reviewed content go away and come back
before the apply. *Snapshots:* retention of one record with two taken has
something to prune, and two concurrent prunes; two people let one be added to a restored
role after a rollback has listed whom to remove. *Answers:* three periods with a
gap have every kind of window boundary, heads of 25 to 225 percent every kind of
fraction; two roles are enough for one to hold up the other; three rows for a
duplicate, its edit and a bystander. *Backlog:* the trees have a half-applied
template, tied orders, and names that differ in capitals; thirteen ids hold the largest tree and
the eight items of the example, and a day of three hours gives durations that are
rounded. *Documents:* two names
can collide by the minute and by the time zone. The safety properties
of the runs `capacity` to `snapshots`, of `backlog` (apart from `ImportSettles`), of
`planner_drawer` and of `documents`, and `AuditSound`, `WeeklyPlanSound`,
`LevelledInOrder`, `SearchIsUseful` and `PeopleCostTheirCapacity` of
`planning_answers`, are theorems for all other sizes.

Deadlock checking is off where the system may stop: a scheduler call returns, and
the bounds on requests, edits and ids end the others.

## Fairness

`BacklogDependencies!FairGraphSpec` assumes that a request that has begun goes on
(`WF` of `SearchStep(r)`): the answer to a query resumes the handler, and no step of
it waits for another request; `PlanActivation!FairSpec` assumes the same of an
apply. Nothing is assumed of the clients, nor of the other requests.
`FeatureSchedule!FairSpec` and `LevelledSchedule!LevelFairSpec` assume weak
fairness of the next-state relation: `runScheduler` is one synchronous call that
nothing interrupts. `PlannerDrawer!Spec` assumes that a request that was sent is
answered or fails (`WF` of `Answers`): the browser ends every request. The
other specifications have none; their properties are all safety.

## The proofs

All theorems hold for any values of the constants that satisfy the named
assumptions (`ConstantsAssumption` and its like: sets of the right kind, finite
where something is counted, bounds that are numbers, and a `None` apart from
everything else, from rows and drafts too; tables of profiles that are finite, whose
ids are keys and whose `createdAt` nobody updates). What `PlanningAnswers` is asked
is described by `StaffingAssumption`, `LevelAssumption`, `SearchAssumption` and
`ProjectAssumption`; the last demands of profiles what
`capacityProfileStructureValidation.ts` demands before they are written (only a
capacity profile has segments, which end within the horizon and do not overlap; one
without any is the 0% of a planned resource), and numbers that are whole and not
negative where weeks, hours and cached days are counted.
Each is `Init => IInv`, one lemma per action for `IInv /\ [Next]_vars => IInv'`,
and `IInv => Property`.

**CapacityOwnership.** `ReadableProfiles`, `AgreedOwners`, `PossibleReplan`,
`KeptCapacity`. The invariant is `TypeOK /\ CloneMarked /\ PlannerRoleShaped /\
OnlyMirrorsExceed /\ PlannerCoherent /\ CurrentIsComplete`. Two parts say what
the others need: a profile marked `ROLE_DEFAULT` is a derived one of a named
person, and a planner-owned role always has the planner's shape, so that no
conflict check can take it for somebody else's. `CurrentIsComplete` depends on
`PlannerCoherent`, since deleting the last planned row changes what
completeness asks of its role. `PlannerCount` is proved on top; its hard step is
`ApplyPlan`, where ids in a range must be counted.

**BacklogDependencies.** `GraphTyping` and `SoundGraph`, for any number of nodes,
requests and imports. The invariant (`Walk`) says that the visited nodes are closed
under the searched dependencies up to the stack, but for those in `unseen`, from
the requested predecessor on; this survives deletions, which only remove paths.
A cycle that the new dependency closes, and all of whose dependencies were added
apart, has none of `unseen` in it: what of it starts at a visited node
is then closed without the new one (`NoNewCycle`), against the hypothesis.

**FeatureSchedule.** `SoundPlacement` and `Refinement`. The
invariant states that `inDegree` counts the predecessors not yet sorted and that
the queue holds exactly the unsorted features with none; with it, a leftover
has a leftover predecessor, and a finite acyclic graph has no leftovers.

**LevelledSchedule.** `SoundLevelling` and `SimulationRefinement`. The invariant
`LevelInv` is `Clock /\ Typed /\ Booked /\ PlacementStands /\ PinsKept /\
SimInOrder /\ BarsFollow /\ StoriesInOrder /\ WrittenInOrder`. `Booked` is the
heart of `WeeklyBudget`: what a week was given is at most its capacity times the
steps of it that are over, plus what the current step has handed out. A
step booked one week early needs the week before to have a step to spare; the
clock can only be low after an idle step, and `Clock` and `Booked` together
account for it.

`Effort` (`EffortKept`) stands on `LevelInv` and one more part, `Untouched`: before
the simulation nothing was given and everything is left. A sum is the number of
units in it (`Total(F)` is the cardinality of `Units(F)`, the pairs of an index and
a unit there), since a recursive sum would ask for induction over its
terms. What the steps need of sums is then counting: changing one term changes
the total by the difference, taking an index out takes its term out. `Allocate`
moves as much from `remaining` to `consumed` as it books, `FinishRound` moves on
to a story only when nothing of the last one remains.

**ScheduleStore.** `SoundCache` and `SurvivingPins`. The invariant is `TypeOK` with
`RequestOK` (what a plan in hand says of rows, pins and inactive items), `InTurn`
(requests begin in order, so that a later number is a later request), `Overlaps`
(two requests in flight have both been noted in `overlapped`, so that the plan
of one that is not there still describes the stored pins when it is written) and
`CacheKept`: a row or pin that the cache does not know was written by a request
that stands before its clearing statement, or failed there.

**PlanActivation.** `OneActivePlan`, `SoundUndo`, `CommitsChecked`. The invariant
dates what a request knows: since the last swap the same plan is active, and since
the last swap and review the same reviewed plans are stored (`SwapsKept`), and
Serializable refuses what looked before that; each part of a snapshot was read
after that part was as the proof says, and before the transaction looked again
(`RequestOK`), so that it differs only if it changed twice (`OriginOK`); no plan
rests on a state that had it, so that none is activated again from its review.

**Snapshots.** `ClonesOneMoment`, `RollbacksRestore`, `HistoryIsKept`. The invariant
says what each handler holds at each point (`Holding`): a rollback that has
loaded has an undo record of a valid v5 payload, and keeps the profiles of
exactly the roles its target lacks; a clone that has copied the rows still
has the project they come from. What a prune has listed stays *outlived*: `Keep`
newer restorable records are beside it, whatever the others delete in the
meantime (`Outlived`). It is outlived after any deletion of outlived
records: of those deleted above it take the newest; nothing above that one is
deleted, and there are `Keep` such records (`NewestStay`). For
`RollbackRestores`, items find their roles again by names without regard to case
(`RolesFoundAgain`), and the roles made since get back the profiles that were
read on opening (`SurvivorsStay`). Rollbacks take turns at the rows they share,
and since the roles of a snapshot are locked while it comes back, whoever is
added meanwhile is in another role (`InTurn`). `ClonedRows` drops the profiles, `WithProfile` brings them back, and
together they are the identity on every project whose items have their
roles (`RolesExist`).

**PlannerDrawer.** `DraftStaysSound`, `AppliedAsShown`, `DraftIsKept`. The invariant is
`TypeOK /\ DraftsApart /\ IdsDiffer /\ AsksWhatIsShown /\ ResultIsShown /\
ResultHasDraft`. A request in flight counts by its id and by its revision: ids
are handed out once, and one with the current id and revision asks for
exactly what the screen shows, so that a result that is not stale answers it.
That edits of a role stay apart is an argument about ranges: what
`subtractRange` leaves of a source lies between the blockers
(`FragmentsApart`), so cutting the cells that an edit meets and adding the edit
puts nothing on a week twice (`RecutApart`) and leaves the staff of every
other week as it was (`RecutStaff`).

**Backlog.** `BacklogTyped`, `BacklogOrder`, `BacklogGrids`, `BacklogRefreshes`. The
invariant `BacklogInv` is `TypeOK`, which has that the backlog is a tree of four
levels and that no id is handed out twice, with what each request holds
between two of its statements (`Ready`): a grid that has been validated still fits
the tree, since nobody changes the kind of an item (`GridFits`); a story that is
being written knows each task of the template by its name, is yet to write it,
or has written it once (`StoryReady`). Without the last, an action could end a
refresh in a state where a task is missing, and no step would be to blame.
Each operation has a lemma in `BacklogTree`'s terms: insertion, deletion with
everything below, a copy of a subtree under new ids (`CopyIsSame`), reordering, and
from them `DuplicateExact` and `OvertakesStep`. Import and grid build a tree row by row.
That every prefix of the rows leaves a tree goes by the least prefix that
would not (`LeastNumber`); a path has at most four names, so that what is found along
one is settled level by level (`FoundAlong`, `NewPath`). `GridAsAsked` needs that
the checks of a validation that count final names per parent say something
about the tree that is written: two siblings of the new tree are two final
names of one parent (`OldApart`, `NewFromOldApart`, `NewApart`).

**ScopeDocuments.** `KeptDocuments`. Ids are handed out in order and one handler
holds each (`Held`, `BeingWritten`); a file has the name of the document that wrote
it, and nothing is left of one that is unlinked (`Named`). Two documents with one
file name asked for the same (`NamesApart`), so that whoever writes or removes a
file is among those that `HasFile` allows (`FileStays`).

**PlanningAnswers.** `SoundAudit`, `SoundWeeklyPlan`, `LevelledStarts` and
`UsefulSearch`. For the audit, the questions and answers only remember which
tables an audit and a repair were asked of (`AuditedRight`); the argument is
about those. Two rows with one id that say the same are the same row
(`SameRow`), so that what matches a reported group that is as it was audited is
exactly that group (`MatchingIsGroup`); reported groups are those of
one owner each and have no row in common (`GroupsApart`); each has a survivor,
the oldest (`SurvivorThere`), which no other group takes away and which says what the removed
rows said. A group that is left after the repair of nothing but identical ones
would be part of one that was reported, with only its survivor left
(`RepairSucceeds`). In clean, complete tables every owner has
exactly one row of the kind planning expects (`ReadyReads`).

The weekly plan is sound for whatever is asked that `StaffingAssumption` allows:
references to what there is, amounts and weeks that are numbers, pinned stories
that take time, as `runSAPlanner` gets them. The invariant `PlanInv` types the plan
and, unless it was refused, says that pinned work fits (`PinsFit`), that no week
so far is overfull (`StaffedSoFar`), that given and left are the whole
(`ConservedSoFar`) and that what was given lies between the end of all
predecessors and the feature's own end (`OrderedSoFar`). Inside a week it is
`WeekInv(p, s, n, ready)`: the first `n` roles have been dealt with (`WorkedUpTo`), and
only features that were ready when the week began have got anything. A step of
the week is four facts: features without work start and end (`IsStarted`), a role's
free days are shared out (`ShareOut`: no share is more than there is room for, and
the shares together are no more than what is free), those who got something
start (`IsWorked`), those with nothing left end (`IsEnded`). A predecessor counts as
finished in a week only if its moment is before that week, so what it was given
is in earlier weeks; this is why the invariant dates the end of a feature after
everything it was given (`EndsAfter`), and why a feature that is done is
not ready again. The sharing in turn and the walk over the roles are recursive
functions; that each value is what its neighbour says, and so sound, goes by the
least index at which it would not be (`LeastNumber`). Sums over finite
sets (`SumInt`, `SumAny`) are taken apart one element at a time in the same way.
A refused plan is thrown away, and nothing is claimed of it.

The epic leveller is right for whatever is asked that `LevelAssumption` allows: as
`StaffingAssumption`, and no manual window that ends before it starts (one of no
length is allowed, and then no rate is looked at: there is no week to look at it
in). Its two loops are recursive functions, each with an invariant of its first n
steps. `QueuedIs`: the queue has every feature once (`InLine`), and each is behind
what it waits for (`Behind`), unless features wait for each other in a circle; for if
none can be released, those that are left are such a circle (`AllReleased`).
`StartingIs`: the first n of the queue have starts (`PlacedInv`) that keep the order
(`KeptOrder`) and the capacity (`KeptLevel`). The capacity is kept because there is a
week with room (`RoomAtLast`): when everything placed so far has ended, which is
no later than the sum of the durations and gaps so far (`Reach`). Without that sum
in the invariant the search could be exhausted, and the week that is
taken then need not have room. That the week taken has room is `PlacedIs`, and
what one more feature adds to the use of a role is `UsedWith`.

The optimiser is right for whatever is searched that `SearchAssumption` allows: a
project that the resolver can read, with one role per id, people of at most full time
(as `capacityProfileStructureValidation.ts:162` demands), ranges from one on and
roles of at least one. What is remembered of a search and of an application is
`SearchedRight`; the arguments are about the operators. There are finitely many
scenarios (`ScenariosAre`), all measured in whole numbers (`MetricsInt`), and every order
of ranking respects what is sooner, better used and cheaper (`FirstIsBest`); for the
balanced score because each of its three parts does (`ScoreIs`), whatever the least and
the most it is normalised by are. An application leads to the schedule
that was measured because it writes the counts the scenario was given
(`CountsStay`) and lengths come from stories and counts alone (`SameStories`); dating a
schedule again changes nothing (`DatedAgain`), and nobody is ramped up twice
(`RoleAppliedIs`). What a person has before and after is `RampKeeps`. That lasting
capacity is not lengthened is said of people who were there at all: one at 0% who
follows demand ramps up to 100%, and one whose window begins after the horizon may
be there at the horizon after all.

What people are given and cost is right for whatever project that
`ProjectAssumption` allows. What is remembered of an answer is `ProjectRight`; the
arguments are again about the operators, from the demand to the row of the role.
*Demand:* it is finite, and by week and name a number of days that is not negative,
wherever it comes from (`DemandIs`, from `FallbackIs`, `ConvertedIs`, `MergedIs`).
*Turns:* who is asked first is a total order, since the last of the four ranks is the
order of creation (`RanksAre`, `AskedInOrder`), so a last one is there to take away
(`LastAsked`) and each is asked once. *A week:* the shares of those asked so far and
what is left are the days asked for, and nothing is left unless all are exhausted
(`SharedOut`, `GivenInTurn`), so that together they are the smaller of the days and
the capacity (`GivenInWeek`); week by week this is `AssignmentIs`. *The role:* the
slots of people and the aggregate's own together can do what the scheduler counts
(`HoldersAre`).
*Spans:* around a week with days there is a run of such weeks, which is what is shown
(`SpanAround`). *Costs:* the days of one segment are the percentages of its weeks, and
those of segments that do not overlap add up to what the person can do, one
segment at a time (`SegmentDaysAre`, `PersonCostsCapacity`). A row is the larger of
what its people cost and what they are assigned (`AllocatedEnough`): for that every
way to count a person's days has to give a number (`PersonDaysInt`), windows that are
missing included.

**Only model-checked.** `SearchEnds`, `AllPlaced`, `LevellingEnds`, `RequestsEnd`
and `WaitingEnds`, which are liveness. `ImportSettles` of `Backlog`, and the properties
`HoursConserved`, `SquadPlanSound` and `StaffedPlansEnd` of `PlanningAnswers`.
`StaffedPlansEnd` is about progress. The others speak of chains of folds over
sequences (heads pulled apart into people, quanta taken out, rows of a file),
and what such a fold computes for every input takes an induction over data; for the
theorems it was enough that a fold stays within a set, or that it takes a finite
set apart one element at a time, which a least counterexample gives. Properties
that a run violates are counterexamples.

## What the models leave out

`PROJECT.json` says for every component what its models leave out. Across
components:

- A request of `CapacityOwnership` is one step. The handlers are transactions,
  but under READ COMMITTED two of them can interleave; `completeReplanning.ts:134`,
  `namedResources.ts:187` and `bulkAsNeededProfiles.ts:162` are exposed to it.
  Further writers of the same rows (rollback, the optimiser's headcounts and
  ramp-up profiles, roles created by an import) are not its actions, so
  `PlannerCount` speaks of the identity routes, Squad Planner and the reset.
- `CapacityOwnership`, `PlanActivation`, `SquadApply` and `ScheduleStore` each
  model one side of the apply and are not composed. The contents of
  `PlanActivation` are two values, of which one has an owner that is in a plan's way;
  a rollback may restore any of them. The legacy apply is an apply
  without a proof in `PlanActivation`; its timeline is one computed before the
  transaction, and its preflight is the same.
- Names, prices and weeks in `CapacityOwnership`; of a profile only the largest
  percentage and whether it has segments. PUT of a person changes nothing that
  is left.
- Durations, weekly capacities and the reservations of pinned features (`held`)
  are inputs to the scheduler models. A week is a number of steps, effort
  is counted in units a step can hold, so that the code's tolerance of 0.001
  hours and its 200 weeks of five steps become exact numbers. Tasks without hours
  are left out; ties are open. Story bars and warnings of the run without
  levelling, and the consumption reported for pinned features, are left out.
- Search order in the dependency walk, and the conflict answer that tells the
  two routers apart.
- The audit's readiness check looks at profiles; a project in `NEEDS_REPLAN`, the
  counts of snapshots and the shapes of segments are not part of it. The random
  sample that replaces an exhaustive search in the optimiser is left out, as
  are roles with a headcount of 0 in what it is asked.
- Quantities are whole in the units the modules choose (days, steps, percent);
  the code's rounding is modelled where a property depends on it and is named
  there.

## Not modelled

- *Planning benchmark* (`planning-benchmark.ts`): a development tool that
  times the planner on made-up projects.
- *Authentication, organisations, bootstrap*: which caller may do what. Every
  action of the models is that of a caller who passed these checks; tokens and
  passwords belong to libraries.
- *Server shell*: mounting, validation of bodies, error answers, mail.
- *Web client*, apart from the drawer and the dialogs named above: pages, forms
  and charts over the API. The query cache is invalidated after each mutation.
- *Tests, tooling, migrations*: not part of the running program. The schema
  is used for types, keys and cascades.

## Where the code and its documents disagree

Shown by a run:

- `rollback_race` (`SurvivorsOwnCapacity`): a rollback reads the profiles it keeps
  at the start of a READ COMMITTED transaction and deletes all profiles of the
  project at its end; a role created in between survives without one
  (`projectSnapshotCapacity.ts:886`), against "the retained role's profile is
  preserved atomically" (`projectSnapshotService.ts:538`).

Met while modelling, and visible in the models without a run of their own:

- A role above 100% is mirrored to its generated clones, whose readers reject
  them (`capacityProfileReplaceService.ts:369`, `roleProfileClonePolicy.ts:55`).
  `OnlyMirrorsExceed` excepts them.
- A deleted role stays in the active plan and blocks every later apply
  (`squadPlannerProfileWriter.ts:1219`).
- After a transfer and an edit of the role's basis, transferred rows count next to
  the role (`schedulerCapacityResolver.ts:302` against
  `capacityProfileTransferService.ts:281`, `src/docs/user-guide.md:240`).
- Two POSTs of dependencies that overlap can together close a cycle, against
  "Check for circular dependency before inserting" (`epicDependencies.ts:84`):
  `NoCycle` without `Apart` is violated. An import may write one (`csv.ts:838` against `README.md:286`).
- Compatible feature dependencies are not all kept where a chain of epics
  closes a cycle with them (`scheduler.ts:591` against `FUNCTIONAL_SPEC.md:573`).
- The pin of a deactivated feature makes levelling throw (`scheduler.ts:849`
  against `FUNCTIONAL_SPEC.md:204`).
- A feature with pinned stories whose other tasks have no hours ends without the
  check that its predecessors end before the pin (`sa-planner.ts:1055`; the check
  is at `:951` and `:1045`), and one that never gets ready although it has
  nothing to do is put at week 0 at the end (`sa-planner.ts:1081`).
  `WorkedInOrder` speaks of pinned stories whose feature was checked (`PinsSeen`).
- A pin need not survive a schedule that was computed before it was set
  (`scheduleProject.ts:164`, "manual rows keep their pinned values");
  `PinsSurvive` says which pins those are. A levelling, or the writing of a pin,
  that fails before its last statement leaves the old cache beside the new rows
  (`timeline.ts:558`, "clear cached demand"); `CacheSound` names those states.
- The undo snapshot of a reviewed apply may hold an edit that was undone before the
  transaction looked (`squadPlan.ts:1427` and `:1688`: the fingerprint compares
  contents, without times); `UndoIsExact` has the exception.
- The baseline shown next to a candidate with ramp-up is not what ships
  (`optimiser.ts:416`).
- Two ready epics start in one week although one may be open at a time
  (`sa-planner.ts:942` against its line 25).
- The drawer saves its settings before it has restored them
  (`SquadPlannerDrawer.tsx:515` and `:685`).
- Documents of a project and format share a file when the clock shows the same
  minute for both (`documents.ts:149`, `:179`, `:243`), deleting a project
  leaves its files, and `docx` holds a PDF. `DocumentsKept` says which document's file is
  found then.
- A write that fails half-way, or a clean-up that fails, leaves a file nobody lists
  (`documents.ts:160`, `:179`), against "wrap file write + DB insert so orphaned files
  are cleaned up on failure" (`documents.ts:157`); `NoOrphans` names these.
- An empty backlog is exported as an example that an import takes for a backlog
  (`csv.ts:195`); a duration that is zero, or has more than two decimals, does not come
  back (`csv.ts:273`, `:804`). `RoundTrip` speaks of the others.

Met while reading:

- A sequential epic waits for the epic before it only through features that are
  neither pinned nor excluded, and through its direct neighbour
  (`scheduler.ts:577`, `:586` against `src/docs/user-guide.md:117` and
  `scheduling-and-resource-model.md:445`); features behind a pinned one are not
  chained to those before it (`scheduler.ts:567` against
  `src/docs/user-guide.md:130`).
- Without levelling, those who wait for a pinned feature wait for its computed
  duration, not for the stored one (`scheduler.ts:646`, `scheduleProject.ts:169`).
- A feature the simulation does not begin keeps its unlevelled place, which
  may be before the levelled end of what it waits for (`scheduler.ts:983`
  against `FUNCTIONAL_SPEC.md:573`).
- Deleting a role removes planner-owned rows (`resourceTypes.ts:322` against the
  comment at `legacyCapacityFieldGuard.ts:114`).
- The headcount of a role a plan leaves out is zero although its people remain
  (`squadPlannerProfileWriter.ts:1226` against
  `scheduling-and-resource-model.md:730`).
- Story dependencies are stored, but the scheduler does not read them
  (`FUNCTIONAL_SPEC.md:574`) and snapshots do not capture them.
- Names of roles are not unique: a restored task joins a role whose name differs
  in case, weekly demand is keyed by the name, an import creates "Dev" next to
  "dev" although its preview takes them for one (`csv.ts:479`).
- A clone copies neither the demand cache nor snapshots, and fails on a plan entry
  of a deleted role.
- The export prices assigned days whatever the billing basis
  (`planning-resource-commercial-boundaries.md:240`); an overhead percentage is
  always of the total effort (`FUNCTIONAL_SPEC.md:515`).
- The timeline a legacy apply writes is computed before its transaction and
  written again unchanged when that is retried (`squadPlan.ts:1844`); the replay
  runs without the caps of the draft.
- Levelling of epics takes the capacity of week 0 for all weeks
  (`leveller.ts:280`); filling gaps may delay an epic. A feature for which there is
  no room within 200 weeks is put in its earliest week all the same
  (`leveller.ts:356`). The route that stores a manual window checks neither the sign
  nor the size of its length (`timeline.ts:580`), by which the leveller divides.
- POST `/generate` turns an empty marker into slots nobody planned
  (`schedulerCapacityResolver.ts:354`).

## Plan

In this order:

1. The requests of `CapacityOwnership` split into their statements under READ
   COMMITTED, for the races named under
   [what the models leave out](#what-the-models-leave-out), with the optimiser
   and the rollback as further writers.
2. The apply as a composition: `PlanActivation` as the protocol whose commit is
   `ApplyPlan` of `CapacityOwnership` and `CommitDraft` of `ScheduleStore`.
3. Accounts: invitations, last owners, bootstrap.
