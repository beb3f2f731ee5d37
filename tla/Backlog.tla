------------------------------- MODULE Backlog -------------------------------
(***************************************************************************)
(* Requests that edit a backlog side by side: the routes of its items,     *)
(* reordering and duplicating, Grid Entry, CSV import, and stories made    *)
(* and refreshed from templates (routes/applyTemplate.ts), which other     *)
(* requests edit and replace (routes/templates.ts).                        *)
(*                                                                         *)
(* Every step is a statement or a transaction; between two steps of one    *)
(* request others may take theirs, and a request may stop for good.        *)
(***************************************************************************)
EXTENDS BacklogGrid, BacklogCsv

CONSTANTS MaxRequest,  \* bound: requests in one behaviour
          MaxId,       \* bound: items ever made
          NewName,     \* the names that requests give
          NewOrder,    \* the places among the siblings that they give
          NewEstimate, \* the hours and durations that they give
          Grids,       \* what clients send to Grid Entry: sequences of rows
          Files,       \* the CSV files they import
          Lists,       \* the task lists they give a template
          InitTree, InitRoles, InitLibrary

TemplateTask == [name : Name, role : Name, hours : Nat]

(* Items are numbered as they were made; what clients send has the shape   *)
(* that the routes parse it into.                                          *)
ASSUME BacklogAssumption ==
  /\ MaxRequest \in Nat /\ MaxId \in Nat /\ NewName \subseteq Name /\ NewOrder \subseteq Nat
  /\ NewEstimate \subseteq [hours : Nat, days : Nat \cup {None}]
  /\ InitRoles \subseteq Name /\ DOMAIN InitLibrary \subseteq Name
  /\ \A t \in DOMAIN InitLibrary : InitLibrary[t] \in Seq(TemplateTask)
  /\ \A first \in InitTree :
       /\ DOMAIN first \in {1..n : n \in 0..MaxId}
       /\ IsTree(first, InitRoles)
       /\ \A i \in DOMAIN first : first[i].template \in DOMAIN InitLibrary \cup {None}
  /\ \A rows \in Grids : rows \in Seq(GridRow)
  /\ \A file \in Files : file \in Seq(CsvRow)
  /\ \A tasks \in Lists : tasks \in Seq(TemplateTask)

Request == 1..MaxRequest

VARIABLES tree,     \* id -> item
          made,     \* ids given so far
          roles,    \* names of the project's roles
          library,  \* template -> its tasks, in order
          shelf,    \* template -> the task lists its snapshots hold
          pc,       \* how far a request's handler is
          job       \* its input and local variables

vars == <<tree, made, roles, library, shelf, pc, job>>

Idle == [op |-> "none"]

Init ==
  /\ tree \in InitTree
  /\ made = Cardinality(DOMAIN tree)
  /\ roles = InitRoles
  /\ library = InitLibrary
  /\ shelf = [t \in DOMAIN InitLibrary |-> {}]
  /\ pc = [r \in Request |-> "unborn"]
  /\ job = [r \in Request |-> Idle]

Room(n) == made + n <= MaxId

(* The request r arrives with its input, does its first reads, and goes to *)
(* c.  Requests are numbered as they come.                                 *)
Arrives(r, input, c) ==
  /\ pc[r] = "unborn" /\ \A q \in Request : q < r => pc[q] # "unborn"
  /\ pc' = [pc EXCEPT ![r] = c]
  /\ job' = [job EXCEPT ![r] = input]

At(r, op, c) == job[r].op = op /\ pc[r] = c
Goes(r, c) == pc' = [pc EXCEPT ![r] = c] /\ UNCHANGED job
Ends(r, c) == pc' = [pc EXCEPT ![r] = c] /\ job' = [job EXCEPT ![r] = Idle]

----------------------------------------------------------------------------
(* The routes of the items.                                                *)

(* POST: ownership of the parent, the count of its children, the insert.   *)
CountSiblings(r, kind, parent, name) ==
  /\ ParentThere(tree, kind, parent)
  /\ Arrives(r, [op |-> "create", kind |-> kind, parent |-> parent, name |-> name,
                 count |-> Cardinality(Children(tree, parent))], "counted")
  /\ UNCHANGED <<tree, made, roles, library, shelf>>

Create(r) ==
  /\ At(r, "create", "counted")
  /\ ParentThere(tree, job[r].kind, job[r].parent)
  /\ Room(1)
  /\ tree' = Insert(tree, made + 1, NewItem(job[r].kind, job[r].parent, job[r].name, job[r].count))
  /\ made' = made + 1
  /\ Ends(r, "done")
  /\ UNCHANGED <<roles, library, shelf>>

(* PUT, of a name, the order, the status, a role or an estimate; names and *)
(* orders may repeat, and a role is not looked up.  A request that has the *)
(* hours only has the duration that they make.                             *)
Edit(r, i, item) ==
  /\ Arrives(r, Idle, "done")
  /\ tree' = [tree EXCEPT ![i] = item]
  /\ UNCHANGED <<made, roles, library, shelf>>

Rename(r, i, name) == i \in DOMAIN tree /\ Edit(r, i, [tree[i] EXCEPT !.name = name])
Place(r, i, order) == i \in DOMAIN tree /\ Edit(r, i, [tree[i] EXCEPT !.order = order])
Switch(r, i) == i \in DOMAIN tree /\ tree[i].kind # Task /\ Edit(r, i, [tree[i] EXCEPT !.active = ~@])
Reassign(r, i) == i \in DOMAIN tree /\ tree[i].kind = Task /\ Edit(r, i, [tree[i] EXCEPT !.role = Foreign])
Reestimate(r, i, e) ==
  i \in DOMAIN tree /\ tree[i].kind = Task /\ Edit(r, i, [tree[i] EXCEPT !.hours = e.hours, !.days = e.days])

Delete(r, i) ==
  /\ i \in DOMAIN tree
  /\ Arrives(r, Idle, "done")
  /\ tree' = WithoutItem(tree, i)
  /\ UNCHANGED <<made, roles, library, shelf>>

(* The page sends its list; the handler looks the ids up, then writes.     *)
Drag(r, i, parent, place) ==
  /\ i \in DOMAIN tree /\ ParentThere(tree, tree[i].kind, parent)
  /\ Arrives(r, [op |-> "reorder", list |-> Dragged(tree, i, parent, place)], "begun")
  /\ UNCHANGED <<tree, made, roles, library, shelf>>

Reorder(r) ==
  /\ At(r, "reorder", "begun")
  /\ CanReorder(tree, job[r].list)
  /\ tree' = Reordered(tree, job[r].list)
  /\ Ends(r, "done")
  /\ UNCHANGED <<made, roles, library, shelf>>

(* One RepeatableRead transaction.                                         *)
AskDuplicate(r, i) ==
  /\ i \in DOMAIN tree
  /\ Arrives(r, [op |-> "duplicate", item |-> i], "begun")
  /\ UNCHANGED <<tree, made, roles, library, shelf>>

Duplicate(r) ==
  /\ At(r, "duplicate", "begun")
  /\ job[r].item \in DOMAIN tree /\ CanDuplicate(tree, job[r].item)
  /\ Room(Cardinality(Below(tree, job[r].item)))
  /\ tree' = Duplicated(tree, job[r].item, made)
  /\ made' = made + Cardinality(Below(tree, job[r].item))
  /\ Ends(r, "done")
  /\ UNCHANGED <<roles, library, shelf>>

----------------------------------------------------------------------------
(* Grid Entry validates against what it reads, and commits later.          *)

ValidateGrid(r, rows) ==
  /\ GridAccepted(tree, roles, rows)
  /\ Arrives(r, [op |-> "grid", rows |-> rows, base |-> tree, types |-> roles], "valid")
  /\ UNCHANGED <<tree, made, roles, library, shelf>>

CommitGrid(r) ==
  /\ At(r, "grid", "valid")
  /\ CanCommitGrid(tree, job[r].base, job[r].rows)
  /\ Room(Cardinality(NewRows(job[r].rows)))
  /\ tree' = GridCommitted(tree, job[r].base, job[r].types, job[r].rows, made)
  /\ made' = made + Cardinality(NewRows(job[r].rows))
  /\ Ends(r, "done")
  /\ UNCHANGED <<roles, library, shelf>>

(* CSV import creates the roles that are missing, each in a statement of   *)
(* its own, and then everything else in a transaction.                     *)
Import(r, file) ==
  /\ Importable(StagedRows(file))
  /\ Arrives(r, [op |-> "import", file |-> file, fresh |-> RolesOfRows(StagedRows(file), roles)], "begun")
  /\ UNCHANGED <<tree, made, roles, library, shelf>>

CreateRole(r) ==
  /\ At(r, "import", "begun")
  /\ \E n \in job[r].fresh :
       /\ roles' = roles \cup {n}
       /\ job' = [job EXCEPT ![r].fresh = @ \ {n}]
  /\ UNCHANGED <<tree, made, library, shelf, pc>>

CommitImport(r) ==
  /\ At(r, "import", "begun") /\ job[r].fresh = {}
  /\ LET s == Imported(tree, made, StagedRows(job[r].file), library, roles)
     IN /\ s.made <= MaxId
        /\ tree' = s.tree
        /\ made' = s.made
  /\ Ends(r, "done")
  /\ UNCHANGED <<roles, library, shelf>>

----------------------------------------------------------------------------
(* Templates.  Applying one reads it and the roles, creates the story, and *)
(* then one task after the other, without a transaction.                   *)

(* The role of a template task: by its name, or else any.                  *)
RoleForTask(t) == IF RoleCalled(roles, t.role) # None THEN RoleCalled(roles, t.role)
                  ELSE IF roles = {} THEN None ELSE CHOOSE any \in roles : TRUE

(* Tasks of a list that are still to be written, by their place in it.     *)
ToWrite(tasks, places, from) ==
  [n \in places |-> [name |-> tasks[n].name, role |-> RoleForTask(tasks[n]), hours |-> tasks[n].hours,
                     order |-> from + Cardinality({m \in places : m < n})]]

Rest(todo) == Restrict(todo, DOMAIN todo \ {Min(DOMAIN todo)})

(* seen are the names the tasks of the story had, own the places of those  *)
(* that the request has added.                                             *)
Writing(story, tasks, seen, todo, change) ==
  [op |-> "template", story |-> story, tasks |-> tasks, seen |-> seen, own |-> <<>>, todo |-> todo, change |-> change]

Apply(r, feature, template, name) ==
  /\ feature \in DOMAIN tree /\ tree[feature].kind = Feature
  /\ Room(1)
  /\ LET tasks == library[template]
     IN Arrives(r, Writing(made + 1, tasks, <<>>, ToWrite(tasks, DOMAIN tasks, 0), <<>>), "writing")
  /\ tree' = Insert(tree, made + 1, [NewItem(Story, feature, name, Cardinality(Children(tree, feature)))
                                       EXCEPT !.template = template])
  /\ made' = made + 1
  /\ UNCHANGED <<roles, library, shelf>>

(* A refresh changes the tasks it knows by name and adds the others.       *)
NamedExactly(t, names) == t.name \in names
NamedLike(t, names) == Key(t.name) \in names
Refresh(r, story) ==
  /\ story \in DOMAIN tree /\ tree[story].kind = Story /\ tree[story].template # None
  /\ LET tasks == library[tree[story].template]
         seen == [i \in Children(tree, story) |-> tree[i].name]
         known == {n \in DOMAIN tasks : NamedLike(tasks[n], {Key(seen[i]) : i \in DOMAIN seen})}
     IN Arrives(r, Writing(story, tasks, seen,
                           ToWrite(tasks, DOMAIN tasks \ known, Cardinality(DOMAIN seen)),
                           ToWrite(tasks, known, 0)), "writing")
  /\ UNCHANGED <<tree, made, roles, library, shelf>>

ChangeTask(r) ==
  /\ At(r, "template", "writing") /\ DOMAIN job[r].change # {}
  /\ LET t == job[r].change[Min(DOMAIN job[r].change)]
         i == CHOOSE j \in DOMAIN job[r].seen : Key(job[r].seen[j]) = Key(t.name)
     IN /\ i \in DOMAIN tree
        /\ tree' = [tree EXCEPT ![i].hours = t.hours, ![i].days = CalcDurationDays(t.hours),
                                ![i].role = IF t.role = None THEN @ ELSE t.role]
  /\ job' = [job EXCEPT ![r].change = Rest(@)]
  /\ UNCHANGED <<made, roles, library, shelf, pc>>

AddTask(r) ==
  /\ At(r, "template", "writing") /\ DOMAIN job[r].change = {} /\ DOMAIN job[r].todo # {}
  /\ job[r].story \in DOMAIN tree
  /\ LET n == Min(DOMAIN job[r].todo)
         t == job[r].todo[n]
     IN IF t.role = None THEN /\ job' = [job EXCEPT ![r].todo = Rest(@)]
                              /\ UNCHANGED <<tree, made>>
        ELSE /\ Room(1)
             /\ tree' = Insert(tree, made + 1, [NewItem(Task, job[r].story, t.name, t.order)
                                                  EXCEPT !.role = t.role, !.hours = t.hours, !.days = CalcDurationDays(t.hours)])
             /\ made' = made + 1
             /\ job' = [job EXCEPT ![r].todo = Rest(@), ![r].own = Insert(@, made + 1, n)]
  /\ UNCHANGED <<roles, library, shelf, pc>>

Written(r) ==
  /\ At(r, "template", "writing") /\ DOMAIN job[r].change = {} /\ DOMAIN job[r].todo = {}
  /\ Ends(r, "done")
  /\ UNCHANGED <<tree, made, roles, library, shelf>>

(* Import and restore of a template keep its tasks in a snapshot, delete   *)
(* them, and create the new ones one after the other.                      *)
Replace(r, template, tasks) ==
  /\ Arrives(r, [op |-> "replace", template |-> template, tasks |-> tasks], "begun")
  /\ shelf' = [shelf EXCEPT ![template] = @ \cup {library[template]}]
  /\ UNCHANGED <<tree, made, roles, library>>

RestoreTemplate(r, template) == \E tasks \in shelf[template] : Replace(r, template, tasks)

Empty(r) ==
  /\ At(r, "replace", "begun")
  /\ library' = [library EXCEPT ![job[r].template] = <<>>]
  /\ Goes(r, "filling")
  /\ UNCHANGED <<tree, made, roles, shelf>>

Fill(r) ==
  /\ At(r, "replace", "filling")
  /\ IF job[r].tasks = <<>> THEN Ends(r, "done") /\ UNCHANGED library
     ELSE /\ library' = [library EXCEPT ![job[r].template] = Append(@, Head(job[r].tasks))]
          /\ job' = [job EXCEPT ![r].tasks = Tail(@)]
          /\ UNCHANGED pc
  /\ UNCHANGED <<tree, made, roles, shelf>>

----------------------------------------------------------------------------
(* A request that finds its item or parent gone, or a role of another      *)
(* project, is refused or fails; and the process may end.                  *)
Stop(r) ==
  /\ pc[r] \notin {"unborn", "done", "stopped"}
  /\ Ends(r, "stopped")
  /\ UNCHANGED <<tree, made, roles, library, shelf>>

Step(r) ==
  \/ \E kind \in Kind, parent \in {Project} \cup DOMAIN tree, name \in NewName : CountSiblings(r, kind, parent, name)
  \/ \E i \in DOMAIN tree, name \in NewName : Rename(r, i, name)
  \/ \E i \in DOMAIN tree, order \in NewOrder : Place(r, i, order)
  \/ \E i \in DOMAIN tree, e \in NewEstimate : Reestimate(r, i, e)
  \/ \E i \in DOMAIN tree : Switch(r, i) \/ Reassign(r, i) \/ Delete(r, i) \/ AskDuplicate(r, i) \/ Refresh(r, i)
  \/ \E i \in DOMAIN tree, parent \in {Project} \cup DOMAIN tree, place \in {"first", "last"} : Drag(r, i, parent, place)
  \/ \E rows \in Grids : ValidateGrid(r, rows)
  \/ \E file \in Files : Import(r, file)
  \/ \E i \in DOMAIN tree, t \in DOMAIN library, name \in NewName : Apply(r, i, t, name)
  \/ \E t \in DOMAIN library, tasks \in Lists : Replace(r, t, tasks)
  \/ \E t \in DOMAIN library : RestoreTemplate(r, t)
  \/ Create(r) \/ Reorder(r) \/ Duplicate(r) \/ CommitGrid(r) \/ CreateRole(r) \/ CommitImport(r)
  \/ ChangeTask(r) \/ AddTask(r) \/ Written(r) \/ Empty(r) \/ Fill(r) \/ Stop(r)

Next == \E r \in Request : Step(r)

Spec == Init /\ [][Next]_vars

----------------------------------------------------------------------------
(* Properties.                                                             *)

(* Every item hangs below one of the kind above it and has a role of the   *)
(* project, of another project, or none, a story a template there is; ids  *)
(* are never given again, and templates hold tasks.                        *)
TypeOK ==
  /\ IsTree(tree, roles)
  /\ \A i \in DOMAIN tree : tree[i].template \in DOMAIN library \cup {None}
  /\ made \in 0..MaxId /\ DOMAIN tree \subseteq 1..made
  /\ roles \subseteq Name
  /\ \A t \in DOMAIN library : library[t] \in Seq(TemplateTask) /\ shelf[t] \subseteq Seq(TemplateTask)
  /\ pc \in [Request -> {"unborn", "counted", "begun", "valid", "writing", "filling", "done", "stopped"}]

(* What is below k in the tree u is what is below i in t, but for ids.     *)
SameBelow(t, i, u, k) ==
  \E id \in Bijection(Below(t, i), Below(u, k)) :
    /\ id[i] = k
    /\ \A j \in Below(t, i) \ {i} : u[id[j]] = [t[j] EXCEPT !.parent = id[@]]

(* duplicateBacklogItem: one item is new among the siblings, it has below  *)
(* it what the source has, it is between the source with all that was not  *)
(* behind it and all that was, and nothing else changes.                   *)
DuplicatesExactly ==
  \A r \in Request : At(r, "duplicate", "begun") /\ pc'[r] = "done" =>
    LET i == job[r].item
        new == DOMAIN tree' \ DOMAIN tree
    IN \E c \in new :
         /\ new = Below(tree', c) /\ SameBelow(tree, i, tree', c)
         /\ [tree'[c] EXCEPT !.order = 0] = [tree[i] EXCEPT !.order = 0, !.name = CopyName(@)]
         /\ \A j \in DOMAIN tree :
              /\ [tree'[j] EXCEPT !.order = 0] = [tree[j] EXCEPT !.order = 0]
              /\ IF j \in Siblings(tree, i) \cup {i}
                 THEN IF tree[j].order > tree[i].order THEN tree'[j].order > tree'[c].order
                                                       ELSE tree'[j].order < tree'[c].order
                 ELSE tree'[j].order = tree[j].order

(* Only a reorder, or an edit that gives one of the two its order, puts a  *)
(* sibling before another that it was behind: creation by count,           *)
(* duplication, grids, files and templates do not.                         *)
EditsOrderOf(i) ==
  \E r \in Request, order \in NewOrder :
    pc[r] = "unborn" /\ pc'[r] = "done" /\ tree' = [tree EXCEPT ![i].order = order]

OvertakesByReorder ==
  \A i, j \in DOMAIN tree \cap DOMAIN tree' :
    tree[i].parent = tree[j].parent /\ tree[i].order < tree[j].order /\ tree'[i].order >= tree'[j].order
    => \/ \E r \in Request : At(r, "reorder", "begun") /\ pc'[r] = "done"
       \/ EditsOrderOf(i) \/ EditsOrderOf(j)

OrderKept == [][DuplicatesExactly /\ OvertakesByReorder]_vars

(* A grid that commits to the tree it was validated against does what its  *)
(* rows say: items get their names, new items are below the parents that   *)
(* were named, no other item changes, and no two siblings come to have the *)
(* same name.                                                              *)
GridAsAsked ==
  [][\A r \in Request : At(r, "grid", "valid") /\ job[r].base = tree /\ pc'[r] = "done" =>
       LET rows == job[r].rows
           named == [i \in DOMAIN tree' |-> IF i \in DOMAIN tree THEN [tree'[i] EXCEPT !.name = tree[i].name] ELSE tree'[i]]
           asked == {rows[n].id : n \in DOMAIN rows}
       IN /\ \A n \in DOMAIN rows :
               IF rows[n].id # None THEN tree'[rows[n].id].name = rows[n].name
               ELSE \E i \in DOMAIN tree' \ DOMAIN tree :
                      tree'[i].name = rows[n].name /\ Keys(PathOf(named, i)) = Keys(Append(rows[n].path, rows[n].name))
          /\ \A i \in DOMAIN tree \ asked : tree'[i] = tree[i]
          /\ \A i, j \in DOMAIN tree' :
               i # j /\ tree'[i].parent = tree'[j].parent /\ Key(tree'[i].name) = Key(tree'[j].name)
               => {i, j} \subseteq DOMAIN tree /\ Key(tree[i].name) = Key(tree[j].name)]_vars

(* Importing the export of a backlog changes nothing, where there is an    *)
(* epic, no two siblings have a name, no two roles a key, no role is       *)
(* another project's, the templates have nothing to add (no story with a   *)
(* template is without tasks, and no task without hours is one of its      *)
(* template's), and the durations come back: each is in hundredths, and    *)
(* zero only where the hours make nothing.                                 *)
Exportable ==
  /\ Children(tree, Project) # {}
  /\ \A i, j \in DOMAIN tree : i # j /\ tree[i].parent = tree[j].parent => tree[i].name # tree[j].name
  /\ \A a, b \in roles : a # b => Key(a) # Key(b)
  /\ \A i \in DOMAIN tree :
       /\ tree[i].role # Foreign
       /\ tree[i].template # None => Children(tree, i) # {}
       /\ tree[i].kind = Task =>
            /\ tree[i].hours = 0 => tree[tree[i].parent].template = None
            /\ tree[i].days # None /\ tree[i].days = Round2(tree[i].days)
            /\ tree[i].days = 0 => CalcDurationDays(tree[i].hours) = 0

RoundTrip ==
  Exportable => Imported(tree, made, StagedRows(Exported(tree)), library, roles).tree = tree

(* Importing a file a second time changes nothing, the template of an      *)
(* empty backlog included, and neither does the file that was exported     *)
(* from what is there.                                                     *)
ImportSettles ==
  /\ []RoundTrip
  /\ [][\A r \in Request : At(r, "import", "begun") /\ pc'[r] = "done" =>
          Imported(tree', made', StagedRows(job[r].file), library, roles).tree = tree']_vars

(* A story that is made or refreshed from a template has, when that ends   *)
(* and nobody else has added, deleted or renamed its tasks, every task of  *)
(* the template, and none more often than the template that had not been   *)
(* there: also after an earlier attempt has stopped half-way.  A project   *)
(* without roles gets no tasks.                                            *)
StoryComplete(r) ==
  LET now == Children(tree, job[r].story)
      tasks == job[r].tasks
      like(S, t) == {i \in S : Key(tree[i].name) = Key(t.name)}
  IN /\ job[r].story \in DOMAIN tree
     /\ now = DOMAIN job[r].seen \cup DOMAIN job[r].own
     /\ \A i \in DOMAIN job[r].seen : tree[i].name = job[r].seen[i]
     /\ \A i \in DOMAIN job[r].own : tree[i].name = tasks[job[r].own[i]].name
     => \A t \in Range(tasks) :
          /\ InitRoles # {} => like(now, t) # {}
          /\ \/ like(now, t) \subseteq DOMAIN job[r].seen
             \/ Cardinality(like(now, t)) <= Cardinality({n \in DOMAIN tasks : Key(tasks[n].name) = Key(t.name)})
RefreshCompletes ==
  [][\A r \in Request : At(r, "template", "writing") /\ pc'[r] = "done" => StoryComplete(r)]_vars
=============================================================================
