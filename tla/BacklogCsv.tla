------------------------------ MODULE BacklogCsv ------------------------------
(***************************************************************************)
(* The backlog as a CSV file (routes/csv.ts): the export, the staging of a *)
(* file for review, and the import of the staged rows.                     *)
(*                                                                         *)
(* A row of a file has a kind, a cell for the name at each level, and the  *)
(* status, template, size, role, hours and duration columns.  The names    *)
(* are those that survive sanitizeCsvCell unchanged; dependencies by name  *)
(* are in BacklogDependencies.  library gives the tasks of each template;  *)
(* of its sizes one is modelled.                                           *)
(***************************************************************************)
EXTENDS BacklogTree

Blank == [l \in Kind |-> None]

CsvRow == [kind : Kind, cells : [Kind -> Name \cup {None}], active : BOOLEAN, template : Name \cup {None},
           sized : BOOLEAN, role : Name \cup {None}, hours : Nat, days : Nat]

FileRow(kind, cells, active, template, sized, role, hours, days) ==
  [kind |-> kind, cells |-> cells, active |-> active, template |-> template, sized |-> sized,
   role |-> role, hours |-> hours, days |-> days]

----------------------------------------------------------------------------
(* Export: depth first, in order; an item names its ancestors.  A duration *)
(* is rounded; a blank one is read as zero.                                *)

RowOf(tree, i) ==
  LET path == PathOf(tree, i)
  IN FileRow(tree[i].kind, [l \in Kind |-> IF l \in DOMAIN path THEN path[l] ELSE None], tree[i].active,
             tree[i].template, tree[i].template # None, tree[i].role, tree[i].hours,
             IF tree[i].days = None THEN 0 ELSE Round2(tree[i].days))

DepthFirst(tree) ==
  LET with(lower(_), i) == <<i>> \o FlattenSeq([n \in DOMAIN Sorted(tree, i) |-> lower(Sorted(tree, i)[n])])
      task(i) == <<i>>
      story(i) == with(task, i)
      feature(i) == with(story, i)
      epic(i) == with(feature, i)
  IN FlattenSeq([n \in DOMAIN Sorted(tree, Project) |-> epic(Sorted(tree, Project)[n])])

(* For an empty backlog: a row that explains the columns, and is read as a *)
(* task's, and the rows of an example.                                     *)
Says(word) == [word |-> word, copies |-> 0, capital |-> TRUE]

TemplateRow(path, template, role, hours) ==
  FileRow(Len(path), [l \in Kind |-> IF l \in DOMAIN path THEN Says(path[l]) ELSE None], TRUE,
          template, template # None, role, hours, 0)

TemplateRows ==
  LET setup(path) == TemplateRow(<<"Platform Setup">> \o path, None, None, 0)
      login == <<"Platform Setup", "Authentication", "User can log in">>
  IN <<TemplateRow(<<"Epic name", "Feature name", "Story name", "Task name">>, Says("Template name"), Says("Role name"), 0),
       setup(<<>>), TemplateRow(<<"Mobile App">>, None, None, 0),
       setup(<<"Authentication">>), setup(<<"User Profile">>),
       TemplateRow(<<"Mobile App", "Login Screen">>, None, None, 0),
       TemplateRow(login, Says("Login Flow"), None, 0), TemplateRow(Append(login, "Backend API"), None, Says("Developer"), 8)>>

Exported(tree) ==
  LET items == DepthFirst(tree)
  IN IF items = <<>> THEN TemplateRows ELSE [n \in DOMAIN items |-> RowOf(tree, items[n])]

----------------------------------------------------------------------------
(* Staging: an empty cell takes the last name above it that was not empty, *)
(* whatever row that was in, except that a task must have its own.         *)

CarriedDown(file, r, l) ==
  LET above == {s \in 1..r : file[s].cells[l] # None}
  IN IF above = {} \/ (l = Task /\ file[r].cells[l] = None) THEN None ELSE file[Max(above)].cells[l]

StagedRows(read) ==
  LET file == <<>> \o read  \* for TLC: a tuple, its rows evaluated once
      path(r) == [l \in 1..file[r].kind |-> CarriedDown(file, r, l)]
  IN [r \in DOMAIN file |->
        [path |-> path(r), active |-> file[r].active, template |-> file[r].template, sized |-> file[r].sized,
         role |-> file[r].role, hours |-> file[r].hours, days |-> file[r].days]]

(* A row with an error stops the import; warnings do not.                  *)
Importable(rows) == rows # <<>> /\ \A r \in DOMAIN rows : \A l \in DOMAIN rows[r].path : rows[r].path[l] # None

----------------------------------------------------------------------------
(* The import.  Roles nothing is called like are created first, one for    *)
(* each spelling.                                                          *)

RolesOfRows(rows, roles) ==
  {n \in {rows[r].role : r \in DOMAIN rows} \ {None} : \A t \in roles : Key(t) # Key(n)}

RoleCalled(roles, name) ==
  LET same == {t \in roles : name # None /\ Key(t) = Key(name)}
  IN IF same = {} THEN None ELSE CHOOSE t \in same : TRUE

(* The state of the transaction: the tree, the ids given, the items that   *)
(* paths of the file have led to, and the template and size a story was    *)
(* first mentioned with.                                                   *)
Begun(tree, made) == [tree |-> tree, made |-> made, at |-> <<>>, using |-> <<>>]

Added(s, item) == [s EXCEPT !.made = @ + 1, !.tree = Insert(@, s.made + 1, item)]

(* findFirst by the exact name.                                            *)
Same(tree, parent, name) == {i \in Children(tree, parent) : tree[i].name = name}

TemplateOf(library, row) == IF row.template \in DOMAIN library THEN row.template ELSE None

HasTaskRows(rows, path) ==
  \E r \in DOMAIN rows : Len(rows[r].path) = Task /\ SubSeq(rows[r].path, 1, Story) = path

(* The tasks of the template that the story does not have, for a story     *)
(* without rows for tasks.                                                 *)
WithTask(s, story, t, roles) ==
  Added(s, [NewItem(Task, story, t.name, Cardinality(Children(s.tree, story)))
              EXCEPT !.role = RoleCalled(roles, t.role), !.hours = t.hours, !.days = CalcDurationDays(t.hours)])
ExpandedBy(s, story, t, roles) ==
  IF Same(s.tree, story, t.name) # {} THEN s ELSE WithTask(s, story, t, roles)
Expanded(s, story, tasks, roles) ==
  LET after[n \in 0..Len(tasks)] == IF n = 0 THEN s ELSE ExpandedBy(after[n - 1], story, tasks[n], roles)
  IN after[Len(tasks)]

(* An item above or at the row's own level, at its first mention: found or *)
(* created; only a row of its own kind says anything about it.             *)
Mentioned(s, row, l, library) ==
  LET path == SubSeq(row.path, 1, l)
      own == l = Len(row.path)
      parent == IF l = Epic THEN Project ELSE s.at[SubSeq(row.path, 1, l - 1)]
      same == Same(s.tree, parent, path[l])
      template == IF own /\ l = Story THEN TemplateOf(library, row) ELSE None
      put(item) == [item EXCEPT !.active = row.active, !.template = IF template # None THEN template ELSE @]
      item == NewItem(l, parent, path[l], Cardinality(Children(s.tree, parent)))
      u == IF same = {} THEN Added(s, IF own THEN put(item) ELSE item)
           ELSE IF own THEN [s EXCEPT !.tree[CHOOSE i \in same : TRUE] = put(@)] ELSE s
  IN IF path \in DOMAIN s.at THEN s
     ELSE [u EXCEPT !.at = Insert(@, path, IF same # {} THEN CHOOSE i \in same : TRUE ELSE u.made),
                    !.using = Insert(@, path, [template |-> template, sized |-> own /\ row.sized])]

StoryMentioned(s, rows, row, library, roles) ==
  LET path == SubSeq(row.path, 1, Story)
      u == Mentioned(s, row, Story, library)
      using == u.using[path]
  IN IF path \notin DOMAIN s.at /\ using.template # None /\ using.sized /\ ~HasTaskRows(rows, path)
     THEN Expanded(u, u.at[path], library[using.template], roles)
     ELSE u

(* Hours that are zero are the template's.                                 *)
EffectiveHours(s, row, library) ==
  LET using == s.using[SubSeq(row.path, 1, Story)]
      same == IF using.template = None \/ ~using.sized THEN {}
              ELSE {n \in DOMAIN library[using.template] : library[using.template][n].name = row.path[Task]}
  IN IF row.hours = 0 /\ same # {} THEN library[using.template][Min(same)].hours ELSE row.hours

TaskWritten(s, row, library, roles) ==
  LET story == s.at[SubSeq(row.path, 1, Story)]
      same == Same(s.tree, story, row.path[Task])
      hours == EffectiveHours(s, row, library)
      days == IF row.days = 0 THEN CalcDurationDays(hours) ELSE row.days
      put(item) == [item EXCEPT !.role = RoleCalled(roles, row.role), !.hours = hours, !.days = days]
  IN IF same # {} THEN [s EXCEPT !.tree[CHOOSE i \in same : TRUE] = put(@)]
     ELSE Added(s, put(NewItem(Task, story, row.path[Task], Cardinality(Children(s.tree, story)))))

Upserted(s, rows, row, library, roles) ==
  LET epic == Mentioned(s, row, Epic, library)
      feature == Mentioned(epic, row, Feature, library)
      story == StoryMentioned(feature, rows, row, library, roles)
  IN CASE Len(row.path) = Epic -> epic
       [] Len(row.path) = Feature -> feature
       [] Len(row.path) = Story -> story
       [] Len(row.path) = Task -> TaskWritten(story, row, library, roles)

Imported(tree, made, staged, library, roles) ==
  LET rows == <<>> \o staged
      after[n \in 0..Len(rows)] == IF n = 0 THEN Begun(tree, made)
                                   ELSE Upserted(after[n - 1], rows, rows[n], library, roles)
  IN after[Len(rows)]
=============================================================================
