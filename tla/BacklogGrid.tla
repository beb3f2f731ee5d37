----------------------------- MODULE BacklogGrid -----------------------------
(***************************************************************************)
(* Grid Entry: rows that rename items, or add items under parents they     *)
(* name (lib/backlogGrid.ts).  A row has an id or None, a kind, the names  *)
(* of the ancestors, a name and, for a task, the name of a role, the hours *)
(* and perhaps the duration.                                               *)
(***************************************************************************)
EXTENDS BacklogTree

GridRow == [id : Nat \cup {None}, kind : Kind, path : Seq(Name), name : Name, role : Name,
            hours : Nat, days : Nat \cup {None}]

Existing(row) == row.id # None
New(rows, kind) == {r \in DOMAIN rows : ~Existing(rows[r]) /\ rows[r].kind = kind}
FullPath(row) == Append(row.path, row.name)

----------------------------------------------------------------------------
(* Names are resolved against the tree as it was and the rows of the grid. *)

(* findUniqueByName: the one child of that name, or None when there is no  *)
(* such child or there are several.                                        *)
UniqueByName(tree, parent, name) ==
  LET same == {i \in Children(tree, parent) : Key(tree[i].name) = Key(name)}
  IN IF parent # None /\ Cardinality(same) = 1 THEN CHOOSE i \in same : TRUE ELSE None

(* The item a path leads to, level by level.                               *)
Found(tree, path) ==
  LET at[l \in 0..Len(path)] == IF l = 0 THEN Project ELSE UniqueByName(tree, at[l - 1], path[l])
  IN at[Len(path)]

Staged(rows, path) == {r \in New(rows, Len(path)) : Keys(FullPath(rows[r])) = Keys(path)}

(* Every ancestor a new row names is there or comes with the grid.  Of an  *)
(* epic several of that name are refused even then.                        *)
AncestorsKnown(tree, rows, row) ==
  \A l \in DOMAIN row.path :
    LET path == SubSeq(row.path, 1, l)
    IN Found(tree, path) # None \/ Staged(rows, path) # {}

(* No item of that parent has the name already.                            *)
NameFree(tree, row, others) == \A i \in others : Key(tree[i].name) # Key(row.name)

RenameFree(tree, row) ==
  /\ row.id \in DOMAIN tree /\ tree[row.id].kind = row.kind
  /\ NameFree(tree, row, Siblings(tree, row.id))

NewNameFree(tree, row) ==
  LET parent == Found(tree, row.path)
  IN parent # None => NameFree(tree, row, Children(tree, parent))

RoleKnown(roles, row) ==
  row.kind = Task => Cardinality({t \in roles : Key(t) = Key(row.role)}) = 1

(* The paths as they will be: the renamed ancestors by their new names.    *)
FinalName(tree, rows, i) ==
  LET renames == {r \in DOMAIN rows : rows[r].id = i}
  IN IF renames = {} THEN tree[i].name ELSE rows[CHOOSE r \in renames : TRUE].name

FinalPathOf(tree, rows, i) ==
  PathOf([j \in DOMAIN tree |-> [tree[j] EXCEPT !.name = Key(FinalName(tree, rows, j))]], i)

FinalPath(tree, rows, row) ==
  IF Existing(row) THEN FinalPathOf(tree, rows, row.id)
  ELSE [l \in DOMAIN FullPath(row) |->
          LET there == IF l > Len(row.path) THEN None ELSE Found(tree, SubSeq(row.path, 1, l))
          IN Key(IF there = None THEN FullPath(row)[l] ELSE FinalName(tree, rows, there))]

(* No row ends up where another row or an item outside the grid is.        *)
NoClashOutside(tree, rows) ==
  \A r \in DOMAIN rows, i \in DOMAIN tree :
    (\A s \in DOMAIN rows : rows[s].id # i) => FinalPathOf(tree, rows, i) # FinalPath(tree, rows, rows[r])
NoClash(tree, rows) ==
  /\ \A r, s \in DOMAIN rows : r # s => FinalPath(tree, rows, rows[r]) # FinalPath(tree, rows, rows[s])
  /\ NoClashOutside(tree, rows)

(* validateBacklogGrid and the checks of the rows' shape.                  *)
GridAccepted(tree, roles, rows) ==
  /\ \A r \in DOMAIN rows :
       LET row == rows[r]
       IN /\ Len(row.path) = row.kind - 1
          /\ RoleKnown(roles, row)
          /\ IF Existing(row) THEN RenameFree(tree, row)
                              ELSE AncestorsKnown(tree, rows, row) /\ NewNameFree(tree, row)
  /\ \A r, s \in DOMAIN rows : r # s /\ Existing(rows[r]) => rows[r].id # rows[s].id
  /\ NoClash(tree, rows)

----------------------------------------------------------------------------
(* The commit.  Rows go in by kind, and by their place within a kind; a    *)
(* parent is an item of the tree that was validated, by its old name, or a *)
(* row that went in before.  New siblings are numbered from the count that *)
(* was read then.                                                          *)

NewRows(rows) == {r \in DOMAIN rows : ~Existing(rows[r])}

IdOfNew(rows, made, r) ==
  made + Cardinality({s \in NewRows(rows) : rows[s].kind < rows[r].kind \/ (rows[s].kind = rows[r].kind /\ s <= r)})

ParentOfNew(seen, rows, made, row) ==
  IF Found(seen, row.path) # None THEN Found(seen, row.path)
  ELSE IdOfNew(rows, made, CHOOSE r \in Staged(rows, row.path) : TRUE)

(* The update of a row that is gone and the insertion below a parent that  *)
(* is gone fail the transaction.                                           *)
CanCommitGrid(tree, seen, rows) ==
  \A r \in DOMAIN rows :
    IF Existing(rows[r]) THEN rows[r].id \in DOMAIN tree
    ELSE LET parent == Found(seen, rows[r].path)
         IN parent \notin {None, Project} => parent \in DOMAIN tree

RoleOfRow(roles, row) == IF row.kind = Task THEN CHOOSE t \in roles : Key(t) = Key(row.role) ELSE None

DaysOfRow(row) == IF row.days = None THEN CalcDurationDays(row.hours) ELSE row.days

GridCommitted(tree, seen, roles, rows, made) ==
  LET before(r) == {s \in NewRows(rows) : rows[s].kind = rows[r].kind /\ s < r
                      /\ ParentOfNew(seen, rows, made, rows[s]) = ParentOfNew(seen, rows, made, rows[r])}
      item(r) == LET parent == ParentOfNew(seen, rows, made, rows[r])
                 IN [NewItem(rows[r].kind, parent, rows[r].name,
                             Cardinality(Children(seen, parent)) + Cardinality(before(r)))
                       EXCEPT !.role = RoleOfRow(roles, rows[r]), !.hours = rows[r].hours, !.days = DaysOfRow(rows[r])]
      renamed(i) == LET at == {r \in DOMAIN rows : rows[r].id = i}
                    IN IF at = {} THEN tree[i]
                       ELSE LET row == rows[CHOOSE r \in at : TRUE]
                            IN [tree[i] EXCEPT !.name = row.name, !.role = RoleOfRow(roles, row),
                                             !.hours = row.hours, !.days = DaysOfRow(row)]
  IN Merged([i \in DOMAIN tree |-> renamed(i)],
            [n \in {IdOfNew(rows, made, r) : r \in NewRows(rows)} |->
               item(CHOOSE r \in NewRows(rows) : IdOfNew(rows, made, r) = n)])
=============================================================================
