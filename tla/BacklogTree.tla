----------------------------- MODULE BacklogTree -----------------------------
(***************************************************************************)
(* The backlog of a project: epics, features, stories and tasks, ordered   *)
(* among their siblings, and the operations that change it in one step     *)
(* (routes/epics.ts, features.ts, stories.ts, tasks.ts, reorder.ts and     *)
(* lib/backlogDuplication.ts).                                             *)
(*                                                                         *)
(* A name is what it reads without capitals, how many "Copy of" it starts  *)
(* with, and whether it has capitals.  Durations are in thousandths of a   *)
(* day, as many as are told apart.  Descriptions are left out.             *)
(***************************************************************************)
EXTENDS Naturals, Sequences, FiniteSets, SequencesExt, FiniteSetsExt, Functions, TLC

CONSTANTS Word,     \* what names can read
          None,
          Foreign,  \* a role of another project
          HoursPerDay  \* of the project, and of each of its roles

Project == 0
Epic == 1
Feature == 2
Story == 3
Task == 4
Kind == Epic..Task

Name == [word : Word, copies : Nat, capital : BOOLEAN]

ASSUME NameAssumption ==
  None \notin Nat \cup Name /\ Foreign \notin Nat \cup Name /\ None # Foreign

ASSUME DayAssumption == HoursPerDay \in Nat \ {0}

(* toLowerCase and trim: what the code compares when it forgives.          *)
Key(name) == [name EXCEPT !.capital = FALSE]
Keys(path) == [l \in DOMAIN path |-> Key(path[l])]

(* The duration that hours make, in whole hundredths, as is what is        *)
(* rounded.                                                                *)
CalcDurationDays(hours) == 10 * ((200 * hours + HoursPerDay) \div (2 * HoursPerDay))
Round2(days) == 10 * ((days + 5) \div 10)

(* A tree is a function from the ids of the items to the items.  The role, *)
(* the hours and the duration are those of tasks, which may have none; the *)
(* template is that of stories.                                            *)
Item == [kind : Kind, parent : Nat, name : Name, order : Nat, active : BOOLEAN,
         role : Name \cup {None, Foreign}, hours : Nat, days : Nat \cup {None}, template : Name \cup {None}]

Children(tree, parent) == {i \in DOMAIN tree : tree[i].parent = parent}
Siblings(tree, i) == Children(tree, tree[i].parent) \ {i}

AndChildren(tree, S) == S \cup {j \in DOMAIN tree : tree[j].parent \in S}
WithChildren(tree, i) == AndChildren(tree, {i})
Below(tree, i) == AndChildren(tree, AndChildren(tree, AndChildren(tree, {i})))

(* orderBy: { order: 'asc' }; ties come out in the order of the ids.       *)
Precedes(tree, i, j) ==
  tree[i].order < tree[j].order \/ (tree[i].order = tree[j].order /\ i < j)

Sorted(tree, parent) == SetToSortSeq(Children(tree, parent), LAMBDA i, j : Precedes(tree, i, j))

(* The item of a kind that an item is or hangs below.                      *)
Above(tree, i, kind) ==
  LET p == tree[i].parent
      g == tree[p].parent
  IN CASE tree[i].kind = kind -> i
       [] tree[i].kind = kind + 1 -> p
       [] tree[i].kind = kind + 2 -> g
       [] tree[i].kind = kind + 3 -> tree[g].parent

PathOf(tree, i) == [kind \in 1..tree[i].kind |-> tree[Above(tree, i, kind)].name]

(* The foreign key of a row that is inserted or moved.                     *)
ParentThere(tree, kind, parent) ==
  IF kind = Epic THEN parent = Project
                 ELSE parent \in DOMAIN tree /\ tree[parent].kind = kind - 1

(* What the database holds a tree to, and the routes to the kinds.         *)
IsTree(tree, roles) ==
  /\ Project \notin DOMAIN tree
  /\ \A i \in DOMAIN tree :
       /\ tree[i] \in Item
       /\ ParentThere(tree, tree[i].kind, tree[i].parent)
       /\ tree[i].role \in roles \cup {None, Foreign}

----------------------------------------------------------------------------
(* One row.                                                                *)

NewItem(kind, parent, name, order) ==
  [kind |-> kind, parent |-> parent, name |-> name, order |-> order, active |-> TRUE,
   role |-> None, hours |-> 0, days |-> 0, template |-> None]

Insert(f, x, y) == [z \in DOMAIN f \cup {x} |-> IF z = x THEN y ELSE f[z]]
Merged(f, g) == [x \in DOMAIN f \cup DOMAIN g |-> IF x \in DOMAIN f THEN f[x] ELSE g[x]]

(* onDelete: Cascade, down to the tasks.                                   *)
WithoutItem(tree, i) == Restrict(tree, DOMAIN tree \ Below(tree, i))

----------------------------------------------------------------------------
(* Reordering.  The page sends every item of the level it drags in, each   *)
(* with its index and parent in the tree it shows; the item that is        *)
(* dragged goes to a place under a parent.                                 *)

Dragged(tree, i, parent, place) ==
  LET at(j) == IF j = i THEN parent ELSE tree[j].parent
      stay(p) == Children(tree, p) \ {i}
      before(j) == IF j = i THEN IF place = "first" THEN {} ELSE stay(parent)
                   ELSE {k \in stay(at(j)) : Precedes(tree, k, j)}
                          \cup IF at(j) = parent /\ place = "first" THEN {i} ELSE {}
  IN [j \in {j \in DOMAIN tree : tree[j].kind = tree[i].kind} |->
        [parent |-> at(j), order |-> Cardinality(before(j))]]

(* The transaction of a reorder; it fails when an item or a parent is gone.*)
CanReorder(tree, list) ==
  \A i \in DOMAIN list : i \in DOMAIN tree /\ ParentThere(tree, tree[i].kind, list[i].parent)

Reordered(tree, list) ==
  [i \in DOMAIN tree |-> IF i \in DOMAIN list
                         THEN [tree[i] EXCEPT !.parent = list[i].parent, !.order = list[i].order]
                         ELSE tree[i]]

----------------------------------------------------------------------------
(* Duplication: the siblings behind the item move up by one, and a copy of *)
(* it and of all that is below it takes the place.                         *)

CanDuplicate(tree, i) == \A j \in Below(tree, i) : tree[j].role # Foreign

(* Mutant: siblings with the same order move up as well.                    *)
MovesUpGte(tree, i, j) == j \in Siblings(tree, i) /\ tree[j].order >= tree[i].order

MovesUp(tree, i, j) == j \in Siblings(tree, i) /\ tree[j].order > tree[i].order

CopyIds(tree, i, made) ==
  [j \in Below(tree, i) |-> made + Cardinality({k \in Below(tree, i) : k <= j})]

CopyName(name) == [name EXCEPT !.copies = @ + 1]

Duplicated(tree, i, made) ==
  LET id == CopyIds(tree, i, made)
      moved == [j \in DOMAIN tree |-> IF MovesUp(tree, i, j) THEN [tree[j] EXCEPT !.order = @ + 1] ELSE tree[j]]
      copy(j) == IF j = i THEN [tree[i] EXCEPT !.name = CopyName(@), !.order = @ + 1]
                          ELSE [tree[j] EXCEPT !.parent = id[@]]
  IN Merged(moved, [n \in Range(id) |-> copy(CHOOSE j \in DOMAIN id : id[j] = n)])
=============================================================================
