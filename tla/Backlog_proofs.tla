----------------------------- MODULE Backlog_proofs -----------------------------
(***************************************************************************)
(* Proofs about requests that edit a backlog side by side (Backlog), and   *)
(* about the documents generated from it (ScopeDocuments).                 *)
(***************************************************************************)
EXTENDS Backlog, ScopeDocuments, FiniteSetTheorems, SequenceTheorems, WellFoundedInduction, TLAPS

(***************************************************************************)
(* Trees.                                                                  *)
(***************************************************************************)

(* An item has the fields of items.                                        *)
LEMMA ItemFields ==
  ASSUME NEW x \in Item
  PROVE  /\ x.kind \in Kind /\ x.parent \in Nat /\ x.name \in Name /\ x.order \in Nat
         /\ x.active \in BOOLEAN /\ x.role \in Name \cup {None, Foreign}
         /\ x.hours \in Nat /\ x.days \in Nat \cup {None} /\ x.template \in Name \cup {None}
         /\ x = [kind |-> x.kind, parent |-> x.parent, name |-> x.name, order |-> x.order, active |-> x.active,
                 role |-> x.role, hours |-> x.hours, days |-> x.days, template |-> x.template]
BY DEF Item

LEMMA DurationIs ==
  ASSUME NEW h \in Nat  PROVE CalcDurationDays(h) \in Nat
<1> DEFINE d == 2 * HoursPerDay
           n == 200 * h + HoursPerDay
<1>1. d \in Nat /\ d > 0 /\ n \in Nat
  BY DayAssumption
<1> HIDE DEF d, n
<1>2. n \div d \in Nat
  BY <1>1
<1>3. CalcDurationDays(h) = 10 * (n \div d)
  BY DEF CalcDurationDays, d, n
<1> QED
  BY <1>2, <1>3

LEMMA KindIs == Kind = {1, 2, 3, 4} /\ Epic = 1 /\ Feature = 2 /\ Story = 3 /\ Task = 4 /\ Project = 0
BY DEF Kind, Epic, Feature, Story, Task, Project

(* An item is an epic of the project, or hangs below one of the kind above *)
(* its own.                                                                *)
LEMMA ParentIs ==
  ASSUME NEW t, NEW R, IsTree(t, R), NEW j \in DOMAIN t
  PROVE  /\ t[j].kind \in {1, 2, 3, 4}
         /\ \/ t[j].kind = 1 /\ t[j].parent = 0 /\ t[j].parent \notin DOMAIN t
            \/ t[j].parent \in DOMAIN t /\ t[j].kind = t[t[j].parent].kind + 1
<1>1. t[j].kind \in {1, 2, 3, 4}
  BY ItemFields, KindIs DEF IsTree
<1>2. CASE t[j].kind = 1
  BY <1>2, KindIs DEF IsTree, ParentThere
<1>3. CASE t[j].kind # 1
  <2>1. t[j].parent \in DOMAIN t /\ t[t[j].parent].kind = t[j].kind - 1
    BY <1>3, KindIs DEF IsTree, ParentThere
  <2> QED  BY <1>1, <2>1
<1> QED  BY <1>1, <1>2, <1>3

(* What is below an item is of a lower kind, and the children of what is   *)
(* below it are below it, since there are only four kinds.                 *)
LEMMA BelowClosed ==
  ASSUME NEW t, NEW R, IsTree(t, R), NEW i \in DOMAIN t
  PROVE  /\ i \in Below(t, i) /\ Below(t, i) \subseteq DOMAIN t
         /\ \A j \in Below(t, i) \ {i} : t[j].kind > t[i].kind /\ t[j].parent \in Below(t, i)
         /\ \A j \in DOMAIN t : t[j].parent \in Below(t, i) => j \in Below(t, i) \ {i}
<1> DEFINE B1 == AndChildren(t, {i})
           B2 == AndChildren(t, B1)
           B3 == AndChildren(t, B2)
<1>1. Below(t, i) = B3
  BY DEF Below
<1>2. \A j \in DOMAIN t :
        /\ t[j].kind \in {1, 2, 3, 4}
        /\ t[j].parent \in DOMAIN t => t[j].kind = t[t[j].parent].kind + 1
  BY ParentIs
<1>4. {i} \subseteq B1 /\ \A j \in B1 \ {i} : j \in DOMAIN t /\ t[j].parent = i
  BY DEF AndChildren
<1>5. B1 \subseteq B2 /\ \A j \in B2 \ B1 : j \in DOMAIN t /\ t[j].parent \in B1 \ {i}
  BY DEF AndChildren
<1>6. B2 \subseteq B3 /\ \A j \in B3 \ B2 : j \in DOMAIN t /\ t[j].parent \in B2 \ B1
  BY DEF AndChildren
<1>7. \A j \in DOMAIN t : t[j].parent \in B2 => j \in B3
  BY DEF AndChildren
<1> HIDE DEF B1, B2, B3
<1>8. \A j \in B1 \ {i} : t[j].kind = t[i].kind + 1
  BY <1>2, <1>4
<1>9. \A j \in B2 \ B1 : t[j].kind = t[i].kind + 2
  BY <1>2, <1>4, <1>5, <1>8
<1>10. \A j \in B3 \ B2 : t[j].kind = t[i].kind + 3
  BY <1>2, <1>4, <1>5, <1>6, <1>9
<1>11. B3 \subseteq DOMAIN t
  BY <1>4, <1>5, <1>6
<1>12. \A j \in B3 \ {i} : t[j].kind > t[i].kind /\ t[j].parent \in B3
  BY <1>2, <1>4, <1>5, <1>6, <1>8, <1>9, <1>10
<1>13. ASSUME NEW j \in DOMAIN t, t[j].parent \in B3  PROVE j \in B3 \ {i}
  <2>1. CASE t[j].parent \in B2
    <3>1. t[j].kind > t[i].kind
      BY <1>2, <1>8, <1>9, <1>11, <1>13, <1>5, <1>6, <2>1
    <3> QED  BY <1>2, <1>7, <2>1, <3>1
  <2>2. CASE t[j].parent \notin B2
    BY <1>2, <1>10, <1>11, <1>13, <2>2
  <2> QED  BY <2>1, <2>2
<1> QED  BY <1>1, <1>4, <1>5, <1>6, <1>11, <1>12, <1>13

LEMMA NewItemIs ==
  ASSUME NEW kind \in Kind, NEW parent \in Nat, NEW name \in Name, NEW order \in Nat
  PROVE  /\ NewItem(kind, parent, name, order) \in Item
         /\ NewItem(kind, parent, name, order).kind = kind
         /\ NewItem(kind, parent, name, order).parent = parent
         /\ NewItem(kind, parent, name, order).name = name
         /\ NewItem(kind, parent, name, order).order = order
         /\ NewItem(kind, parent, name, order).role = None
         /\ NewItem(kind, parent, name, order).template = None
BY DEF NewItem, Item

LEMMA InsertIs ==
  ASSUME NEW t, NEW i, NEW x
  PROVE  /\ DOMAIN Insert(t, i, x) = DOMAIN t \cup {i}
         /\ Insert(t, i, x)[i] = x
         /\ \A j \in DOMAIN t : j # i => Insert(t, i, x)[j] = t[j]
BY DEF Insert

(* A new item below an item of the kind above it leaves a tree.            *)
LEMMA InsertKeeps ==
  ASSUME NEW t, NEW R, IsTree(t, R), NEW i, i \notin DOMAIN t, i # 0,
         NEW x \in Item, ParentThere(t, x.kind, x.parent), x.role \in R \cup {None, Foreign}
  PROVE  IsTree(Insert(t, i, x), R)
<1> DEFINE u == Insert(t, i, x)
<1>1. DOMAIN u = DOMAIN t \cup {i} /\ u[i] = x /\ \A j \in DOMAIN t : u[j] = t[j]
  BY DEF Insert
<1> HIDE DEF u
<1>2. \A kind, parent : ParentThere(t, kind, parent) => ParentThere(u, kind, parent)
  BY <1>1 DEF ParentThere
<1>3. ASSUME NEW j \in DOMAIN u
      PROVE  u[j] \in Item /\ ParentThere(u, u[j].kind, u[j].parent) /\ u[j].role \in R \cup {None, Foreign}
  <2>1. CASE j = i
    BY <1>1, <1>2, <2>1
  <2>2. CASE j # i
    BY <1>1, <1>2, <2>2 DEF IsTree
  <2> QED  BY <2>1, <2>2
<1>4. Project \notin DOMAIN u
  BY <1>1, KindIs DEF IsTree
<1> QED  BY <1>3, <1>4 DEF IsTree, u

(* So does a change of items that leaves their kinds, and puts them below  *)
(* items of the kind above theirs.                                         *)
LEMMA UpdateKeeps ==
  ASSUME NEW t, NEW R, IsTree(t, R), NEW u, DOMAIN u = DOMAIN t, NEW S, R \subseteq S,
         \A j \in DOMAIN t : /\ u[j] \in Item /\ u[j].kind = t[j].kind
                             /\ u[j].parent = t[j].parent \/ ParentThere(t, t[j].kind, u[j].parent)
                             /\ u[j].role \in S \cup {None, Foreign}
  PROVE  IsTree(u, S)
<1>1. \A kind, parent : ParentThere(t, kind, parent) => ParentThere(u, kind, parent)
  BY DEF ParentThere
<1>2. \A j \in DOMAIN t : ParentThere(t, t[j].kind, u[j].parent)
  BY DEF IsTree
<1> QED  BY <1>1, <1>2 DEF IsTree

(* And so does the cascade of a delete.                                    *)
LEMMA DeleteKeeps ==
  ASSUME NEW t, NEW R, IsTree(t, R), NEW i \in DOMAIN t
  PROVE  /\ IsTree(WithoutItem(t, i), R)
         /\ DOMAIN WithoutItem(t, i) \subseteq DOMAIN t
         /\ \A j \in DOMAIN WithoutItem(t, i) : WithoutItem(t, i)[j] = t[j]
<1> DEFINE u == WithoutItem(t, i)
<1>1. DOMAIN u = DOMAIN t \ Below(t, i) /\ \A j \in DOMAIN u : u[j] = t[j]
  BY DEF WithoutItem, Restrict
<1> HIDE DEF u
<1>2. \A j \in DOMAIN t : t[j].parent \in Below(t, i) => j \in Below(t, i)
  BY BelowClosed
<1>3. ASSUME NEW j \in DOMAIN u  PROVE ParentThere(u, u[j].kind, u[j].parent)
  <2>1. ParentThere(t, t[j].kind, t[j].parent) /\ t[j].parent \notin Below(t, i)
    BY <1>1, <1>2, <1>3 DEF IsTree
  <2> QED  BY <1>1, <2>1 DEF ParentThere
<1>4. Project \notin DOMAIN u /\ \A j \in DOMAIN u : u[j] \in Item /\ u[j].role \in R \cup {None, Foreign}
  BY <1>1 DEF IsTree
<1>5. IsTree(u, R)
  BY <1>3, <1>4 DEF IsTree
<1> QED  BY <1>1, <1>5 DEF u

(***************************************************************************)
(* Duplication.                                                            *)
(***************************************************************************)

(* Copies get numbers of their own, behind all that were given.            *)
LEMMA CopyIdsApart ==
  ASSUME NEW t, NEW R, IsTree(t, R), NEW n \in Nat, DOMAIN t \subseteq 1..n, NEW i \in DOMAIN t
  PROVE  /\ IsFiniteSet(Below(t, i)) /\ Cardinality(Below(t, i)) \in Nat
         /\ DOMAIN CopyIds(t, i, n) = Below(t, i)
         /\ \A j \in Below(t, i) : CopyIds(t, i, n)[j] \in n + 1 .. n + Cardinality(Below(t, i))
         /\ \A j, k \in Below(t, i) : CopyIds(t, i, n)[j] = CopyIds(t, i, n)[k] => j = k
<1> DEFINE B == Below(t, i)
           upTo(j) == {k \in B : k <= j}
<1>1. B \subseteq DOMAIN t /\ i \in B
  BY BelowClosed
<1>2. B \subseteq 1..n
  BY <1>1
<1>3. IsFiniteSet(B) /\ Cardinality(B) \in Nat
  <2>1. IsFiniteSet(1..n)
    BY FS_Interval
  <2> HIDE DEF B
  <2>2. IsFiniteSet(B)
    BY <1>2, <2>1, FS_Subset
  <2> QED  BY <2>2, FS_CardinalityType
<1>4. \A j \in B : CopyIds(t, i, n)[j] = n + Cardinality(upTo(j))
  BY DEF CopyIds
<1>5. DOMAIN CopyIds(t, i, n) = B
  BY DEF CopyIds
<1> HIDE DEF B
<1>6. ASSUME NEW j \in B
      PROVE  IsFiniteSet(upTo(j)) /\ Cardinality(upTo(j)) \in 1..Cardinality(B)
  <2>1. upTo(j) \subseteq B /\ j \in upTo(j)
    BY <1>2
  <2>2. IsFiniteSet(upTo(j)) /\ Cardinality(upTo(j)) \in Nat /\ Cardinality(upTo(j)) <= Cardinality(B)
    BY <1>3, <2>1, FS_Subset, FS_CardinalityType
  <2>3. Cardinality(upTo(j)) # 0
    BY <2>1, <2>2, FS_EmptySet
  <2> QED  BY <1>3, <2>2, <2>3
<1>7. ASSUME NEW j \in B, NEW k \in B, j < k  PROVE Cardinality(upTo(j)) # Cardinality(upTo(k))
  <2> j \in Nat /\ k \in Nat /\ \A m \in B : m \in Nat
    BY <1>2
  <2>3. \A m \in B : m <= j => m <= k
    BY <1>7
  <2>4. k <= k /\ ~(k <= j)
    BY <1>7
  <2>1. upTo(j) \subseteq upTo(k) /\ k \in upTo(k) /\ k \notin upTo(j)
    BY <2>3, <2>4
  <2>2. upTo(j) # upTo(k)
    BY <2>1
  <2> QED  BY <1>6, <2>1, <2>2, FS_Subset
<1>8. ASSUME NEW j \in B, NEW k \in B, n + Cardinality(upTo(j)) = n + Cardinality(upTo(k))  PROVE j = k
  <2>1. Cardinality(upTo(j)) = Cardinality(upTo(k))
    BY <1>6, <1>8
  <2>2. j \in 1..n /\ k \in 1..n
    BY <1>2
  <2> QED  BY <1>7, <2>1, <2>2
<1> HIDE DEF upTo
<1>9. \A j \in B : n + Cardinality(upTo(j)) \in n + 1 .. n + Cardinality(B)
  BY <1>3, <1>6
<1>10. \A j \in B : CopyIds(t, i, n)[j] \in n + 1 .. n + Cardinality(B)
  BY <1>4, <1>9
<1>11. \A j, k \in B : CopyIds(t, i, n)[j] = CopyIds(t, i, n)[k] => j = k
  BY <1>4, <1>8
<1> QED  BY <1>3, <1>5, <1>10, <1>11 DEF B

LEMMA CopyNameIs ==
  ASSUME NEW name \in Name  PROVE CopyName(name) \in Name
BY DEF CopyName, Name

AtOrder(x, m) == [x EXCEPT !.order = m]

LEMMA OrderChanged ==
  ASSUME NEW x \in Item, NEW m \in Nat
  PROVE  /\ AtOrder(x, m) \in Item /\ AtOrder(x, m).order = m
         /\ AtOrder(x, m).kind = x.kind /\ AtOrder(x, m).parent = x.parent
         /\ AtOrder(x, m).role = x.role /\ AtOrder(x, m).template = x.template
         /\ AtOrder(AtOrder(x, m), 0) = AtOrder(x, 0)
BY DEF Item, AtOrder

(* The tree with the copies.                                               *)
HasCopies(t, i, id, u) ==
  /\ DOMAIN u = DOMAIN t \cup {id[j] : j \in Below(t, i)}
  /\ \A j \in DOMAIN t : u[j] = IF MovesUp(t, i, j) THEN [t[j] EXCEPT !.order = t[j].order + 1] ELSE t[j]
  /\ \A j \in Below(t, i) : id[j] \notin DOMAIN t
  /\ u[id[i]] = [t[i] EXCEPT !.name = CopyName(t[i].name), !.order = t[i].order + 1]
  /\ \A j \in Below(t, i) \ {i} : u[id[j]] = [t[j] EXCEPT !.parent = id[t[j].parent]]

LEMMA DuplicatedIs ==
  ASSUME NEW t, NEW R, IsTree(t, R), NEW n \in Nat, DOMAIN t \subseteq 1..n, NEW i \in DOMAIN t,
         NEW id, id = CopyIds(t, i, n), NEW u, u = Duplicated(t, i, n)
  PROVE  HasCopies(t, i, id, u)
<1> DEFINE B == Below(t, i)
           moved == [j \in DOMAIN t |-> IF MovesUp(t, i, j) THEN [t[j] EXCEPT !.order = @ + 1] ELSE t[j]]
           copy(j) == IF j = i THEN [t[i] EXCEPT !.name = CopyName(@), !.order = @ + 1]
                      ELSE [t[j] EXCEPT !.parent = id[t[j].parent]]
           copies == [m \in Range(id) |-> copy(CHOOSE j \in DOMAIN id : id[j] = m)]
<1>1. u = Merged(moved, copies)
  BY DEF Duplicated
<1>2. B \subseteq DOMAIN t /\ i \in B
  BY BelowClosed
<1>3. DOMAIN id = B /\ \A j, k \in B : id[j] = id[k] => j = k
  BY CopyIdsApart
<1>4. \A j \in B : id[j] \in Nat /\ id[j] > n
  BY CopyIdsApart
<1>5. DOMAIN moved = DOMAIN t /\ DOMAIN copies = {id[j] : j \in B}
  BY <1>3 DEF Range
<1>6. \A j \in B : id[j] \notin DOMAIN t
  BY <1>4
<1>7. ASSUME NEW j \in B  PROVE copies[id[j]] = copy(j)
  <2>1. id[j] \in Range(id)
    BY <1>3 DEF Range
  <2>2. (CHOOSE k \in DOMAIN id : id[k] = id[j]) = j
    BY <1>3
  <2> HIDE DEF copy
  <2> QED  BY <2>1, <2>2
<1>8. \A x \in DOMAIN moved : u[x] = moved[x]
  BY <1>1 DEF Merged
<1>9. \A x \in DOMAIN copies : x \notin DOMAIN moved => u[x] = copies[x]
  BY <1>1 DEF Merged
<1>10. DOMAIN u = DOMAIN moved \cup DOMAIN copies
  BY <1>1 DEF Merged
<1>11. \A j \in B : u[id[j]] = copy(j)
  <2> HIDE DEF moved, copies, copy, B
  <2> QED  BY <1>5, <1>6, <1>7, <1>9
<1>12. \A j \in DOMAIN t : u[j] = IF MovesUp(t, i, j) THEN [t[j] EXCEPT !.order = @ + 1] ELSE t[j]
  BY <1>8
<1>13. u[id[i]] = [t[i] EXCEPT !.name = CopyName(@), !.order = @ + 1]
  <2> HIDE DEF B
  <2> QED  BY <1>2, <1>11
<1>14. \A j \in B \ {i} : u[id[j]] = [t[j] EXCEPT !.parent = id[t[j].parent]]
  <2> HIDE DEF B
  <2> QED  BY <1>2, <1>11
<1> HIDE DEF B, moved, copies
<1>15. DOMAIN u = DOMAIN t \cup {id[j] : j \in B}
  BY <1>5, <1>10
<1> QED  BY <1>6, <1>12, <1>13, <1>14, <1>15 DEF B, HasCopies

(* The fields of the copies, and of what makes room for them.              *)
FieldsCopied(t, i, id, u) ==
  /\ \A j \in DOMAIN t : /\ u[j] \in Item /\ u[j].kind = t[j].kind /\ u[j].parent = t[j].parent
                         /\ u[j].role = t[j].role /\ u[j].template = t[j].template
                         /\ u[j].order = IF MovesUp(t, i, j) THEN t[j].order + 1 ELSE t[j].order
                         /\ AtOrder(u[j], 0) = AtOrder(t[j], 0)
  /\ \A j \in Below(t, i) :
       /\ u[id[j]] \in Item /\ u[id[j]].kind = t[j].kind
       /\ u[id[j]].role = t[j].role /\ u[id[j]].template = t[j].template
       /\ u[id[j]].parent = IF j = i THEN t[i].parent ELSE id[t[j].parent]
  /\ u[id[i]].order = t[i].order + 1
  /\ AtOrder(u[id[i]], 0) = [t[i] EXCEPT !.order = 0, !.name = CopyName(t[i].name)]

LEMMA DuplicateFields ==
  ASSUME NEW t, NEW R, IsTree(t, R), NEW n \in Nat, DOMAIN t \subseteq 1..n, NEW i \in DOMAIN t,
         NEW id, id = CopyIds(t, i, n), NEW u, u = Duplicated(t, i, n)
  PROVE  FieldsCopied(t, i, id, u)
<1>0. HasCopies(t, i, id, u)
  BY DuplicatedIs, Zenon
<1>1. \A j \in DOMAIN t : u[j] = IF MovesUp(t, i, j) THEN [t[j] EXCEPT !.order = t[j].order + 1] ELSE t[j]
  BY <1>0 DEF HasCopies
<1>2. u[id[i]] = [t[i] EXCEPT !.name = CopyName(t[i].name), !.order = t[i].order + 1]
  BY <1>0 DEF HasCopies
<1>3. \A j \in Below(t, i) \ {i} : u[id[j]] = [t[j] EXCEPT !.parent = id[t[j].parent]]
  BY <1>0 DEF HasCopies
<1>4. \A j \in Below(t, i) : id[j] \in Nat
  BY CopyIdsApart
<1>5. Below(t, i) \subseteq DOMAIN t /\ i \in Below(t, i)
      /\ \A j \in Below(t, i) \ {i} : t[j].parent \in Below(t, i)
  BY BelowClosed
<1>6. \A j \in DOMAIN t : t[j] \in Item
  BY DEF IsTree
<1>7. ASSUME NEW j \in DOMAIN t
      PROVE  /\ u[j] \in Item /\ u[j].kind = t[j].kind /\ u[j].parent = t[j].parent
             /\ u[j].role = t[j].role /\ u[j].template = t[j].template
             /\ u[j].order = IF MovesUp(t, i, j) THEN t[j].order + 1 ELSE t[j].order
             /\ AtOrder(u[j], 0) = AtOrder(t[j], 0)
  <2>1. t[j] \in Item
    BY <1>6
  <2>2. CASE MovesUp(t, i, j)
    <3>1. u[j] = AtOrder(t[j], t[j].order + 1)
      BY <1>1, <2>2 DEF AtOrder
    <3>2. t[j].order + 1 \in Nat
      BY <2>1, ItemFields
    <3> DEFINE x == AtOrder(t[j], t[j].order + 1)
    <3>3. /\ x \in Item /\ x.order = t[j].order + 1 /\ x.kind = t[j].kind /\ x.parent = t[j].parent
          /\ x.role = t[j].role /\ x.template = t[j].template /\ AtOrder(x, 0) = AtOrder(t[j], 0)
      BY ONLY <2>1, <3>2, OrderChanged
    <3>4. u[j] = x
      BY <3>1
    <3> HIDE DEF x
    <3> QED  BY <2>2, <3>3, <3>4
  <2>3. CASE ~MovesUp(t, i, j)
    <3>1. u[j] = t[j]
      BY <1>1, <2>3
    <3> QED  BY <2>1, <2>3, <3>1
  <2> QED  BY <2>2, <2>3
<1>8. ASSUME NEW j \in Below(t, i)
      PROVE  /\ u[id[j]] \in Item /\ u[id[j]].kind = t[j].kind
             /\ u[id[j]].role = t[j].role /\ u[id[j]].template = t[j].template
             /\ u[id[j]].parent = IF j = i THEN t[i].parent ELSE id[t[j].parent]
  <2>1. t[j] \in Item
    BY <1>5, <1>6
  <2>2. CASE j = i
    <3>1. CopyName(t[i].name) \in Name /\ t[i].order + 1 \in Nat /\ t[i] \in Item
      BY <2>1, <2>2, CopyNameIs, ItemFields
    <3> DEFINE c == [t[i] EXCEPT !.name = CopyName(t[i].name), !.order = t[i].order + 1]
    <3>2. c \in Item /\ c.kind = t[i].kind /\ c.role = t[i].role /\ c.template = t[i].template /\ c.parent = t[i].parent
      BY <3>1 DEF Item
    <3> HIDE DEF c
    <3>3. u[id[i]] = c
      BY <1>2 DEF c
    <3> QED  BY <2>2, <3>2, <3>3
  <2>3. CASE j # i
    <3>1. u[id[j]] = [t[j] EXCEPT !.parent = id[t[j].parent]] /\ id[t[j].parent] \in Nat
      BY <1>3, <1>4, <1>5, <2>3
    <3> QED  BY <2>1, <2>3, <3>1 DEF Item
  <2> QED  BY <2>2, <2>3
<1>9. u[id[i]].order = t[i].order + 1 /\ AtOrder(u[id[i]], 0) = [t[i] EXCEPT !.order = 0, !.name = CopyName(t[i].name)]
  BY <1>2, <1>6 DEF Item, AtOrder
<1> QED  BY <1>7, <1>8, <1>9 DEF FieldsCopied

(* The tree with the copies is a tree.                                     *)
LEMMA DuplicateKeeps ==
  ASSUME NEW t, NEW R, IsTree(t, R), NEW n \in Nat, DOMAIN t \subseteq 1..n, NEW i \in DOMAIN t,
         NEW u, u = Duplicated(t, i, n)
  PROVE  /\ IsTree(u, R)
         /\ DOMAIN u \subseteq 1 .. n + Cardinality(Below(t, i))
<1> DEFINE id == CopyIds(t, i, n)
           B == Below(t, i)
<1>0. HasCopies(t, i, id, u) /\ FieldsCopied(t, i, id, u)
  BY DuplicatedIs, DuplicateFields, Zenon
<1>1. DOMAIN u = DOMAIN t \cup {id[j] : j \in B}
  BY <1>0 DEF HasCopies
<1>2. B \subseteq DOMAIN t /\ \A j \in B \ {i} : t[j].parent \in B
  BY BelowClosed
<1>3. \A j \in B : id[j] \in n + 1 .. n + Cardinality(B)
  BY CopyIdsApart
<1>4. Cardinality(B) \in Nat
  BY CopyIdsApart
<1>5. \A j \in DOMAIN t : /\ u[j] \in Item /\ u[j].kind = t[j].kind /\ u[j].parent = t[j].parent
                          /\ u[j].role = t[j].role
  BY <1>0 DEF FieldsCopied
<1>6. \A j \in B : /\ u[id[j]] \in Item /\ u[id[j]].kind = t[j].kind /\ u[id[j]].role = t[j].role
                   /\ u[id[j]].parent = IF j = i THEN t[i].parent ELSE id[t[j].parent]
  BY <1>0 DEF FieldsCopied
<1> HIDE DEF id, B
<1>7. \A kind, parent : ParentThere(t, kind, parent) => ParentThere(u, kind, parent)
  BY <1>1, <1>5 DEF ParentThere
<1>8. ASSUME NEW j \in B  PROVE ParentThere(u, u[id[j]].kind, u[id[j]].parent)
  <2>1. ParentThere(t, t[j].kind, t[j].parent)
    BY <1>2 DEF IsTree
  <2>2. CASE j = i
    BY <1>6, <1>7, <2>1, <2>2
  <2>3. CASE j # i
    <3>1. t[j].parent \in B /\ u[id[j]].parent = id[t[j].parent] /\ u[id[j]].kind = t[j].kind
      BY <1>2, <1>6, <2>3
    <3>2. t[j].parent \in DOMAIN t /\ t[j].parent # 0
      BY <1>2, <3>1, KindIs DEF IsTree
    <3>3. t[j].kind # Epic /\ t[t[j].parent].kind = t[j].kind - 1
      BY <2>1, <3>2, KindIs DEF ParentThere
    <3>4. id[t[j].parent] \in DOMAIN u /\ u[id[t[j].parent]].kind = t[j].kind - 1
      BY <1>1, <1>6, <3>1, <3>3
    <3> QED  BY <3>1, <3>3, <3>4 DEF ParentThere
  <2> QED  BY <2>2, <2>3
<1>9. ASSUME NEW x \in DOMAIN u
      PROVE  u[x] \in Item /\ ParentThere(u, u[x].kind, u[x].parent) /\ u[x].role \in R \cup {None, Foreign}
  <2>1. CASE x \in DOMAIN t
    BY <1>5, <1>7, <2>1 DEF IsTree
  <2>2. CASE x \notin DOMAIN t
    <3>1. PICK j \in B : x = id[j]
      BY <1>1, <2>2
    <3> QED  BY <1>2, <1>6, <1>8, <3>1 DEF IsTree
  <2> QED  BY <2>1, <2>2
<1>10. DOMAIN u \subseteq 1 .. n + Cardinality(B)
  BY <1>1, <1>3, <1>4
<1>11. IsTree(u, R)
  BY <1>9, <1>10, KindIs DEF IsTree
<1> QED  BY <1>10, <1>11 DEF B

(* Below the copy is the copy of what is below the item.                   *)
CopiesBelow(t, i, id, u) == Below(u, id[i]) = {id[j] : j \in Below(t, i)}

LEMMA BelowCopied ==
  ASSUME NEW t, NEW R, IsTree(t, R), NEW n \in Nat, DOMAIN t \subseteq 1..n, NEW i \in DOMAIN t,
         NEW id, id = CopyIds(t, i, n), NEW u, u = Duplicated(t, i, n)
  PROVE  CopiesBelow(t, i, id, u)
<1> DEFINE B == Below(t, i)
           img(S) == {id[s] : s \in S}
<1>0. HasCopies(t, i, id, u) /\ FieldsCopied(t, i, id, u)
  BY DuplicatedIs, DuplicateFields, Zenon
<1>1. /\ DOMAIN u = DOMAIN t \cup img(B)
      /\ \A j \in B : id[j] \notin DOMAIN t
  BY <1>0 DEF HasCopies
<1>2. /\ i \in B /\ B \subseteq DOMAIN t /\ \A j \in B \ {i} : t[j].parent \in B
      /\ \A j \in DOMAIN t : t[j].parent \in B => j \in B \ {i}
  BY BelowClosed
<1>3. \A j \in B : id[j] # 0
  BY CopyIdsApart
<1>4. \A j, k \in B : id[j] = id[k] => j = k
  BY CopyIdsApart
<1>5. /\ \A j \in DOMAIN t : u[j].parent = t[j].parent
      /\ \A j \in B : u[id[j]].parent = IF j = i THEN t[i].parent ELSE id[t[j].parent]
  BY <1>0 DEF FieldsCopied
<1>6. \A j \in DOMAIN t : t[j].parent \in DOMAIN t \/ t[j].parent = 0
  BY ParentIs
<1> HIDE DEF B
<1>7. ASSUME NEW S, S \subseteq B  PROVE AndChildren(u, img(S)) = img(AndChildren(t, S))
  <2>1. ASSUME NEW x \in DOMAIN u, u[x].parent \in img(S)  PROVE x \in img(AndChildren(t, S))
    <3>1. PICK s \in S : u[x].parent = id[s]
      BY <2>1
    <3>2. u[x].parent \notin DOMAIN t /\ u[x].parent # 0
      BY <1>1, <1>3, <1>7, <3>1
    <3>3. x \notin DOMAIN t
      BY <1>5, <1>6, <3>2
    <3>4. PICK j \in B : x = id[j]
      BY <1>1, <3>3
    <3>5. j # i
      BY <1>2, <1>5, <1>6, <3>2, <3>4
    <3>6. t[j].parent = s
      BY <1>2, <1>4, <1>5, <1>7, <3>1, <3>4, <3>5
    <3>7. j \in AndChildren(t, S)
      BY <1>2, <3>6 DEF AndChildren
    <3> QED  BY <3>4, <3>7
  <2>2. ASSUME NEW j \in AndChildren(t, S)  PROVE id[j] \in AndChildren(u, img(S))
    <3>1. CASE j \in S
      BY <3>1 DEF AndChildren
    <3>2. CASE j \notin S
      <4>1. j \in DOMAIN t /\ t[j].parent \in S
        BY <3>2 DEF AndChildren
      <4>2. j \in B \ {i}
        BY <1>2, <1>7, <4>1
      <4>3. id[j] \in DOMAIN u /\ u[id[j]].parent \in img(S)
        BY <1>1, <1>5, <4>1, <4>2
      <4> QED  BY <4>3 DEF AndChildren
    <3> QED  BY <3>1, <3>2
  <2>3. AndChildren(u, img(S)) \subseteq img(AndChildren(t, S))
    <3>1. img(S) \subseteq img(AndChildren(t, S))
      BY DEF AndChildren
    <3> HIDE DEF img
    <3> QED  BY <2>1, <3>1 DEF AndChildren
  <2>4. img(AndChildren(t, S)) \subseteq AndChildren(u, img(S))
    BY <2>2
  <2> QED  BY <2>3, <2>4
<1>8. ASSUME NEW S, S \subseteq B  PROVE AndChildren(t, S) \subseteq B
  BY <1>2, <1>8 DEF AndChildren
<1> DEFINE T1 == AndChildren(t, {i})
           T2 == AndChildren(t, T1)
<1>9. T1 \subseteq B /\ T2 \subseteq B
  BY <1>2, <1>8
<1>10. img({i}) = {id[i]}
  OBVIOUS
<1> HIDE DEF img
<1>11. AndChildren(u, {id[i]}) = img(T1)
  BY <1>2, <1>7, <1>10
<1>12. AndChildren(u, img(T1)) = img(T2)
  BY <1>7, <1>9
<1>13. AndChildren(u, img(T2)) = img(AndChildren(t, T2))
  BY <1>7, <1>9
<1>14. Below(u, id[i]) = img(AndChildren(t, T2))
  BY <1>11, <1>12, <1>13 DEF Below
<1>15. B = AndChildren(t, T2)
  BY DEF B, Below
<1> QED  BY <1>14, <1>15 DEF img, B, CopiesBelow

(* So the copy is like the item, below both of them.                       *)
LEMMA CopyIsSame ==
  ASSUME NEW t, NEW R, IsTree(t, R), NEW n \in Nat, DOMAIN t \subseteq 1..n, NEW i \in DOMAIN t,
         NEW id, id = CopyIds(t, i, n), NEW u, u = Duplicated(t, i, n)
  PROVE  SameBelow(t, i, u, id[i])
<1> DEFINE B == Below(t, i)
           C == Below(u, id[i])
<1>1. C = {id[j] : j \in B}
  BY BelowCopied DEF CopiesBelow
<1>2. DOMAIN id = B /\ id = [j \in DOMAIN id |-> id[j]]
  BY DEF CopyIds
<1>3. \A j, k \in B : id[j] = id[k] => j = k
  BY CopyIdsApart
<1> HIDE DEF B, C
<1>4. id \in [B -> C]
  BY <1>1, <1>2
<1>5. id \in Bijection(B, C)
  BY <1>1, <1>3, <1>4 DEF Bijection, Injection, Surjection, IsInjective
<1>6. HasCopies(t, i, id, u)
  BY DuplicatedIs, Zenon
<1>7. \A j \in B \ {i} : u[id[j]] = [t[j] EXCEPT !.parent = id[t[j].parent]]
  BY <1>6 DEF HasCopies, B
<1> QED  BY <1>5, <1>7 DEF SameBelow, B, C

(* What duplicateBacklogItem does to the order of siblings.                *)
LEMMA CopyBehind ==
  ASSUME NEW t, NEW R, IsTree(t, R), NEW n \in Nat, DOMAIN t \subseteq 1..n, NEW i \in DOMAIN t,
         NEW id, id = CopyIds(t, i, n), NEW u, u = Duplicated(t, i, n), NEW j \in DOMAIN t
  PROVE  IF j \in Siblings(t, i) \cup {i}
         THEN IF t[j].order > t[i].order THEN u[j].order > u[id[i]].order
                                         ELSE u[j].order < u[id[i]].order
         ELSE u[j].order = t[j].order
<1>1. FieldsCopied(t, i, id, u)
  BY DuplicateFields, Zenon
<1>2. u[j].order = (IF MovesUp(t, i, j) THEN t[j].order + 1 ELSE t[j].order) /\ u[id[i]].order = t[i].order + 1
  BY <1>1 DEF FieldsCopied
<1>3. t[i].order \in Nat /\ t[j].order \in Nat
  BY ItemFields DEF IsTree
<1>4. CASE j \in Siblings(t, i)
  BY <1>2, <1>3, <1>4 DEF MovesUp
<1>5. CASE j = i
  <2>1. ~MovesUp(t, i, j)
    BY <1>5 DEF MovesUp, Siblings
  <2> QED  BY <1>2, <1>3, <1>5, <2>1
<1>6. CASE j \notin Siblings(t, i) /\ j # i
  BY <1>2, <1>6 DEF MovesUp
<1> QED  BY <1>4, <1>5, <1>6

LEMMA MovesUpInStep ==
  ASSUME NEW t, NEW R, IsTree(t, R), NEW n \in Nat, DOMAIN t \subseteq 1..n, NEW i \in DOMAIN t,
         NEW u, u = Duplicated(t, i, n), NEW j \in DOMAIN t, NEW k \in DOMAIN t,
         t[j].parent = t[k].parent, t[j].order < t[k].order
  PROVE  u[j].order < u[k].order
<1> DEFINE id == CopyIds(t, i, n)
<1>1. FieldsCopied(t, i, id, u)
  BY DuplicateFields, Zenon
<1> HIDE DEF id
<1>2. /\ u[j].order = IF MovesUp(t, i, j) THEN t[j].order + 1 ELSE t[j].order
      /\ u[k].order = IF MovesUp(t, i, k) THEN t[k].order + 1 ELSE t[k].order
  BY <1>1 DEF FieldsCopied
<1>3. t[i].order \in Nat /\ t[j].order \in Nat /\ t[k].order \in Nat
  BY ItemFields DEF IsTree
<1>4. MovesUp(t, i, j) => MovesUp(t, i, k)
  <2> SUFFICES ASSUME MovesUp(t, i, j)  PROVE MovesUp(t, i, k)
    OBVIOUS
  <2>1. t[j].parent = t[i].parent /\ t[j].order > t[i].order
    BY DEF MovesUp, Siblings, Children
  <2>2. t[k].order > t[i].order
    BY <1>3, <2>1
  <2>3. k # i
    BY <1>3, <2>2
  <2> QED  BY <2>1, <2>2, <2>3 DEF MovesUp, Siblings, Children
<1> QED  BY <1>2, <1>3, <1>4

(***************************************************************************)
(* Reordering.                                                             *)
(***************************************************************************)

(* The list that the page sends has parents and positions.                 *)
LEMMA DraggedIs ==
  ASSUME NEW t, NEW R, IsTree(t, R), NEW n \in Nat, DOMAIN t \subseteq 1..n, NEW i \in DOMAIN t,
         NEW parent \in Nat, NEW place, NEW list, list = Dragged(t, i, parent, place)
  PROVE  /\ DOMAIN list \subseteq DOMAIN t
         /\ \A j \in DOMAIN list : list[j].parent \in Nat /\ list[j].order \in Nat
<1> DEFINE at(j) == IF j = i THEN parent ELSE t[j].parent
           stay(p) == Children(t, p) \ {i}
           before(j) == IF j = i THEN IF place = "first" THEN {} ELSE stay(parent)
                        ELSE {k \in stay(at(j)) : Precedes(t, k, j)}
                               \cup IF at(j) = parent /\ place = "first" THEN {i} ELSE {}
<1>1. list = [j \in {j \in DOMAIN t : t[j].kind = t[i].kind} |-> [parent |-> at(j), order |-> Cardinality(before(j))]]
  BY DEF Dragged
<1>2. \A j \in DOMAIN t : at(j) \in Nat
  BY ItemFields DEF IsTree
<1>3. IsFiniteSet(1..n)
  BY FS_Interval
<1>4. \A j \in DOMAIN t : before(j) \subseteq 1..n
  BY DEF Children
<1> HIDE DEF at, before
<1>5. \A j \in DOMAIN t : Cardinality(before(j)) \in Nat
  BY <1>3, <1>4, FS_Subset, FS_CardinalityType
<1> QED  BY <1>1, <1>2, <1>5

LEMMA ReorderKeeps ==
  ASSUME NEW t, NEW R, IsTree(t, R), NEW list, CanReorder(t, list),
         \A j \in DOMAIN list : list[j].parent \in Nat /\ list[j].order \in Nat,
         NEW u, u = Reordered(t, list)
  PROVE  /\ IsTree(u, R) /\ DOMAIN u = DOMAIN t
         /\ \A j \in DOMAIN t : u[j].kind = t[j].kind /\ u[j].template = t[j].template
<1>1. DOMAIN u = DOMAIN t
  BY DEF Reordered
<1>2. ASSUME NEW j \in DOMAIN t
      PROVE  /\ u[j] \in Item /\ u[j].kind = t[j].kind /\ u[j].template = t[j].template
             /\ u[j].parent = t[j].parent \/ ParentThere(t, t[j].kind, u[j].parent)
             /\ u[j].role \in R \cup {None, Foreign}
  <2>1. t[j] \in Item /\ t[j].role \in R \cup {None, Foreign}
    BY DEF IsTree
  <2>2. CASE j \in DOMAIN list
    <3>1. u[j] = [t[j] EXCEPT !.parent = list[j].parent, !.order = list[j].order]
      BY <2>2 DEF Reordered
    <3>2. ParentThere(t, t[j].kind, list[j].parent) /\ list[j].parent \in Nat /\ list[j].order \in Nat
      BY <2>2 DEF CanReorder
    <3>3. u[j] \in Item /\ u[j].kind = t[j].kind /\ u[j].template = t[j].template
          /\ u[j].parent = list[j].parent /\ u[j].role = t[j].role
      BY <2>1, <3>1, <3>2 DEF Item
    <3> QED  BY <2>1, <3>2, <3>3
  <2>3. CASE j \notin DOMAIN list
    <3>1. u[j] = t[j]
      BY <2>3 DEF Reordered
    <3> QED  BY <2>1, <3>1
  <2> QED  BY <2>2, <2>3
<1>3. IsTree(u, R)
  BY <1>1, <1>2, UpdateKeeps
<1> QED  BY <1>1, <1>2, <1>3


(***************************************************************************)
(* CSV import.                                                             *)
(***************************************************************************)

LEMMA LeastNumber ==
  ASSUME NEW T, T \subseteq Nat, T # {}
  PROVE  \E x \in T : \A y \in T : x <= y
<1> DEFINE L == OpToRel(<, Nat)
<1>1. IsWellFoundedOn(L, Nat)
  BY NatLessThanWellFounded
<1>2. \A a \in Nat, b \in Nat : <<a, b>> \in L <=> a < b
  BY DEF OpToRel
<1> HIDE DEF L
<1>3. PICK x \in T : \A y \in T : ~ (<<y, x>> \in L)
  BY <1>1, WFMin
<1>4. ASSUME NEW y \in T  PROVE x <= y
  <2>1. x \in Nat /\ y \in Nat /\ ~ (y < x)
    BY <1>2, <1>3
  <2> QED  BY <2>1
<1> QED  BY <1>4

LEMMA MinIs ==
  ASSUME NEW T, T \subseteq Nat, T # {}
  PROVE  Min(T) \in T /\ \A y \in T : Min(T) <= y
BY LeastNumber DEF Min

(* The largest number up to a bound is the bound less a least number.      *)
LEMMA MaxIs ==
  ASSUME NEW n \in Nat, NEW T, T \subseteq 1..n, T # {}
  PROVE  Max(T) \in T
<1> DEFINE D == {n - y : y \in T}
<1>0. \A y \in T : y \in 1..n /\ n - y \in Nat
  OBVIOUS
<1>1. D \subseteq Nat /\ D # {}
  BY <1>0
<1> HIDE DEF D
<1>2. PICK d \in D : \A e \in D : d <= e
  BY <1>1, LeastNumber
<1>3. PICK x \in T : d = n - x
  BY DEF D
<1>4. \A y \in T : n - x <= n - y
  BY <1>2, <1>3 DEF D
<1>5. \A y \in T : x >= y
  BY <1>0, <1>4
<1> QED  BY <1>5 DEF Max

(* What a row of a file says once it is staged.                            *)
StagedRow == [path : Seq(Name), active : BOOLEAN, template : Name \cup {None}, sized : BOOLEAN,
              role : Name \cup {None}, hours : Nat, days : Nat]

Sound(row) == row \in StagedRow /\ Len(row.path) \in 1..4

LEMMA StagedSound ==
  ASSUME NEW file \in Seq(CsvRow), NEW rows, rows = StagedRows(file), Importable(rows)
  PROVE  rows \in Seq(StagedRow) /\ \A r \in DOMAIN rows : Sound(rows[r])
<1> DEFINE path(r) == [l \in 1..file[r].kind |-> CarriedDown(file, r, l)]
           staged == [r \in DOMAIN file |->
             [path |-> path(r), active |-> file[r].active, template |-> file[r].template, sized |-> file[r].sized,
              role |-> file[r].role, hours |-> file[r].hours, days |-> file[r].days]]
<1>1. <<>> \o file = file
  BY ConcatEmptySeq
<1>2. rows = staged
  BY <1>1, Zenon DEF StagedRows
<1>3. \A r \in DOMAIN file : file[r] \in CsvRow
  OBVIOUS
<1>4. ASSUME NEW r \in DOMAIN file, NEW l \in 1..file[r].kind
      PROVE  CarriedDown(file, r, l) \in Name \cup {None}
  <2> DEFINE above == {s \in 1..r : file[s].cells[l] # None}
  <2>0. file[r].kind \in {1, 2, 3, 4}
    BY <1>3, KindIs DEF CsvRow
  <2>1. l \in Kind
    BY <2>0, KindIs
  <2>2. \A s \in DOMAIN file : file[s].cells[l] \in Name \cup {None}
    BY <1>3, <2>1 DEF CsvRow
  <2>3. CASE above = {} \/ (l = Task /\ file[r].cells[l] = None)
    BY <2>3 DEF CarriedDown
  <2>4. CASE ~ (above = {} \/ (l = Task /\ file[r].cells[l] = None))
    <3>0. r \in Nat /\ above \subseteq 1..r /\ above # {}
      BY <2>4
    <3>1. Max(above) \in above
      BY <3>0, MaxIs
    <3>2. Max(above) \in DOMAIN file
      BY <3>1
    <3> QED  BY <2>2, <2>4, <3>2 DEF CarriedDown
  <2> QED  BY <2>3, <2>4
<1>5. ASSUME NEW r \in DOMAIN file  PROVE path(r) \in Seq(Name) /\ Len(path(r)) \in 1..4
  <2>1. file[r].kind \in 1..4
    BY <1>3, KindIs DEF CsvRow
  <2>4. rows[r].path = path(r) /\ r \in DOMAIN rows
    <3> HIDE DEF path
    <3> QED  BY <1>2
  <2>2. \A l \in 1..file[r].kind : CarriedDown(file, r, l) # None
    BY <2>4 DEF Importable
  <2>3. \A l \in 1..file[r].kind : CarriedDown(file, r, l) \in Name
    BY <1>4, <2>2
  <2> QED  BY <2>1, <2>3
<1>6. ASSUME NEW r \in DOMAIN file  PROVE staged[r] \in StagedRow /\ Len(staged[r].path) \in 1..4
  BY <1>3, <1>5 DEF CsvRow, StagedRow
<1>7. staged \in Seq(StagedRow)
  BY <1>6
<1> QED  BY <1>2, <1>6, <1>7 DEF Sound

(* What a transaction has written onto a tree is a tree that has all items *)
(* there were, each where it was; others have got new ids.                 *)
WrittenOnto(t0, m0, R, L, t, m) ==
  /\ IsTree(t, R) /\ m \in Nat /\ m0 <= m /\ DOMAIN t \subseteq 1..m
  /\ \A i \in DOMAIN t : t[i].template \in DOMAIN L \cup {None}
  /\ DOMAIN t0 \subseteq DOMAIN t /\ \A i \in DOMAIN t \ DOMAIN t0 : i > m0
  /\ \A i \in DOMAIN t0 : t[i].kind = t0[i].kind /\ t[i].parent = t0[i].parent /\ t[i].order = t0[i].order

(* And the paths of an import have led to items of their levels.           *)
Session(t0, m0, R, L, s) ==
  /\ DOMAIN s = {"tree", "made", "at", "using"}
  /\ WrittenOnto(t0, m0, R, L, s.tree, s.made)
  /\ DOMAIN s.using = DOMAIN s.at
  /\ \A p \in DOMAIN s.at :
       /\ s.at[p] \in DOMAIN s.tree /\ s.tree[s.at[p]].kind = Len(p)
       /\ s.using[p].template \in DOMAIN L \cup {None}

Follows(s, u) ==
  /\ DOMAIN s.at \subseteq DOMAIN u.at
  /\ \A p \in DOMAIN s.at : u.at[p] = s.at[p]
  /\ DOMAIN s.tree \subseteq DOMAIN u.tree /\ \A i \in DOMAIN s.tree : u.tree[i].kind = s.tree[i].kind

(* From where an import begins.                                            *)
Ground(t0, m0, R, L) ==
  /\ IsTree(t0, R) /\ m0 \in Nat /\ DOMAIN t0 \subseteq 1..m0 /\ R \subseteq Name
  /\ \A i \in DOMAIN t0 : t0[i].template \in DOMAIN L \cup {None}
  /\ DOMAIN L \subseteq Name /\ \A t \in DOMAIN L : L[t] \in Seq(TemplateTask)

LEMMA FollowsOn ==
  ASSUME NEW s, NEW u, NEW w, Follows(s, u), Follows(u, w)
  PROVE  Follows(s, w)
BY DEF Follows

LEMMA AddedOK ==
  ASSUME NEW t0, NEW m0, NEW R, NEW L, Ground(t0, m0, R, L), NEW s, Session(t0, m0, R, L, s),
         NEW x \in Item, ParentThere(s.tree, x.kind, x.parent),
         x.role \in R \cup {None, Foreign}, x.template \in DOMAIN L \cup {None},
         NEW u, u = Added(s, x)
  PROVE  /\ Session(t0, m0, R, L, u) /\ Follows(s, u) /\ u.at = s.at /\ u.using = s.using
         /\ u.made \in DOMAIN u.tree /\ u.tree[u.made] = x
<1> DEFINE n == s.made + 1
<1>1. /\ DOMAIN u = {"tree", "made", "at", "using"}
      /\ u.tree = Insert(s.tree, n, x) /\ u.made = n /\ u.at = s.at /\ u.using = s.using
  BY DEF Added, Session
<1>2. WrittenOnto(t0, m0, R, L, s.tree, s.made) /\ m0 \in Nat
  BY DEF Session, Ground
<1>3. s.made \in Nat /\ n \in Nat /\ n > m0 /\ n # 0 /\ n \notin DOMAIN s.tree /\ n \notin DOMAIN t0
  BY <1>2 DEF WrittenOnto
<1>4. DOMAIN u.tree = DOMAIN s.tree \cup {n} /\ u.tree[n] = x /\ \A j \in DOMAIN s.tree : u.tree[j] = s.tree[j]
  BY <1>1, <1>3 DEF Insert
<1>5. IsTree(u.tree, R)
  BY <1>1, <1>2, <1>3, InsertKeeps DEF WrittenOnto
<1> HIDE DEF n
<1>6. WrittenOnto(t0, m0, R, L, u.tree, u.made)
  <2>1. u.made \in Nat /\ m0 <= u.made /\ DOMAIN u.tree \subseteq 1..u.made
    BY <1>1, <1>2, <1>3, <1>4 DEF WrittenOnto, n
  <2>2. \A i \in DOMAIN u.tree : u.tree[i].template \in DOMAIN L \cup {None}
    BY <1>2, <1>4 DEF WrittenOnto
  <2>3. DOMAIN t0 \subseteq DOMAIN u.tree /\ \A i \in DOMAIN u.tree \ DOMAIN t0 : i > m0
    BY <1>2, <1>3, <1>4 DEF WrittenOnto
  <2>4. \A i \in DOMAIN t0 : /\ u.tree[i].kind = t0[i].kind /\ u.tree[i].parent = t0[i].parent
                             /\ u.tree[i].order = t0[i].order
    BY <1>2, <1>4 DEF WrittenOnto
  <2> QED  BY <1>5, <2>1, <2>2, <2>3, <2>4 DEF WrittenOnto
<1>7. Session(t0, m0, R, L, u)
  BY <1>1, <1>4, <1>6 DEF Session
<1>8. Follows(s, u)
  BY <1>1, <1>4 DEF Follows
<1> QED  BY <1>1, <1>4, <1>7, <1>8

LEMMA ChangedOK ==
  ASSUME NEW t0, NEW m0, NEW R, NEW L, Ground(t0, m0, R, L), NEW s, Session(t0, m0, R, L, s),
         NEW i \in DOMAIN s.tree, NEW x \in Item,
         x.kind = s.tree[i].kind, x.parent = s.tree[i].parent, x.order = s.tree[i].order,
         x.role \in R \cup {None, Foreign}, x.template \in DOMAIN L \cup {None},
         NEW u, u = [s EXCEPT !.tree = [s.tree EXCEPT ![i] = x]]
  PROVE  Session(t0, m0, R, L, u) /\ Follows(s, u) /\ u.at = s.at /\ u.using = s.using
<1>1. /\ DOMAIN u = {"tree", "made", "at", "using"}
      /\ u.tree = [s.tree EXCEPT ![i] = x] /\ u.made = s.made /\ u.at = s.at /\ u.using = s.using
  BY DEF Session
<1>2. WrittenOnto(t0, m0, R, L, s.tree, s.made)
  BY DEF Session
<1>4. DOMAIN u.tree = DOMAIN s.tree /\ \A j \in DOMAIN s.tree : u.tree[j] = IF j = i THEN x ELSE s.tree[j]
  BY <1>1
<1>5. IsTree(u.tree, R)
  <2>1. \A j \in DOMAIN s.tree :
          /\ u.tree[j] \in Item /\ u.tree[j].kind = s.tree[j].kind /\ u.tree[j].parent = s.tree[j].parent
          /\ u.tree[j].role \in R \cup {None, Foreign}
    BY <1>2, <1>4 DEF WrittenOnto, IsTree
  <2>2. IsTree(s.tree, R)
    BY <1>2 DEF WrittenOnto
  <2> QED  BY <1>4, <2>1, <2>2, UpdateKeeps
<1>6. WrittenOnto(t0, m0, R, L, u.tree, u.made)
  <2>2. \A j \in DOMAIN u.tree : u.tree[j].template \in DOMAIN L \cup {None}
    BY <1>2, <1>4 DEF WrittenOnto
  <2>4. \A j \in DOMAIN t0 : /\ u.tree[j].kind = t0[j].kind /\ u.tree[j].parent = t0[j].parent
                             /\ u.tree[j].order = t0[j].order
    BY <1>2, <1>4 DEF WrittenOnto
  <2> QED  BY <1>1, <1>2, <1>4, <1>5, <2>2, <2>4 DEF WrittenOnto
<1>7. Session(t0, m0, R, L, u)
  BY <1>1, <1>4, <1>6 DEF Session
<1>8. Follows(s, u)
  BY <1>1, <1>4 DEF Follows
<1> QED  BY <1>1, <1>7, <1>8

PathPut(s, path, i, x) == [s EXCEPT !.at = Insert(s.at, path, i), !.using = Insert(s.using, path, x)]

LEMMA PathOK ==
  ASSUME NEW t0, NEW m0, NEW R, NEW L, NEW u, Session(t0, m0, R, L, u),
         NEW path, path \notin DOMAIN u.at, NEW i \in DOMAIN u.tree, u.tree[i].kind = Len(path),
         NEW x, x.template \in DOMAIN L \cup {None},
         NEW w, w = PathPut(u, path, i, x)
  PROVE  /\ Session(t0, m0, R, L, w) /\ Follows(u, w)
         /\ path \in DOMAIN w.at /\ w.at[path] = i /\ w.using[path] = x
<1>1. /\ DOMAIN w = {"tree", "made", "at", "using"}
      /\ w.tree = u.tree /\ w.made = u.made /\ w.at = Insert(u.at, path, i) /\ w.using = Insert(u.using, path, x)
  BY DEF Session, PathPut
<1>2. /\ DOMAIN w.at = DOMAIN u.at \cup {path} /\ w.at[path] = i /\ \A p \in DOMAIN u.at : w.at[p] = u.at[p]
      /\ DOMAIN w.using = DOMAIN u.using \cup {path} /\ w.using[path] = x
      /\ \A p \in DOMAIN u.at : w.using[p] = u.using[p]
  BY <1>1 DEF Insert, Session
<1>3. Session(t0, m0, R, L, w)
  BY <1>1, <1>2 DEF Session
<1> QED  BY <1>1, <1>2, <1>3 DEF Follows

LEMMA ChildCount ==
  ASSUME NEW t, NEW m \in Nat, DOMAIN t \subseteq 1..m, NEW p
  PROVE  IsFiniteSet(Children(t, p)) /\ Cardinality(Children(t, p)) \in Nat
<1>1. Children(t, p) \subseteq 1..m
  BY DEF Children
<1>2. IsFiniteSet(1..m)
  BY FS_Interval
<1>3. IsFiniteSet(Children(t, p))
  BY <1>1, <1>2, FS_Subset
<1> QED  BY <1>3, FS_CardinalityType

(* A child of an item is of the kind below.                                *)
LEMMA ChildKind ==
  ASSUME NEW t, NEW R, IsTree(t, R), NEW l \in 1..4, NEW p, ParentThere(t, l, p), NEW c \in Children(t, p)
  PROVE  c \in DOMAIN t /\ t[c].kind = l /\ t[c].parent = p
<1>1. c \in DOMAIN t /\ t[c].parent = p
  BY DEF Children
<1>2. \/ t[c].kind = 1 /\ p = 0 /\ p \notin DOMAIN t
      \/ p \in DOMAIN t /\ t[c].kind = t[p].kind + 1
  BY <1>1, ParentIs
<1>3. \/ l = 1 /\ p = 0
      \/ l # 1 /\ p \in DOMAIN t /\ t[p].kind = l - 1
  BY KindIs DEF ParentThere
<1>4. 0 \notin DOMAIN t
  BY KindIs DEF IsTree
<1> QED  BY <1>1, <1>2, <1>3, <1>4

PathTo(row, l) == SubSeq(row.path, 1, l)

LEMMA PathToIs ==
  ASSUME NEW row, Sound(row), NEW l \in 1..4, l <= Len(row.path)
  PROVE  Len(PathTo(row, l)) = l /\ PathTo(row, l)[l] \in Name
<1>1. row.path \in Seq(Name)
  BY DEF Sound, StagedRow
<1>2. \A i \in 1..l : row.path[i] \in Name
  BY <1>1
<1>3. /\ Len(SubSeq(row.path, 1, l)) = IF 1 <= l THEN l - 1 + 1 ELSE 0
      /\ \A i \in 1 .. l - 1 + 1 : SubSeq(row.path, 1, l)[i] = row.path[1 + i - 1]
  BY <1>2, SubSeqProperties
<1>4. Len(SubSeq(row.path, 1, l)) = l /\ SubSeq(row.path, 1, l)[l] = row.path[l]
  BY <1>3
<1>5. l \in 1..l
  OBVIOUS
<1> QED  BY <1>2, <1>4, <1>5 DEF PathTo

PutRow(row, template, x) ==
  [x EXCEPT !.active = row.active, !.template = IF template # None THEN template ELSE x.template]

LEMMA PutRowIs ==
  ASSUME NEW row, row.active \in BOOLEAN, NEW template \in Name \cup {None}, NEW x \in Item,
         NEW y, y = PutRow(row, template, x)
  PROVE  /\ y \in Item /\ y.kind = x.kind /\ y.parent = x.parent /\ y.order = x.order /\ y.role = x.role
         /\ y.template \in {template, x.template}
BY DEF PutRow, Item

LEMMA MentionedOK ==
  ASSUME NEW t0, NEW m0, NEW R, NEW L, Ground(t0, m0, R, L), NEW s, Session(t0, m0, R, L, s),
         NEW row, Sound(row), NEW l \in 1..3, l <= Len(row.path), l = 1 \/ PathTo(row, l - 1) \in DOMAIN s.at,
         NEW u, u = Mentioned(s, row, l, L)
  PROVE  Session(t0, m0, R, L, u) /\ Follows(s, u) /\ PathTo(row, l) \in DOMAIN u.at
<1> DEFINE path == PathTo(row, l)
           own == l = Len(row.path)
           parent == IF l = Epic THEN Project ELSE s.at[PathTo(row, l - 1)]
           same == Same(s.tree, parent, path[l])
           template == IF own /\ l = Story THEN TemplateOf(L, row) ELSE None
           item == NewItem(l, parent, path[l], Cardinality(Children(s.tree, parent)))
           found == CHOOSE i \in same : TRUE
           v == IF same = {} THEN Added(s, IF own THEN PutRow(row, template, item) ELSE item)
                ELSE IF own THEN [s EXCEPT !.tree = [s.tree EXCEPT ![found] = PutRow(row, template, s.tree[found])]]
                ELSE s
           place == IF same # {} THEN found ELSE v.made
           use == [template |-> template, sized |-> own /\ row.sized]
<1>1. u = IF path \in DOMAIN s.at THEN s
          ELSE PathPut(v, path, place, use)
  BY Zenon DEF Mentioned, PathTo, PutRow, PathPut
<1>2. WrittenOnto(t0, m0, R, L, s.tree, s.made) /\ IsTree(s.tree, R)
  BY DEF Session, WrittenOnto
<1>0. l \in 1..4 /\ l \in Kind
  BY KindIs
<1>3. Len(path) = l /\ path[l] \in Name
  BY <1>0, PathToIs
<1>4. parent \in Nat /\ ParentThere(s.tree, l, parent)
  <2>1. CASE l = 1
    BY <2>1, KindIs DEF ParentThere
  <2>2. CASE l # 1
    <3>1. parent \in DOMAIN s.tree /\ s.tree[parent].kind = Len(PathTo(row, l - 1))
      BY <2>2, KindIs DEF Session
    <3>4. l - 1 \in 1..4 /\ Len(row.path) \in Nat
      BY <2>2 DEF Sound
    <3>5. l - 1 <= Len(row.path)
      BY <3>4
    <3>2. Len(PathTo(row, l - 1)) = l - 1
      BY <3>4, <3>5, PathToIs
    <3>3. DOMAIN s.tree \subseteq Nat
      BY <1>2 DEF WrittenOnto
    <3> QED  BY <2>2, <3>1, <3>2, <3>3, KindIs DEF ParentThere
  <2> QED  BY <2>1, <2>2
<1>5. template \in DOMAIN L \cup {None} /\ template \in Name \cup {None} /\ row.active \in BOOLEAN
  BY DEF TemplateOf, Ground, Sound, StagedRow
<1>6. Cardinality(Children(s.tree, parent)) \in Nat
  BY <1>2, ChildCount DEF WrittenOnto
<1> HIDE DEF template, parent, path
<1>7. item \in Item /\ item.kind = l /\ item.parent = parent /\ item.role = None /\ item.template = None
  BY <1>0, <1>3, <1>4, <1>6, NewItemIs
<1> HIDE DEF item
<1>8. \A i \in same : i \in DOMAIN s.tree /\ s.tree[i].kind = l
  BY <1>2, <1>4, ChildKind DEF Same
<1>9. CASE path \in DOMAIN s.at
  BY <1>1, <1>9 DEF Follows, path
<1>10. CASE path \notin DOMAIN s.at
  <2>1. /\ Session(t0, m0, R, L, v) /\ Follows(s, v) /\ v.at = s.at
        /\ place \in DOMAIN v.tree /\ v.tree[place].kind = l
    <3>1. CASE same = {}
      <4> DEFINE x == IF own THEN PutRow(row, template, item) ELSE item
      <4>1. x \in Item /\ x.kind = l /\ x.parent = parent /\ x.role = None /\ x.template \in DOMAIN L \cup {None}
        BY <1>5, <1>7, PutRowIs
      <4>2. v = Added(s, x)
        BY <3>1
      <4> HIDE DEF x, v
      <4>3. /\ Session(t0, m0, R, L, v) /\ Follows(s, v) /\ v.at = s.at
            /\ v.made \in DOMAIN v.tree /\ v.tree[v.made] = x
        BY <1>4, <4>1, <4>2, AddedOK
      <4> QED  BY <3>1, <4>1, <4>3
    <3>2. CASE same # {}
      <4>0. found \in same
        BY <3>2
      <4> HIDE DEF same, found
      <4>1. found \in DOMAIN s.tree /\ s.tree[found].kind = l
        BY <1>8, <4>0
      <4>2. CASE own
        <5> DEFINE x == PutRow(row, template, s.tree[found])
        <5>1. s.tree[found] \in Item /\ s.tree[found].role \in R \cup {None, Foreign}
              /\ s.tree[found].template \in DOMAIN L \cup {None}
          BY <1>2, <4>1 DEF IsTree, WrittenOnto
        <5>2. /\ x \in Item /\ x.kind = s.tree[found].kind /\ x.parent = s.tree[found].parent
              /\ x.order = s.tree[found].order /\ x.role = s.tree[found].role /\ x.template \in DOMAIN L \cup {None}
          BY <1>5, <5>1, PutRowIs
        <5>3. v = [s EXCEPT !.tree = [s.tree EXCEPT ![found] = x]]
          BY <3>2, <4>2
        <5> HIDE DEF x, v
        <5>4. Session(t0, m0, R, L, v) /\ Follows(s, v) /\ v.at = s.at
          BY <4>1, <5>1, <5>2, <5>3, ChangedOK
        <5>5. found \in DOMAIN v.tree /\ v.tree[found].kind = l
          BY <4>1, <5>4 DEF Follows
        <5> QED  BY <3>2, <5>4, <5>5
      <4>3. CASE ~own
        <5>1. v = s
          BY <3>2, <4>3
        <5> QED  BY <3>2, <4>1, <5>1 DEF Follows
      <4> QED  BY <4>2, <4>3
    <3> QED  BY <3>1, <3>2
  <2>2. u = PathPut(v, path, place, use)
    BY <1>1, <1>10
  <2>3. use.template \in DOMAIN L \cup {None}
    BY <1>5
  <2> HIDE DEF v, place, use
  <2>5. v.tree[place].kind = Len(path) /\ path \notin DOMAIN v.at
    BY <1>3, <1>10, <2>1
  <2>4. /\ Session(t0, m0, R, L, u) /\ Follows(v, u) /\ path \in DOMAIN u.at
    BY <2>1, <2>2, <2>3, <2>5, PathOK
  <2> QED  BY <2>1, <2>4, FollowsOn DEF path
<1> QED  BY <1>9, <1>10

LEMMA RoleCalledIs ==
  ASSUME NEW R, NEW name  PROVE RoleCalled(R, name) \in R \cup {None}
BY DEF RoleCalled

WithRole(x, role, hours, days) == [x EXCEPT !.role = role, !.hours = hours, !.days = days]

LEMMA WithRoleIs ==
  ASSUME NEW x \in Item, NEW role \in Name \cup {None}, NEW hours \in Nat,
         NEW days \in Nat \cup {None}, NEW y, y = WithRole(x, role, hours, days)
  PROVE  /\ y \in Item /\ y.kind = x.kind /\ y.parent = x.parent /\ y.order = x.order /\ y.name = x.name
         /\ y.role = role /\ y.template = x.template
BY DEF WithRole, Item

(* A task of a template is there afterwards, or was.                       *)
LEMMA ExpandedByOK ==
  ASSUME NEW t0, NEW m0, NEW R, NEW L, Ground(t0, m0, R, L), NEW s, Session(t0, m0, R, L, s),
         NEW story \in DOMAIN s.tree, s.tree[story].kind = Story, NEW t \in TemplateTask,
         NEW u, u = ExpandedBy(s, story, t, R)
  PROVE  Session(t0, m0, R, L, u) /\ Follows(s, u) /\ DOMAIN u.at = DOMAIN s.at
<1> DEFINE item == NewItem(Task, story, t.name, Cardinality(Children(s.tree, story)))
           days == CalcDurationDays(t.hours)
           x == WithRole(item, RoleCalled(R, t.role), t.hours, days)
<1>1. u = IF Same(s.tree, story, t.name) # {} THEN s ELSE Added(s, x)
  BY Zenon DEF ExpandedBy, WithTask, WithRole
<1>2. WrittenOnto(t0, m0, R, L, s.tree, s.made)
  BY DEF Session
<1>3. Cardinality(Children(s.tree, story)) \in Nat /\ story \in Nat
  BY <1>2, ChildCount DEF WrittenOnto
<1>4. t.name \in Name /\ t.hours \in Nat /\ days \in Nat \cup {None}
  BY DurationIs DEF TemplateTask
<1>5. item \in Item /\ item.kind = 4 /\ item.parent = story /\ item.template = None
  BY <1>3, <1>4, NewItemIs, KindIs
<1>6. RoleCalled(R, t.role) \in R \cup {None} /\ RoleCalled(R, t.role) \in Name \cup {None}
  BY RoleCalledIs DEF Ground
<1> HIDE DEF item, days
<1>11. /\ x \in Item /\ x.kind = item.kind /\ x.parent = item.parent
       /\ x.role = RoleCalled(R, t.role) /\ x.template = item.template
  <2>1. item \in Item /\ RoleCalled(R, t.role) \in Name \cup {None} /\ t.hours \in Nat /\ days \in Nat \cup {None}
    BY <1>4, <1>5, <1>6
  <2> QED  BY ONLY <2>1, WithRoleIs
<1>7. x \in Item /\ x.kind = 4 /\ x.parent = story /\ x.role \in R \cup {None, Foreign} /\ x.template \in DOMAIN L \cup {None}
  BY <1>5, <1>6, <1>11
<1> HIDE DEF x
<1>8. ParentThere(s.tree, x.kind, x.parent)
  BY <1>7, KindIs DEF ParentThere
<1>9. CASE Same(s.tree, story, t.name) # {}
  BY <1>1, <1>9 DEF Follows
<1>10. CASE Same(s.tree, story, t.name) = {}
  BY <1>1, <1>7, <1>8, <1>10, AddedOK
<1> QED  BY <1>9, <1>10

(* The states of an expansion, task by task.                               *)
Expands(f, n, s, story, tasks, R) ==
  f = [k \in 0..n |-> IF k = 0 THEN s ELSE ExpandedBy(f[k - 1], story, tasks[k], R)]

LEMMA ExpansionThere ==
  ASSUME NEW s, NEW story, NEW tasks, NEW R, NEW N \in Nat
  PROVE  \E f : Expands(f, N, s, story, tasks, R)
<1> DEFINE T == {n \in Nat : ~ \E f : Expands(f, n, s, story, tasks, R)}
<1>1. ASSUME T # {}  PROVE FALSE
  <2>1. PICK n \in T : \A m \in T : n <= m
    BY <1>1, LeastNumber
  <2>2. CASE n = 0
    <3> DEFINE f == [k \in 0..0 |-> s]
    <3>1. Expands(f, 0, s, story, tasks, R)
      BY DEF Expands
    <3> HIDE DEF f
    <3> QED  BY <2>1, <2>2, <3>1
  <2>3. CASE n # 0
    <3>1. n - 1 \in Nat /\ n - 1 \notin T
      BY <2>1, <2>3
    <3>2. PICK f : Expands(f, n - 1, s, story, tasks, R)
      BY <3>1
    <3>3. DOMAIN f = 0 .. n - 1 /\ \A k \in 0 .. n - 1 :
            f[k] = IF k = 0 THEN s ELSE ExpandedBy(f[k - 1], story, tasks[k], R)
      BY <3>2 DEF Expands
    <3> DEFINE g == [k \in 0..n |-> IF k = n THEN ExpandedBy(f[n - 1], story, tasks[n], R) ELSE f[k]]
    <3>4. \A k \in 0..n : g[k] = IF k = 0 THEN s ELSE ExpandedBy(g[k - 1], story, tasks[k], R)
      <4> SUFFICES ASSUME NEW k \in 0..n
                   PROVE  g[k] = IF k = 0 THEN s ELSE ExpandedBy(g[k - 1], story, tasks[k], R)
        OBVIOUS
      <4>0. n \in Nat /\ n # 0
        BY <2>1, <2>3
      <4>1. CASE k = n
        <5>1. g[k - 1] = f[n - 1]
          BY <4>0, <4>1
        <5> QED  BY <4>0, <4>1, <5>1
      <4>2. CASE k # n /\ k # 0
        <5>1. k - 1 \in 0..n /\ k - 1 # n /\ k \in 0 .. n - 1
          BY <4>0, <4>2
        <5>2. g[k - 1] = f[k - 1] /\ g[k] = f[k]
          BY <4>2, <5>1
        <5> QED  BY <3>3, <4>2, <5>1, <5>2
      <4>3. CASE k = 0
        <5>1. k \in 0 .. n - 1 /\ k # n
          BY <4>0, <4>3
        <5> QED  BY <3>3, <4>3, <5>1
      <4> QED  BY <4>1, <4>2, <4>3
    <3>5. g = [k \in 0..n |-> g[k]]
      OBVIOUS
    <3> HIDE DEF g
    <3>6. Expands(g, n, s, story, tasks, R)
      BY <3>4, <3>5 DEF Expands
    <3> QED  BY <2>1, <3>6
  <2> QED  BY <2>2, <2>3
<1> QED  BY <1>1

LEMMA ExpandedOK ==
  ASSUME NEW t0, NEW m0, NEW R, NEW L, Ground(t0, m0, R, L), NEW s, Session(t0, m0, R, L, s),
         NEW story \in DOMAIN s.tree, s.tree[story].kind = Story, NEW tasks \in Seq(TemplateTask),
         NEW u, u = Expanded(s, story, tasks, R)
  PROVE  Session(t0, m0, R, L, u) /\ Follows(s, u) /\ DOMAIN u.at = DOMAIN s.at
<1> DEFINE N == Len(tasks)
           after == CHOOSE f : Expands(f, N, s, story, tasks, R)
           OK(w) == Session(t0, m0, R, L, w) /\ Follows(s, w) /\ DOMAIN w.at = DOMAIN s.at
<1>1. u = after[N]
  BY Zenon DEF Expanded, Expands
<1>2. N \in Nat /\ \A n \in 1..N : tasks[n] \in TemplateTask
  OBVIOUS
<1>3. Expands(after, N, s, story, tasks, R)
  BY <1>2, ExpansionThere
<1> HIDE DEF after
<1>4. \A k \in 0..N : after[k] = IF k = 0 THEN s ELSE ExpandedBy(after[k - 1], story, tasks[k], R)
  BY <1>3 DEF Expands
<1> DEFINE T == {n \in 0..N : ~ OK(after[n])}
<1> HIDE DEF N
<1>5. ASSUME T # {}  PROVE FALSE
  <2>0. T \subseteq Nat
    <3> HIDE DEF OK
    <3> QED  BY <1>2
  <2>1. PICK n \in T : \A m \in T : n <= m
    <3> HIDE DEF T
    <3> QED  BY <1>5, <2>0, LeastNumber
  <2>2. CASE n = 0
    <3>1. after[n] = s
      BY <1>2, <1>4, <2>2
    <3> QED  BY <2>1, <3>1 DEF Follows
  <2>3. CASE n # 0
    <3>1. n \in 1..N /\ n - 1 \in 0..N /\ n - 1 \notin T
      BY <1>2, <2>1, <2>3
    <3>2. OK(after[n - 1]) /\ after[n] = ExpandedBy(after[n - 1], story, tasks[n], R)
      BY <1>4, <2>3, <3>1
    <3> DEFINE v == after[n - 1]
    <3>3. Session(t0, m0, R, L, v) /\ Follows(s, v) /\ DOMAIN v.at = DOMAIN s.at
      BY <3>2
    <3> HIDE DEF v
    <3>4. story \in DOMAIN v.tree /\ v.tree[story].kind = Story /\ tasks[n] \in TemplateTask
      BY <1>2, <3>1, <3>3 DEF Follows
    <3>5. after[n] = ExpandedBy(v, story, tasks[n], R)
      BY <3>2 DEF v
    <3>6. Session(t0, m0, R, L, after[n]) /\ Follows(v, after[n]) /\ DOMAIN after[n].at = DOMAIN v.at
      BY <3>3, <3>4, <3>5, ExpandedByOK
    <3>7. Follows(s, after[n])
      BY <3>3, <3>6, FollowsOn
    <3> QED  BY <2>1, <3>3, <3>6, <3>7
  <2> QED  BY <2>2, <2>3
<1>6. OK(after[N])
  BY <1>2, <1>5
<1> QED  BY <1>1, <1>6

LEMMA StoryMentionedOK ==
  ASSUME NEW t0, NEW m0, NEW R, NEW L, Ground(t0, m0, R, L), NEW s, Session(t0, m0, R, L, s),
         NEW rows, NEW row, Sound(row), 3 <= Len(row.path), PathTo(row, 2) \in DOMAIN s.at,
         NEW u, u = StoryMentioned(s, rows, row, L, R)
  PROVE  Session(t0, m0, R, L, u) /\ Follows(s, u) /\ PathTo(row, 3) \in DOMAIN u.at
<1> DEFINE path == PathTo(row, 3)
           v == Mentioned(s, row, 3, L)
           template == v.using[path].template
           story == v.at[path]
<1>1. u = IF path \notin DOMAIN s.at /\ template # None /\ v.using[path].sized /\ ~HasTaskRows(rows, path)
          THEN Expanded(v, story, L[template], R) ELSE v
  BY Zenon DEF StoryMentioned, PathTo, Story
<1>2. Session(t0, m0, R, L, v) /\ Follows(s, v) /\ path \in DOMAIN v.at
  <2>1. 3 \in 1..3 /\ 3 - 1 = 2
    OBVIOUS
  <2> QED  BY <2>1, MentionedOK
<1>3. Len(path) = 3
  <2>1. 3 \in 1..4
    OBVIOUS
  <2> QED  BY <2>1, PathToIs
<1> HIDE DEF v, path
<1>4. template \in DOMAIN L \cup {None} /\ story \in DOMAIN v.tree /\ v.tree[story].kind = 3
  BY <1>2, <1>3 DEF Session
<1> HIDE DEF template, story
<1>5. CASE u = v
  BY <1>2, <1>5 DEF path
<1>6. CASE u = Expanded(v, story, L[template], R) /\ template # None
  <2>1. L[template] \in Seq(TemplateTask)
    BY <1>4, <1>6 DEF Ground
  <2>2. Session(t0, m0, R, L, u) /\ Follows(v, u) /\ DOMAIN u.at = DOMAIN v.at
    BY <1>2, <1>4, <1>6, <2>1, ExpandedOK, KindIs
  <2> QED  BY <1>2, <2>2, FollowsOn DEF path
<1> QED  BY <1>1, <1>5, <1>6

LEMMA TaskWrittenOK ==
  ASSUME NEW t0, NEW m0, NEW R, NEW L, Ground(t0, m0, R, L), NEW s, Session(t0, m0, R, L, s),
         NEW row, Sound(row), Len(row.path) = 4, PathTo(row, 3) \in DOMAIN s.at,
         NEW u, u = TaskWritten(s, row, L, R)
  PROVE  Session(t0, m0, R, L, u) /\ Follows(s, u)
<1> DEFINE path == PathTo(row, 3)
           story == s.at[path]
           same == Same(s.tree, story, row.path[4])
           found == CHOOSE i \in same : TRUE
           item == NewItem(Task, story, row.path[4], Cardinality(Children(s.tree, story)))
           role == RoleCalled(R, row.role)
           hours == EffectiveHours(s, row, L)
           days == IF row.days = 0 THEN CalcDurationDays(hours) ELSE row.days
<1>1. u = IF same # {} THEN [s EXCEPT !.tree = [s.tree EXCEPT ![found] = WithRole(s.tree[found], role, hours, days)]]
          ELSE Added(s, WithRole(item, role, hours, days))
  BY Zenon DEF TaskWritten, PathTo, Story, Task, WithRole
<1>2. WrittenOnto(t0, m0, R, L, s.tree, s.made) /\ IsTree(s.tree, R)
  BY DEF Session, WrittenOnto
<1>3. row.path \in Seq(Name) /\ row.path[4] \in Name /\ row.hours \in Nat /\ row.days \in Nat
  BY DEF Sound, StagedRow
<1>4. story \in DOMAIN s.tree /\ s.tree[story].kind = 3
  <2>1. Len(path) = 3
    <3>1. 3 \in 1..4
      OBVIOUS
    <3> QED  BY <3>1, PathToIs
  <2> QED  BY <2>1 DEF Session
<1>5. hours \in Nat
  <2> DEFINE tasks == L[s.using[path].template]
             fits == {n \in DOMAIN tasks : tasks[n].name = row.path[4]}
  <2>1. hours = row.hours \/ (s.using[path].template # None /\ fits # {} /\ hours = tasks[Min(fits)].hours)
    BY DEF EffectiveHours, PathTo, Story, Task
  <2>2. CASE s.using[path].template # None /\ fits # {}
    <3>1. tasks \in Seq(TemplateTask)
      BY <2>2 DEF Session, Ground
    <3>2. fits \subseteq Nat
      BY <3>1
    <3>3. Min(fits) \in fits
      BY <2>2, <3>2, MinIs
    <3>6. Min(fits) \in DOMAIN tasks
      BY <3>3
    <3>4. tasks[Min(fits)] \in TemplateTask
      <4> HIDE DEF tasks, fits
      <4> QED  BY <3>1, <3>6
    <3>5. tasks[Min(fits)].hours \in Nat
      BY <3>4 DEF TemplateTask
    <3> QED  BY <1>3, <2>1, <3>5
  <2> QED  BY <1>3, <2>1, <2>2
<1>11. days \in Nat \cup {None}
  BY <1>3, <1>5, DurationIs
<1>6. role \in R \cup {None} /\ role \in Name \cup {None}
  BY RoleCalledIs DEF Ground
<1>7. Cardinality(Children(s.tree, story)) \in Nat /\ story \in Nat
  BY <1>2, <1>4, ChildCount DEF WrittenOnto
<1> HIDE DEF story, path, hours, days, role
<1>8. item \in Item /\ item.kind = 4 /\ item.parent = story /\ item.template = None
  <2>1. Task \in Kind /\ Task = 4 /\ story \in Nat /\ row.path[4] \in Name
    BY <1>3, <1>7, KindIs
  <2> QED  BY <1>7, <2>1, NewItemIs
<1> HIDE DEF item
<1>9. CASE same = {}
  <2> DEFINE x == WithRole(item, role, hours, days)
  <2>0. item \in Item /\ role \in Name \cup {None} /\ hours \in Nat /\ days \in Nat \cup {None}
    BY <1>5, <1>6, <1>8, <1>11
  <2>1. x \in Item /\ x.kind = item.kind /\ x.parent = item.parent /\ x.role = role /\ x.template = item.template
    BY ONLY <2>0, WithRoleIs
  <2>2. u = Added(s, x)
    BY <1>1, <1>9
  <2> HIDE DEF x
  <2>3. ParentThere(s.tree, x.kind, x.parent)
    BY <1>4, <1>8, <2>1, KindIs DEF ParentThere
  <2>4. x.role \in R \cup {None, Foreign} /\ x.template \in DOMAIN L \cup {None}
    BY <1>6, <1>8, <2>1
  <2> QED  BY <2>1, <2>2, <2>3, <2>4, AddedOK
<1>10. CASE same # {}
  <2>0. found \in same
    BY <1>10
  <2>1. u = [s EXCEPT !.tree = [s.tree EXCEPT ![found] = WithRole(s.tree[found], role, hours, days)]]
    BY <1>1, <1>10
  <2>2. found \in DOMAIN s.tree
    BY <2>0 DEF Same, Children
  <2> HIDE DEF found
  <2> DEFINE x == WithRole(s.tree[found], role, hours, days)
  <2>3. s.tree[found] \in Item /\ s.tree[found].template \in DOMAIN L \cup {None}
    BY <1>2, <2>2 DEF IsTree, WrittenOnto
  <2>4. s.tree[found] \in Item /\ role \in Name \cup {None} /\ hours \in Nat /\ days \in Nat \cup {None}
    BY <1>5, <1>6, <1>11, <2>3
  <2>5. /\ x \in Item /\ x.kind = s.tree[found].kind /\ x.parent = s.tree[found].parent
        /\ x.order = s.tree[found].order /\ x.role = role /\ x.template = s.tree[found].template
    BY ONLY <2>4, WithRoleIs
  <2>6. u = [s EXCEPT !.tree = [s.tree EXCEPT ![found] = x]]
    BY <2>1
  <2> HIDE DEF x
  <2>7. x.role \in R \cup {None, Foreign} /\ x.template \in DOMAIN L \cup {None}
    BY <1>6, <2>3, <2>5
  <2> QED  BY <2>2, <2>5, <2>6, <2>7, ChangedOK
<1> QED  BY <1>9, <1>10

LEMMA UpsertedOK ==
  ASSUME NEW t0, NEW m0, NEW R, NEW L, Ground(t0, m0, R, L), NEW s, Session(t0, m0, R, L, s),
         NEW rows, NEW row, Sound(row), NEW u, u = Upserted(s, rows, row, L, R)
  PROVE  Session(t0, m0, R, L, u)
<1> DEFINE epic == Mentioned(s, row, 1, L)
           feature == Mentioned(epic, row, 2, L)
           story == StoryMentioned(feature, rows, row, L, R)
           task == TaskWritten(story, row, L, R)
<1>1. Len(row.path) \in {1, 2, 3, 4}
  BY DEF Sound
<1>2. u = CASE Len(row.path) = 1 -> epic [] Len(row.path) = 2 -> feature
            [] Len(row.path) = 3 -> story [] Len(row.path) = 4 -> task
  BY DEF Upserted, Epic, Feature, Story, Task
<1> 1 \in 1..3 /\ 2 \in 1..3 /\ 2 - 1 = 1
  OBVIOUS
<1>3. Session(t0, m0, R, L, epic) /\ PathTo(row, 1) \in DOMAIN epic.at
  BY <1>1, MentionedOK
<1> HIDE DEF epic
<1>4. 2 <= Len(row.path) => Session(t0, m0, R, L, feature) /\ PathTo(row, 2) \in DOMAIN feature.at
  BY <1>3, MentionedOK
<1> HIDE DEF feature
<1>5. 3 <= Len(row.path) => Session(t0, m0, R, L, story) /\ PathTo(row, 3) \in DOMAIN story.at
  BY <1>1, <1>4, StoryMentionedOK
<1> HIDE DEF story
<1>6. Len(row.path) = 4 => Session(t0, m0, R, L, task)
  BY <1>5, TaskWrittenOK
<1> HIDE DEF task
<1>7. CASE Len(row.path) = 1
  BY <1>2, <1>3, <1>7
<1>8. CASE Len(row.path) = 2
  BY <1>2, <1>4, <1>8
<1>9. CASE Len(row.path) = 3
  BY <1>2, <1>5, <1>9
<1>10. CASE Len(row.path) = 4
  BY <1>2, <1>6, <1>10
<1> QED  BY <1>1, <1>7, <1>8, <1>9, <1>10

(* The states of an import, row by row.                                    *)
Imports(f, n, t0, m0, rows, L, R) ==
  f = [k \in 0..n |-> IF k = 0 THEN Begun(t0, m0) ELSE Upserted(f[k - 1], rows, rows[k], L, R)]

LEMMA ImportThere ==
  ASSUME NEW t0, NEW m0, NEW rows, NEW L, NEW R, NEW N \in Nat
  PROVE  \E f : Imports(f, N, t0, m0, rows, L, R)
<1> DEFINE T == {n \in Nat : ~ \E f : Imports(f, n, t0, m0, rows, L, R)}
<1>1. ASSUME T # {}  PROVE FALSE
  <2>1. PICK n \in T : \A m \in T : n <= m
    BY <1>1, LeastNumber
  <2>2. CASE n = 0
    <3> DEFINE f == [k \in 0..0 |-> Begun(t0, m0)]
    <3>1. Imports(f, 0, t0, m0, rows, L, R)
      BY DEF Imports
    <3> HIDE DEF f
    <3> QED  BY <2>1, <2>2, <3>1
  <2>3. CASE n # 0
    <3>1. n - 1 \in Nat /\ n - 1 \notin T
      BY <2>1, <2>3
    <3>2. PICK f : Imports(f, n - 1, t0, m0, rows, L, R)
      BY <3>1
    <3>3. DOMAIN f = 0 .. n - 1 /\ \A k \in 0 .. n - 1 :
            f[k] = IF k = 0 THEN Begun(t0, m0) ELSE Upserted(f[k - 1], rows, rows[k], L, R)
      BY <3>2 DEF Imports
    <3> DEFINE g == [k \in 0..n |-> IF k = n THEN Upserted(f[n - 1], rows, rows[n], L, R) ELSE f[k]]
    <3>4. \A k \in 0..n : g[k] = IF k = 0 THEN Begun(t0, m0) ELSE Upserted(g[k - 1], rows, rows[k], L, R)
      <4> SUFFICES ASSUME NEW k \in 0..n
                   PROVE  g[k] = IF k = 0 THEN Begun(t0, m0) ELSE Upserted(g[k - 1], rows, rows[k], L, R)
        OBVIOUS
      <4>0. n \in Nat /\ n # 0
        BY <2>1, <2>3
      <4>1. CASE k = n
        <5>1. g[k - 1] = f[n - 1]
          BY <4>0, <4>1
        <5> QED  BY <4>0, <4>1, <5>1
      <4>2. CASE k # n /\ k # 0
        <5>1. k - 1 \in 0..n /\ k - 1 # n /\ k \in 0 .. n - 1
          BY <4>0, <4>2
        <5>2. g[k - 1] = f[k - 1] /\ g[k] = f[k]
          BY <4>2, <5>1
        <5> QED  BY <3>3, <4>2, <5>1, <5>2
      <4>3. CASE k = 0
        <5>1. k \in 0 .. n - 1 /\ k # n
          BY <4>0, <4>3
        <5> QED  BY <3>3, <4>3, <5>1
      <4> QED  BY <4>1, <4>2, <4>3
    <3>5. g = [k \in 0..n |-> g[k]]
      OBVIOUS
    <3> HIDE DEF g
    <3>6. Imports(g, n, t0, m0, rows, L, R)
      BY <3>4, <3>5 DEF Imports
    <3> QED  BY <2>1, <3>6
  <2> QED  BY <2>2, <2>3
<1> QED  BY <1>1

(* An import leaves a tree with all that was there where it was.           *)
LEMMA ImportedOK ==
  ASSUME NEW t0, NEW m0, NEW R, NEW L, Ground(t0, m0, R, L), NEW rows \in Seq(StagedRow),
         \A r \in DOMAIN rows : Sound(rows[r]), NEW u, u = Imported(t0, m0, rows, L, R)
  PROVE  WrittenOnto(t0, m0, R, L, u.tree, u.made)
<1> DEFINE N == Len(rows)
           after == CHOOSE f : Imports(f, N, t0, m0, rows, L, R)
           OK(w) == Session(t0, m0, R, L, w)
<1>0. <<>> \o rows = rows
  BY ConcatEmptySeq
<1>1. u = after[N]
  BY <1>0, Zenon DEF Imported, Imports
<1>2. N \in Nat /\ \A n \in 1..N : Sound(rows[n])
  OBVIOUS
<1>3. Imports(after, N, t0, m0, rows, L, R)
  BY <1>2, ImportThere
<1> HIDE DEF after
<1>4. \A k \in 0..N : after[k] = IF k = 0 THEN Begun(t0, m0) ELSE Upserted(after[k - 1], rows, rows[k], L, R)
  BY <1>3 DEF Imports
<1> DEFINE T == {n \in 0..N : ~ OK(after[n])}
<1> HIDE DEF N
<1>5. ASSUME T # {}  PROVE FALSE
  <2>0. T \subseteq Nat
    <3> HIDE DEF OK
    <3> QED  BY <1>2
  <2>1. PICK n \in T : \A m \in T : n <= m
    <3> HIDE DEF T
    <3> QED  BY <1>5, <2>0, LeastNumber
  <2>2. CASE n = 0
    <3>1. after[n] = [tree |-> t0, made |-> m0, at |-> <<>>, using |-> <<>>]
      BY <1>2, <1>4, <2>2 DEF Begun
    <3>2. WrittenOnto(t0, m0, R, L, t0, m0)
      BY DEF WrittenOnto, Ground
    <3>3. OK(after[n])
      BY <3>1, <3>2 DEF Session
    <3> QED  BY <2>1, <3>3
  <2>3. CASE n # 0
    <3>1. n \in 1..N /\ n - 1 \in 0..N /\ n - 1 \notin T
      BY <1>2, <2>1, <2>3
    <3>2. Session(t0, m0, R, L, after[n - 1]) /\ after[n] = Upserted(after[n - 1], rows, rows[n], L, R)
      BY <1>4, <2>3, <3>1
    <3>3. OK(after[n])
      BY <1>2, <3>1, <3>2, UpsertedOK
    <3> QED  BY <2>1, <3>3
  <2> QED  BY <2>2, <2>3
<1>6. Session(t0, m0, R, L, u)
  BY <1>1, <1>2, <1>5
<1> QED  BY <1>6 DEF Session

(***************************************************************************)
(* Grid Entry.                                                             *)
(***************************************************************************)

(* Paths have at most three names above an item's own.                     *)
LEMMA FoundIs ==
  ASSUME NEW t, NEW path, Len(path) \in 0..3
  PROVE  /\ Len(path) = 0 => Found(t, path) = 0
         /\ Len(path) = 1 => Found(t, path) = UniqueByName(t, 0, path[1])
         /\ Len(path) = 2 => Found(t, path) = UniqueByName(t, UniqueByName(t, 0, path[1]), path[2])
         /\ Len(path) = 3 => Found(t, path) = UniqueByName(t, UniqueByName(t, UniqueByName(t, 0, path[1]), path[2]), path[3])
<1> DEFINE n == Len(path)
           a1 == UniqueByName(t, 0, path[1])
           a2 == UniqueByName(t, a1, path[2])
           a3 == UniqueByName(t, a2, path[3])
           Leads(f) == f = [l \in 0..n |-> IF l = 0 THEN 0 ELSE UniqueByName(t, f[l - 1], path[l])]
           at == CHOOSE f : Leads(f)
           g == [l \in 0..n |-> IF l = 0 THEN 0 ELSE IF l = 1 THEN a1 ELSE IF l = 2 THEN a2 ELSE a3]
<1>1. Found(t, path) = at[n]
  BY Zenon DEF Found, Project
<1>2. n \in {0, 1, 2, 3}
  OBVIOUS
<1> HIDE DEF n
<1>3. \A l \in 0..n : l \in {0, 1, 2, 3}
  BY <1>2
<1>4. Leads(g)
  <2>1. ASSUME NEW l \in 0..n  PROVE g[l] = IF l = 0 THEN 0 ELSE UniqueByName(t, g[l - 1], path[l])
    <3>1. CASE l = 0
      BY <3>1
    <3>2. CASE l = 1
      <4>1. 0 \in 0..n
        BY <1>2
      <4> QED  BY <3>2, <4>1
    <3>3. CASE l = 2
      <4>1. 1 \in 0..n
        BY <1>2, <3>3
      <4> HIDE DEF a1
      <4> QED  BY <3>3, <4>1
    <3>4. CASE l = 3
      <4>1. 2 \in 0..n
        BY <1>2, <3>4
      <4> HIDE DEF a1, a2
      <4> QED  BY <3>4, <4>1
    <3> QED  BY <1>3, <3>1, <3>2, <3>3, <3>4
  <2>2. g = [l \in 0..n |-> g[l]]
    OBVIOUS
  <2> HIDE DEF g
  <2> QED  BY <2>1, <2>2
<1>5. Leads(at)
  <2> HIDE DEF Leads, g
  <2> QED  BY <1>4
<1> HIDE DEF at
<1>6. \A l \in 0..n : at[l] = IF l = 0 THEN 0 ELSE UniqueByName(t, at[l - 1], path[l])
  <2>1. at = [l \in 0..n |-> IF l = 0 THEN 0 ELSE UniqueByName(t, at[l - 1], path[l])]
    BY <1>5
  <2> QED  BY <2>1
<1>7. at[0] = 0
  BY <1>2, <1>6
<1>8. n >= 1 => at[1] = a1
  BY <1>2, <1>6, <1>7
<1> HIDE DEF a1
<1>9. n >= 2 => at[2] = a2
  BY <1>2, <1>6, <1>8
<1> HIDE DEF a2
<1>10. n >= 3 => at[3] = a3
  BY <1>2, <1>6, <1>9
<1>11. /\ n = 0 => Found(t, path) = 0
       /\ n = 1 => Found(t, path) = a1
       /\ n = 2 => Found(t, path) = a2
       /\ n = 3 => Found(t, path) = a3
  <2> HIDE DEF a3
  <2> QED  BY <1>1, <1>2, <1>7, <1>8, <1>9, <1>10
<1> QED  BY <1>11 DEF n, a1, a2

LEMMA UniqueIs ==
  ASSUME NEW t, NEW m \in Nat, DOMAIN t \subseteq 1..m, NEW p, NEW name, UniqueByName(t, p, name) # None
  PROVE  /\ p # None
         /\ UniqueByName(t, p, name) \in Children(t, p)
         /\ Key(t[UniqueByName(t, p, name)].name) = Key(name)
         /\ \A i \in Children(t, p) : Key(t[i].name) = Key(name) => i = UniqueByName(t, p, name)
<1> DEFINE same == {i \in Children(t, p) : Key(t[i].name) = Key(name)}
<1>1. /\ UniqueByName(t, p, name) = CHOOSE i \in same : TRUE
      /\ p # None /\ Cardinality(same) = 1
  BY DEF UniqueByName
<1>2. PICK x : same = {x}
  <2>1. IsFiniteSet(Children(t, p)) /\ same \subseteq Children(t, p)
    BY ChildCount
  <2> HIDE DEF same
  <2> QED  BY <1>1, <2>1, FS_Subset, FS_Singleton
<1> QED  BY <1>1, <1>2

LEMMA UniqueKind ==
  ASSUME NEW t, NEW R, IsTree(t, R), NEW m \in Nat, DOMAIN t \subseteq 1..m, NEW l \in 1..4, NEW p, NEW name,
         p # None => ParentThere(t, l, p), NEW i, i = UniqueByName(t, p, name), i # None
  PROVE  /\ p # None /\ i \in DOMAIN t /\ t[i].kind = l /\ t[i].parent = p /\ Key(t[i].name) = Key(name)
         /\ ParentThere(t, l + 1, i)
<1>1. p # None /\ i \in Children(t, p) /\ Key(t[i].name) = Key(name)
  BY UniqueIs
<1>2. i \in DOMAIN t /\ t[i].kind = l /\ t[i].parent = p
  BY <1>1, ChildKind
<1> QED  BY <1>1, <1>2, KindIs DEF ParentThere

(* The items a path leads to: one below the other, named as the path says. *)
LEMMA FoundChain ==
  ASSUME NEW t, NEW R, IsTree(t, R), NEW m \in Nat, DOMAIN t \subseteq 1..m, NEW path, Len(path) \in 0..3,
         NEW i, i = Found(t, path), i # None
  PROVE  /\ Len(path) = 0 => i = 0
         /\ Len(path) # 0 => i \in DOMAIN t /\ t[i].kind = Len(path) /\ Key(t[i].name) = Key(path[Len(path)])
         /\ Len(path) = 1 => t[i].parent = 0
         /\ Len(path) >= 2 => LET p == t[i].parent
                              IN p \in DOMAIN t /\ t[p].kind = Len(path) - 1 /\ Key(t[p].name) = Key(path[Len(path) - 1])
         /\ Len(path) = 3 => LET g == t[t[i].parent].parent
                             IN g \in DOMAIN t /\ t[g].kind = 1 /\ Key(t[g].name) = Key(path[1])
<1> DEFINE a1 == UniqueByName(t, 0, path[1])
           a2 == UniqueByName(t, a1, path[2])
           a3 == UniqueByName(t, a2, path[3])
<1> HIDE DEF a1, a2, a3
<1>1. /\ Len(path) = 0 => i = 0
      /\ Len(path) = 1 => i = a1
      /\ Len(path) = 2 => i = a2
      /\ Len(path) = 3 => i = a3
  BY FoundIs DEF a1, a2, a3
<1>2. ParentThere(t, 1, 0) /\ 1 \in 1..4 /\ 2 \in 1..4 /\ 3 \in 1..4
  BY KindIs DEF ParentThere
<1>3. a1 # None => a1 \in DOMAIN t /\ t[a1].kind = 1 /\ t[a1].parent = 0 /\ Key(t[a1].name) = Key(path[1])
                   /\ ParentThere(t, 2, a1)
  BY <1>2, UniqueKind DEF a1
<1>4. a2 # None => /\ a1 # None /\ a2 \in DOMAIN t /\ t[a2].kind = 2 /\ t[a2].parent = a1
                   /\ Key(t[a2].name) = Key(path[2]) /\ ParentThere(t, 3, a2)
  BY <1>2, <1>3, UniqueKind DEF a2
<1>5. a3 # None => /\ a2 # None /\ a3 \in DOMAIN t /\ t[a3].kind = 3 /\ t[a3].parent = a2
                   /\ Key(t[a3].name) = Key(path[3])
  BY <1>2, <1>4, UniqueKind DEF a3
<1>6. Len(path) \in {0, 1, 2, 3}
  OBVIOUS
<1>7. CASE Len(path) = 0
  BY <1>1, <1>7
<1>8. CASE Len(path) = 1
  BY <1>1, <1>3, <1>8
<1>9. CASE Len(path) = 2
  BY <1>1, <1>3, <1>4, <1>9
<1>10. CASE Len(path) = 3
  BY <1>1, <1>3, <1>4, <1>5, <1>10
<1> QED  BY <1>6, <1>7, <1>8, <1>9, <1>10

(* A grid that was accepted for a tree, and what commits have not changed  *)
(* of that tree since.                                                     *)
GridFits(t, m, R, seen, types, rows) ==
  /\ IsTree(seen, types) /\ types \subseteq R /\ R \subseteq Name /\ DOMAIN seen \subseteq 1..m
  /\ \A i \in DOMAIN seen \cap DOMAIN t : seen[i].kind = t[i].kind
  /\ rows \in Seq(GridRow) /\ GridAccepted(seen, types, rows)

LEMMA RowIs ==
  ASSUME NEW rows \in Seq(GridRow), NEW r \in DOMAIN rows
  PROVE  /\ r \in Nat /\ rows[r].id \in Nat \cup {None} /\ rows[r].kind \in {1, 2, 3, 4} /\ rows[r].path \in Seq(Name)
         /\ rows[r].name \in Name /\ rows[r].hours \in Nat /\ DaysOfRow(rows[r]) \in Nat
<1>1. rows[r] \in GridRow /\ r \in Nat
  OBVIOUS
<1>2. rows[r].hours \in Nat /\ rows[r].days \in Nat \cup {None}
  BY <1>1 DEF GridRow
<1>3. DaysOfRow(rows[r]) \in Nat
  BY <1>2, DurationIs DEF DaysOfRow
<1> QED  BY <1>1, <1>3, KindIs DEF GridRow

(* New items get numbers of their own, behind all that were given.         *)
LEMMA NewIds ==
  ASSUME NEW rows \in Seq(GridRow), NEW m \in Nat
  PROVE  /\ IsFiniteSet(NewRows(rows)) /\ Cardinality(NewRows(rows)) \in Nat
         /\ \A r \in NewRows(rows) : IdOfNew(rows, m, r) \in m + 1 .. m + Cardinality(NewRows(rows))
         /\ \A r, s \in NewRows(rows) : IdOfNew(rows, m, r) = IdOfNew(rows, m, s) => r = s
<1> DEFINE N == NewRows(rows)
           before(s, r) == rows[s].kind < rows[r].kind \/ (rows[s].kind = rows[r].kind /\ s <= r)
           upTo(r) == {s \in N : before(s, r)}
<1>1. N \subseteq DOMAIN rows /\ \A r \in N : r \in Nat /\ rows[r].kind \in {1, 2, 3, 4}
  BY RowIs DEF NewRows
<1>2. IsFiniteSet(N) /\ Cardinality(N) \in Nat
  <2>1. DOMAIN rows = 1 .. Len(rows) /\ Len(rows) \in Nat
    OBVIOUS
  <2>2. IsFiniteSet(DOMAIN rows)
    BY <2>1, FS_Interval
  <2> HIDE DEF N
  <2>3. IsFiniteSet(N)
    BY <1>1, <2>2, FS_Subset
  <2> QED  BY <2>3, FS_CardinalityType
<1>3. \A r \in N : IdOfNew(rows, m, r) = m + Cardinality(upTo(r))
  BY DEF IdOfNew
<1> HIDE DEF N
<1>4. /\ \A r \in N : before(r, r)
      /\ \A r, s, q \in N : before(q, r) /\ before(r, s) => before(q, s)
      /\ \A r, s \in N : before(r, s) \/ before(s, r)
      /\ \A r, s \in N : before(r, s) /\ before(s, r) => r = s
  BY <1>1
<1> HIDE DEF before
<1>6. ASSUME NEW j \in N
      PROVE  IsFiniteSet(upTo(j)) /\ Cardinality(upTo(j)) \in 1..Cardinality(N)
  <2>1. upTo(j) \subseteq N /\ j \in upTo(j)
    BY <1>4
  <2>2. IsFiniteSet(upTo(j)) /\ Cardinality(upTo(j)) \in Nat /\ Cardinality(upTo(j)) <= Cardinality(N)
    BY <1>2, <2>1, FS_Subset, FS_CardinalityType
  <2>3. Cardinality(upTo(j)) # 0
    BY <2>1, <2>2, FS_EmptySet
  <2> QED  BY <1>2, <2>2, <2>3
<1>7. ASSUME NEW j \in N, NEW k \in N, before(j, k), j # k  PROVE Cardinality(upTo(j)) # Cardinality(upTo(k))
  <2>1. upTo(j) \subseteq upTo(k) /\ k \in upTo(k) /\ k \notin upTo(j)
    BY <1>4, <1>7
  <2>2. upTo(j) # upTo(k)
    BY <2>1
  <2> QED  BY <1>6, <2>1, <2>2, FS_Subset
<1>8. ASSUME NEW j \in N, NEW k \in N, m + Cardinality(upTo(j)) = m + Cardinality(upTo(k))  PROVE j = k
  <2>1. Cardinality(upTo(j)) = Cardinality(upTo(k))
    <3> HIDE DEF upTo
    <3>1. Cardinality(upTo(j)) \in Nat /\ Cardinality(upTo(k)) \in Nat
      BY <1>2, <1>6
    <3> QED  BY <1>8, <3>1
  <2> QED  BY <1>4, <1>7, <2>1
<1> HIDE DEF upTo
<1>9. \A j \in N : m + Cardinality(upTo(j)) \in m + 1 .. m + Cardinality(N)
  BY <1>2, <1>6
<1>10. \A j \in N : IdOfNew(rows, m, j) \in m + 1 .. m + Cardinality(N)
  BY <1>3, <1>9
<1>11. \A j, k \in N : IdOfNew(rows, m, j) = IdOfNew(rows, m, k) => j = k
  BY <1>3, <1>8
<1> QED  BY <1>2, <1>10, <1>11 DEF N

LEMMA AcceptedRow ==
  ASSUME NEW t, NEW m, NEW R, NEW seen, NEW types, NEW rows, GridFits(t, m, R, seen, types, rows), NEW r \in DOMAIN rows
  PROVE  /\ Len(rows[r].path) = rows[r].kind - 1 /\ Len(rows[r].path) \in 0..3
         /\ RoleOfRow(types, rows[r]) \in types \cup {None}
         /\ rows[r].id # None => rows[r].id \in DOMAIN seen /\ seen[rows[r].id].kind = rows[r].kind
         /\ rows[r].id = None => AncestorsKnown(seen, rows, rows[r]) /\ NewNameFree(seen, rows[r])
<1> DEFINE row == rows[r]
<1>1. /\ Len(row.path) = row.kind - 1 /\ RoleKnown(types, row)
      /\ IF Existing(row) THEN RenameFree(seen, row) ELSE AncestorsKnown(seen, rows, row) /\ NewNameFree(seen, row)
  BY DEF GridFits, GridAccepted
<1>2. row.kind \in {1, 2, 3, 4}
  BY RowIs DEF GridFits
<1>3. ASSUME row.kind = Task  PROVE (CHOOSE x \in types : Key(x) = Key(row.role)) \in types
  <2> DEFINE S == {x \in types : Key(x) = Key(row.role)}
  <2>1. Cardinality(S) = 1
    BY <1>1, <1>3 DEF RoleKnown
  <2> HIDE DEF S
  <2>2. S # {}
    BY <2>1, FS_EmptySet
  <2> QED  BY <2>2 DEF S
<1>4. RoleOfRow(types, row) \in types \cup {None}
  BY <1>3 DEF RoleOfRow
<1> QED  BY <1>1, <1>2, <1>4 DEF Existing, RenameFree

(* The parent of a new row is the project, an item its path leads to, or   *)
(* the item of another new row of the kind above.                          *)
LEMMA ParentOfNewIs ==
  ASSUME NEW t, NEW m \in Nat, NEW R, NEW seen, NEW types, NEW rows, GridFits(t, m, R, seen, types, rows),
         NEW r \in NewRows(rows), NEW p, p = ParentOfNew(seen, rows, m, rows[r])
  PROVE  \/ rows[r].kind = 1 /\ p = 0
         \/ rows[r].kind # 1 /\ p = Found(seen, rows[r].path) /\ p \in DOMAIN seen /\ seen[p].kind = rows[r].kind - 1
         \/ /\ rows[r].kind # 1 /\ Found(seen, rows[r].path) = None
            /\ \E q \in NewRows(rows) : /\ rows[q].kind = rows[r].kind - 1 /\ p = IdOfNew(rows, m, q)
                                        /\ Keys(FullPath(rows[q])) = Keys(rows[r].path)
<1> DEFINE path == rows[r].path
           f == Found(seen, path)
<1>1. r \in DOMAIN rows /\ rows[r].id = None
  BY DEF NewRows, Existing
<1>2. Len(path) = rows[r].kind - 1 /\ Len(path) \in 0..3 /\ AncestorsKnown(seen, rows, rows[r])
  BY <1>1, AcceptedRow
<1>3. rows[r].kind \in {1, 2, 3, 4} /\ path \in Seq(Name)
  BY <1>1, RowIs DEF GridFits
<1>4. IsTree(seen, types) /\ DOMAIN seen \subseteq 1..m
  BY DEF GridFits
<1>5. p = IF f # None THEN f ELSE IdOfNew(rows, m, CHOOSE q \in Staged(rows, path) : TRUE)
  BY DEF ParentOfNew
<1>6. CASE f # None
  <2>1. /\ Len(path) = 0 => f = 0
        /\ Len(path) # 0 => f \in DOMAIN seen /\ seen[f].kind = Len(path)
    <3>1. Len(path) \in 0..3 /\ f = Found(seen, path)
      BY <1>2
    <3> HIDE DEF f, path
    <3> QED  BY <1>4, <1>6, <3>1, FoundChain
  <2> QED  BY <1>2, <1>3, <1>5, <1>6, <2>1
<1>7. CASE f = None
  <2>1. Len(path) # 0
    <3>1. Len(path) = 0 => f = 0
      BY <1>2, FoundIs
    <3> QED  BY <1>7, <3>1, NameAssumption
  <2>2. Staged(rows, path) # {}
    <3>1. SubSeq(path, 1, Len(path)) = path
      BY <1>3, SubSeqFull
    <3>2. Len(path) \in DOMAIN path
      BY <1>2, <1>3, <2>1
    <3> QED  BY <1>2, <1>7, <3>1, <3>2 DEF AncestorsKnown
  <2> DEFINE q == CHOOSE q \in Staged(rows, path) : TRUE
  <2>3. q \in Staged(rows, path)
    BY <2>2
  <2>4. p = IdOfNew(rows, m, q)
    BY <1>5, <1>7
  <2> HIDE DEF q
  <2>5. q \in NewRows(rows) /\ rows[q].kind = rows[r].kind - 1 /\ Keys(FullPath(rows[q])) = Keys(path)
    BY <1>2, <2>3 DEF Staged, New, NewRows
  <2> QED  BY <1>2, <1>3, <1>7, <2>1, <2>4, <2>5
<1> QED  BY <1>6, <1>7

(* What a commit does to the items that are there and to the new ones.     *)
SameButNamed(x, y) ==
  /\ y \in Item /\ y.kind = x.kind /\ y.parent = x.parent /\ y.order = x.order /\ y.template = x.template

GridWritten(t, m, R, seen, rows, u) ==
  /\ DOMAIN u = DOMAIN t \cup {IdOfNew(rows, m, r) : r \in NewRows(rows)}
  /\ \A i \in DOMAIN t : SameButNamed(t[i], u[i]) /\ u[i].role \in R \cup {None, Foreign}
  /\ \A i \in DOMAIN t : (\A r \in DOMAIN rows : rows[r].id # i) => u[i] = t[i]
  /\ \A r \in DOMAIN rows : rows[r].id \in DOMAIN t => u[rows[r].id].name = rows[r].name
  /\ \A r \in NewRows(rows) :
       LET x == u[IdOfNew(rows, m, r)]
       IN /\ x \in Item /\ x.kind = rows[r].kind /\ x.parent = ParentOfNew(seen, rows, m, rows[r])
          /\ x.name = rows[r].name /\ x.role \in R \cup {None} /\ x.template = None

Renamed(x, row, role) == [x EXCEPT !.name = row.name, !.role = role, !.hours = row.hours, !.days = DaysOfRow(row)]

LEMMA RenamedIs ==
  ASSUME NEW x \in Item, NEW row, row.name \in Name, row.hours \in Nat, DaysOfRow(row) \in Nat, NEW role \in Name \cup {None},
         NEW y, y = Renamed(x, row, role)
  PROVE  SameButNamed(x, y) /\ y.role = role /\ y.name = row.name
BY DEF Renamed, SameButNamed, Item

LEMMA GridWrittenOK ==
  ASSUME NEW t, NEW m \in Nat, NEW R, IsTree(t, R), DOMAIN t \subseteq 1..m,
         NEW seen, NEW types, NEW rows, GridFits(t, m, R, seen, types, rows), CanCommitGrid(t, seen, rows),
         NEW u, u = GridCommitted(t, seen, types, rows, m)
  PROVE  GridWritten(t, m, R, seen, rows, u)
<1> DEFINE N == NewRows(rows)
           id(r) == IdOfNew(rows, m, r)
           parent(r) == ParentOfNew(seen, rows, m, rows[r])
           role(r) == RoleOfRow(types, rows[r])
           days(r) == DaysOfRow(rows[r])
           before(r) == {s \in N : rows[s].kind = rows[r].kind /\ s < r /\ parent(s) = parent(r)}
           order(r) == Cardinality(Children(seen, parent(r))) + Cardinality(before(r))
           item(r) == WithRole(NewItem(rows[r].kind, parent(r), rows[r].name, order(r)), role(r), rows[r].hours, days(r))
           at(i) == {r \in DOMAIN rows : rows[r].id = i}
           renamed(i) == IF at(i) = {} THEN t[i]
                         ELSE LET r == CHOOSE r \in at(i) : TRUE IN Renamed(t[i], rows[r], role(r))
           fresh == {id(r) : r \in N}
           old == [i \in DOMAIN t |-> renamed(i)]
           new == [n \in fresh |-> item(CHOOSE r \in N : id(r) = n)]
<1>1. u = Merged(old, new)
  BY Zenon DEF GridCommitted, WithRole, Renamed
<1>2. rows \in Seq(GridRow) /\ types \subseteq R /\ R \subseteq Name
  BY DEF GridFits
<1>3. /\ IsFiniteSet(N)
      /\ \A r \in N : id(r) \in m + 1 .. m + Cardinality(N) /\ Cardinality(N) \in Nat
      /\ \A r, s \in N : id(r) = id(s) => r = s
  BY <1>2, NewIds
<1>4. \A r \in N : id(r) \notin DOMAIN t /\ id(r) \in Nat
  BY <1>3
<1>5. \A r \in N : r \in DOMAIN rows /\ rows[r].id = None
  BY DEF NewRows, Existing
<1>6. \A r \in DOMAIN rows : role(r) \in types \cup {None} /\ role(r) \in Name \cup {None}
  BY <1>2, AcceptedRow
<1>7. \A r \in DOMAIN rows : rows[r].kind \in Kind /\ rows[r].name \in Name /\ rows[r].hours \in Nat
                             /\ DaysOfRow(rows[r]) \in Nat
  BY <1>2, RowIs, KindIs
<1>8. ASSUME NEW r \in N  PROVE parent(r) \in Nat
  <2>1. \/ parent(r) = 0
        \/ parent(r) \in DOMAIN seen
        \/ \E q \in N : parent(r) = id(q)
    BY <1>8, ParentOfNewIs
  <2>2. DOMAIN seen \subseteq Nat
    BY DEF GridFits
  <2> QED  BY <1>4, <2>1, <2>2
<1>9. ASSUME NEW r \in N  PROVE order(r) \in Nat
  <2>1. DOMAIN seen \subseteq 1..m
    BY DEF GridFits
  <2>2. Cardinality(Children(seen, parent(r))) \in Nat
    BY <2>1, ChildCount
  <2>3. before(r) \subseteq N
    OBVIOUS
  <2> HIDE DEF before, N, parent
  <2>4. Cardinality(before(r)) \in Nat
    BY <1>3, <2>3, FS_Subset, FS_CardinalityType
  <2> QED  BY <2>2, <2>4
<1> HIDE DEF order, parent, role, id, days
<1>10. ASSUME NEW r \in N
       PROVE  /\ item(r) \in Item /\ item(r).kind = rows[r].kind /\ item(r).parent = parent(r)
              /\ item(r).name = rows[r].name /\ item(r).role \in R \cup {None} /\ item(r).template = None
  <2> DEFINE x == NewItem(rows[r].kind, parent(r), rows[r].name, order(r))
  <2>0. rows[r].kind \in Kind /\ parent(r) \in Nat /\ rows[r].name \in Name /\ order(r) \in Nat
    BY <1>5, <1>7, <1>8, <1>9
  <2>1. x \in Item /\ x.kind = rows[r].kind /\ x.parent = parent(r) /\ x.name = rows[r].name /\ x.template = None
    BY ONLY <2>0, NewItemIs
  <2> HIDE DEF x
  <2>2. x \in Item /\ role(r) \in Name \cup {None} /\ rows[r].hours \in Nat /\ days(r) \in Nat \cup {None}
    BY <1>5, <1>6, <1>7, <2>1 DEF days
  <2> DEFINE y == WithRole(x, role(r), rows[r].hours, days(r))
  <2>3. y \in Item /\ y.kind = x.kind /\ y.parent = x.parent /\ y.name = x.name /\ y.role = role(r) /\ y.template = x.template
    BY ONLY <2>2 DEF WithRole, Item
  <2>4. item(r) = y
    BY DEF x
  <2> HIDE DEF y, item
  <2> QED  BY <1>2, <1>5, <1>6, <2>1, <2>3, <2>4
<1> HIDE DEF item
<1>11. ASSUME NEW i \in DOMAIN t
       PROVE  /\ SameButNamed(t[i], renamed(i)) /\ renamed(i).role \in R \cup {None, Foreign}
              /\ at(i) = {} => renamed(i) = t[i]
              /\ \A r \in at(i) : renamed(i).name = rows[r].name
  <2>1. t[i] \in Item /\ t[i].role \in R \cup {None, Foreign}
    BY DEF IsTree
  <2>2. CASE at(i) = {}
    BY <2>1, <2>2 DEF SameButNamed
  <2>3. CASE at(i) # {}
    <3> DEFINE r == CHOOSE r \in at(i) : TRUE
    <3>1. r \in at(i)
      BY <2>3
    <3>2. renamed(i) = Renamed(t[i], rows[r], role(r))
      BY <2>3
    <3> HIDE DEF r
    <3>3. t[i] \in Item /\ rows[r].name \in Name /\ rows[r].hours \in Nat /\ DaysOfRow(rows[r]) \in Nat /\ role(r) \in Name \cup {None}
      BY <1>6, <1>7, <2>1, <3>1
    <3> DEFINE y == Renamed(t[i], rows[r], role(r))
    <3>4. SameButNamed(t[i], y) /\ y.role = role(r) /\ y.name = rows[r].name
      BY ONLY <3>3, RenamedIs
    <3> HIDE DEF y
    <3>5. \A s \in at(i) : s = r
      <4>1. i # None
        BY NameAssumption
      <4>2. \A a, b \in DOMAIN rows : a # b /\ Existing(rows[a]) => rows[a].id # rows[b].id
        BY DEF GridFits, GridAccepted
      <4> QED  BY <3>1, <4>1, <4>2 DEF Existing
    <3>6. role(r) \in R \cup {None}
      BY <1>2, <1>6, <3>1
    <3> HIDE DEF at, renamed
    <3>7. renamed(i) = y
      BY <3>2 DEF y
    <3> QED  BY <2>3, <3>4, <3>5, <3>6, <3>7
  <2> QED  BY <2>2, <2>3
<1> HIDE DEF renamed
<1>12. /\ DOMAIN u = DOMAIN t \cup fresh
       /\ \A i \in DOMAIN t : u[i] = renamed(i)
       /\ \A n \in fresh : n \notin DOMAIN t => u[n] = item(CHOOSE r \in N : id(r) = n)
  BY <1>1 DEF Merged
<1>13. ASSUME NEW r \in N  PROVE u[id(r)] = item(r)
  <2>1. (CHOOSE s \in N : id(s) = id(r)) = r
    BY <1>3
  <2>2. id(r) \in fresh /\ id(r) \notin DOMAIN t
    BY <1>4
  <2> HIDE DEF fresh, N
  <2> QED  BY <1>12, <2>1, <2>2
<1>14. DOMAIN u = DOMAIN t \cup {IdOfNew(rows, m, r) : r \in NewRows(rows)}
  BY <1>12 DEF id
<1>15. \A i \in DOMAIN t : SameButNamed(t[i], u[i]) /\ u[i].role \in R \cup {None, Foreign}
  BY <1>11, <1>12
<1>16. \A i \in DOMAIN t : (\A r \in DOMAIN rows : rows[r].id # i) => u[i] = t[i]
  BY <1>11, <1>12
<1>17. \A r \in DOMAIN rows : rows[r].id \in DOMAIN t => u[rows[r].id].name = rows[r].name
  BY <1>11, <1>12
<1>18. \A r \in N : /\ u[id(r)] \in Item /\ u[id(r)].kind = rows[r].kind /\ u[id(r)].parent = parent(r)
                    /\ u[id(r)].name = rows[r].name /\ u[id(r)].role \in R \cup {None} /\ u[id(r)].template = None
  BY <1>10, <1>13
<1> QED  BY <1>14, <1>15, <1>16, <1>17, <1>18 DEF GridWritten, N, id, parent

(* A commit leaves a tree with all that was there where it was.            *)
LEMMA GridCommittedOK ==
  ASSUME NEW t, NEW m \in Nat, NEW R, NEW L, Ground(t, m, R, L),
         NEW seen, NEW types, NEW rows, GridFits(t, m, R, seen, types, rows), CanCommitGrid(t, seen, rows),
         NEW u, u = GridCommitted(t, seen, types, rows, m)
  PROVE  WrittenOnto(t, m, R, L, u, m + Cardinality(NewRows(rows)))
<1> DEFINE N == NewRows(rows)
           id(r) == IdOfNew(rows, m, r)
<1>1. IsTree(t, R) /\ DOMAIN t \subseteq 1..m /\ \A i \in DOMAIN t : t[i].template \in DOMAIN L \cup {None}
  BY DEF Ground
<1>2. GridWritten(t, m, R, seen, rows, u)
  BY <1>1, GridWrittenOK
<1>3. /\ DOMAIN u = DOMAIN t \cup {id(r) : r \in N}
      /\ \A i \in DOMAIN t : SameButNamed(t[i], u[i]) /\ u[i].role \in R \cup {None, Foreign}
  BY <1>2 DEF GridWritten
<1>4. \A r \in N : LET x == u[id(r)]
                   IN /\ x \in Item /\ x.kind = rows[r].kind /\ x.parent = ParentOfNew(seen, rows, m, rows[r])
                      /\ x.role \in R \cup {None} /\ x.template = None
  BY <1>2 DEF GridWritten
<1>5. Cardinality(N) \in Nat /\ \A r \in N : id(r) \in m + 1 .. m + Cardinality(N)
  BY NewIds DEF GridFits
<1> HIDE DEF id, N
<1>6. \A r \in N : id(r) > m /\ id(r) # 0 /\ id(r) \in 1 .. m + Cardinality(N)
  BY <1>5
<1>7. \A kind, p : ParentThere(t, kind, p) => ParentThere(u, kind, p)
  BY <1>3 DEF ParentThere, SameButNamed
<1>8. ASSUME NEW r \in N  PROVE ParentThere(u, rows[r].kind, ParentOfNew(seen, rows, m, rows[r]))
  <2> DEFINE p == ParentOfNew(seen, rows, m, rows[r])
  <2>1. \/ rows[r].kind = 1 /\ p = 0
        \/ rows[r].kind # 1 /\ p = Found(seen, rows[r].path) /\ p \in DOMAIN seen /\ seen[p].kind = rows[r].kind - 1
        \/ rows[r].kind # 1 /\ \E q \in N : rows[q].kind = rows[r].kind - 1 /\ p = id(q)
    BY <1>8, ParentOfNewIs DEF N, id
  <2> HIDE DEF p
  <2>2. CASE rows[r].kind = 1 /\ p = 0
    BY <2>2, KindIs DEF ParentThere, p
  <2>3. CASE rows[r].kind # 1 /\ p = Found(seen, rows[r].path) /\ p \in DOMAIN seen /\ seen[p].kind = rows[r].kind - 1
    <3>1. p \notin {None, Project}
      <4>1. p \in 1..m
        BY <2>3 DEF GridFits
      <4> QED  BY <4>1, NameAssumption, KindIs
    <3>2. r \in DOMAIN rows /\ ~Existing(rows[r])
      BY <1>8 DEF N, NewRows
    <3>3. p \in DOMAIN t
      BY <2>3, <3>1, <3>2 DEF CanCommitGrid
    <3>4. t[p].kind = seen[p].kind
      BY <2>3, <3>3 DEF GridFits
    <3>5. p \in DOMAIN u /\ u[p].kind = rows[r].kind - 1
      BY <1>3, <2>3, <3>3, <3>4 DEF SameButNamed
    <3> QED  BY <2>3, <3>5, KindIs DEF ParentThere, p
  <2>4. CASE rows[r].kind # 1 /\ \E q \in N : rows[q].kind = rows[r].kind - 1 /\ p = id(q)
    BY <1>3, <1>4, <2>4, KindIs DEF ParentThere, p
  <2> QED  BY <2>1, <2>2, <2>3, <2>4
<1>9. ASSUME NEW i \in DOMAIN u
      PROVE  /\ u[i] \in Item /\ ParentThere(u, u[i].kind, u[i].parent) /\ u[i].role \in R \cup {None, Foreign}
             /\ u[i].template \in DOMAIN L \cup {None} /\ i \in 1 .. m + Cardinality(N) /\ (i \notin DOMAIN t => i > m)
  <2>1. CASE i \in DOMAIN t
    <3>1. SameButNamed(t[i], u[i]) /\ ParentThere(t, t[i].kind, t[i].parent)
      BY <1>1, <1>3, <2>1 DEF IsTree
    <3>2. i \in 1 .. m + Cardinality(N)
      <4>1. i \in 1..m
        BY <1>1, <2>1
      <4> QED  BY <1>5, <4>1
    <3> QED  BY <1>1, <1>3, <1>7, <2>1, <3>1, <3>2 DEF SameButNamed
  <2>2. CASE i \notin DOMAIN t
    <3>1. PICK r \in N : i = id(r)
      BY <1>3, <2>2
    <3> QED  BY <1>4, <1>6, <1>8, <3>1
  <2> QED  BY <2>1, <2>2
<1>10. IsTree(u, R)
  <2>1. Project \notin DOMAIN u
    BY <1>9, KindIs
  <2> QED  BY <1>9, <2>1 DEF IsTree
<1>11. m + Cardinality(N) \in Nat /\ m <= m + Cardinality(N)
  BY <1>5
<1>12. \A i \in DOMAIN t : u[i].kind = t[i].kind /\ u[i].parent = t[i].parent /\ u[i].order = t[i].order
  BY <1>3 DEF SameButNamed
<1> HIDE DEF Ground
<1>13. WrittenOnto(t, m, R, L, u, m + Cardinality(N))
  BY <1>3, <1>9, <1>10, <1>11, <1>12 DEF WrittenOnto
<1> QED  BY <1>13 DEF N
----------------------------------------------------------------------------
(***************************************************************************)
(* What holds between the steps of requests.  A request has what its       *)
(* handler needs, and of a grid the kinds of the items have not changed    *)
(* since it was validated.                                                 *)
(***************************************************************************)

Phase == {"unborn", "counted", "begun", "valid", "writing", "filling", "done", "stopped"}

CreateReady(j) ==
  j.op = "create" => j.kind \in Kind /\ j.parent \in Nat /\ j.name \in Name /\ j.count \in Nat

ReorderReady(j) ==
  j.op = "reorder" => \A i \in DOMAIN j.list : j.list[i].parent \in Nat /\ j.list[i].order \in Nat

GridReady(j, t, m, R) == j.op = "grid" => GridFits(t, m, R, j.base, j.types, j.rows)

ImportReady(j) ==
  j.op = "import" => /\ DOMAIN j = {"op", "file", "fresh"}
                     /\ j.file \in Seq(CsvRow) /\ Importable(StagedRows(j.file)) /\ j.fresh \subseteq Name

ReplaceReady(j) ==
  j.op = "replace" => /\ DOMAIN j = {"op", "template", "tasks"}
                      /\ j.template \in DOMAIN InitLibrary /\ j.tasks \in Seq(TemplateTask)

(* A story that is being written: a task of the template is known by its   *)
(* name, is yet to be written, or has been, and then once.                 *)
TaskToWrite(t, R) ==
  /\ t.name \in Name /\ t.hours \in Nat /\ t.order \in Nat /\ t.role \in R \cup {None}
  /\ InitRoles # {} => t.role # None

Knows(j, n) == \E i \in DOMAIN j.seen : Key(j.seen[i]) = Key(j.tasks[n].name)

StoryReady(j, t, m, R) ==
  /\ DOMAIN j = {"op", "story", "tasks", "seen", "own", "todo", "change"}
  /\ j.story \in 1..m /\ (j.story \in DOMAIN t => t[j.story].kind = Story) /\ j.tasks \in Seq(TemplateTask)
  /\ DOMAIN j.todo \subseteq DOMAIN j.tasks /\ DOMAIN j.change \subseteq DOMAIN j.tasks
  /\ \A n \in DOMAIN j.todo : TaskToWrite(j.todo[n], R) /\ j.todo[n].name = j.tasks[n].name /\ ~Knows(j, n)
  /\ \A n \in DOMAIN j.change : TaskToWrite(j.change[n], R)
  /\ DOMAIN j.own \subseteq 1..m
  /\ \A i \in DOMAIN j.own : j.own[i] \in DOMAIN j.tasks \ DOMAIN j.todo /\ ~Knows(j, j.own[i])
  /\ \A i, k \in DOMAIN j.own : j.own[i] = j.own[k] => i = k
  /\ \A n \in DOMAIN j.tasks : \/ InitRoles = {} \/ Knows(j, n) \/ n \in DOMAIN j.todo
                               \/ \E i \in DOMAIN j.own : j.own[i] = n

TemplateReady(j, t, m, R) == j.op = "template" => StoryReady(j, t, m, R)

Ready(j, t, m, R) ==
  /\ CreateReady(j) /\ ReorderReady(j) /\ GridReady(j, t, m, R)
  /\ ImportReady(j) /\ ReplaceReady(j) /\ TemplateReady(j, t, m, R)

BacklogInv ==
  /\ TypeOK
  /\ DOMAIN library = DOMAIN InitLibrary /\ DOMAIN shelf = DOMAIN InitLibrary
  /\ InitRoles \subseteq roles
  /\ DOMAIN job = Request /\ \A r \in Request : Ready(job[r], tree, made, roles)

LEMMA PhaseIs ==
  ASSUME TypeOK
  PROVE  /\ pc \in [Request -> Phase]
         /\ \A r \in Request, c \in Phase : [pc EXCEPT ![r] = c] \in [Request -> Phase]
BY DEF TypeOK, Phase

(* What TypeOK is made of, and where an import or a commit finds it.       *)
LEMMA GroundHere ==
  ASSUME BacklogInv
  PROVE  /\ Ground(tree, made, roles, library) /\ made \in Nat /\ made <= MaxId /\ MaxId \in Nat
         /\ IsTree(tree, roles) /\ roles \subseteq Name /\ DOMAIN tree \subseteq 1..made
         /\ \A i \in DOMAIN tree : tree[i].template \in DOMAIN library \cup {None}
BY BacklogAssumption DEF BacklogInv, TypeOK, Ground

(* What a request was told stays true while others write.                  *)
LEMMA StaysReady ==
  ASSUME NEW j, NEW t, NEW m \in Nat, NEW R, Ready(j, t, m, R),
         NEW u, NEW n \in Nat, NEW S, m <= n, R \subseteq S, S \subseteq Name,
         \A i \in DOMAIN u : (i \in DOMAIN t /\ u[i].kind = t[i].kind) \/ i > m
  PROVE  Ready(j, u, n, S)
<1>1. GridReady(j, u, n, S)
  <2>1. SUFFICES ASSUME j.op = "grid"  PROVE GridFits(u, n, S, j.base, j.types, j.rows)
    BY DEF GridReady
  <2>2. GridFits(t, m, R, j.base, j.types, j.rows)
    BY <2>1 DEF Ready, GridReady
  <2>3. \A i \in DOMAIN j.base \cap DOMAIN u : j.base[i].kind = u[i].kind
    <3>1. TAKE i \in DOMAIN j.base \cap DOMAIN u
    <3>2. i \in 1..m
      BY <2>2 DEF GridFits
    <3>3. i \in DOMAIN t /\ u[i].kind = t[i].kind
      BY <3>2
    <3> QED
      BY <3>3, <2>2 DEF GridFits
  <2> QED
    BY <2>2, <2>3 DEF GridFits
<1>2. TemplateReady(j, u, n, S)
  <2>1. SUFFICES ASSUME j.op = "template"  PROVE StoryReady(j, u, n, S)
    BY DEF TemplateReady
  <2>2. StoryReady(j, t, m, R)
    BY <2>1 DEF Ready, TemplateReady
  <2>3. \A x : TaskToWrite(x, R) => TaskToWrite(x, S)
    BY DEF TaskToWrite
  <2>4. DOMAIN j.own \subseteq 1..n /\ j.story \in 1..n
    BY <2>2 DEF StoryReady
  <2>5. j.story \in DOMAIN u => u[j.story].kind = Story
    BY <2>2 DEF StoryReady
  <2> QED
    BY <2>2, <2>3, <2>4, <2>5 DEF StoryReady
<1> QED
  BY <1>1, <1>2 DEF Ready

(* Items keep their kinds, new ones have new ids, and what else a step may *)
(* do to the backlog.                                                      *)
Grows ==
  /\ IsTree(tree', roles') /\ \A i \in DOMAIN tree' : tree'[i].template \in DOMAIN library \cup {None}
  /\ made' \in Nat /\ made <= made' /\ made' <= MaxId /\ DOMAIN tree' \subseteq 1..made'
  /\ \A i \in DOMAIN tree' : (i \in DOMAIN tree /\ tree'[i].kind = tree[i].kind) \/ i > made
  /\ roles \subseteq roles' /\ roles' \subseteq Name

ShelfKept ==
  /\ DOMAIN library' = DOMAIN library /\ DOMAIN shelf' = DOMAIN shelf
  /\ \A t \in DOMAIN library : library'[t] \in Seq(TemplateTask) /\ shelf'[t] \subseteq Seq(TemplateTask)

LEMMA StepKeeps ==
  ASSUME BacklogInv, NEW r \in Request, Grows, ShelfKept, pc' \in [Request -> Phase],
         DOMAIN job' = Request, \A q \in Request \ {r} : job'[q] = job[q],
         Ready(job'[r], tree', made', roles')
  PROVE  BacklogInv'
<1>1. TypeOK'
  BY GroundHere DEF Grows, ShelfKept, TypeOK, Phase
<1>2. \A q \in Request : Ready(job'[q], tree', made', roles')
  <2>1. SUFFICES ASSUME NEW q \in Request, q # r  PROVE Ready(job'[q], tree', made', roles')
    OBVIOUS
  <2>2. job'[q] = job[q] /\ Ready(job[q], tree, made, roles)
    BY <2>1 DEF BacklogInv
  <2>3. made \in Nat /\ made' \in Nat /\ made <= made' /\ roles \subseteq roles' /\ roles' \subseteq Name
    BY GroundHere DEF Grows
  <2>4. \A i \in DOMAIN tree' : (i \in DOMAIN tree /\ tree'[i].kind = tree[i].kind) \/ i > made
    BY DEF Grows
  <2> QED
    BY <2>2, <2>3, <2>4, StaysReady
<1> QED
  BY <1>1, <1>2 DEF BacklogInv, ShelfKept, Grows

LEMMA Unchanged ==
  ASSUME BacklogInv, UNCHANGED <<tree, made, roles>>
  PROVE  Grows
BY GroundHere DEF Grows

LEMMA ShelfUnchanged ==
  ASSUME BacklogInv, UNCHANGED <<library, shelf>>
  PROVE  ShelfKept
BY DEF ShelfKept, BacklogInv, TypeOK

LEMMA IdleReady == \A t, m, R : Ready(Idle, t, m, R)
BY DEF Ready, Idle, CreateReady, ReorderReady, GridReady, ImportReady, ReplaceReady, TemplateReady

(* A request that arrives, and one that ends.                              *)
LEMMA ArrivesIs ==
  ASSUME BacklogInv, NEW r \in Request, NEW input, NEW c \in Phase, Arrives(r, input, c)
  PROVE  /\ pc' \in [Request -> Phase] /\ DOMAIN job' = Request /\ job'[r] = input
         /\ \A q \in Request \ {r} : job'[q] = job[q]
BY PhaseIs DEF Arrives, BacklogInv

LEMMA EndsIs ==
  ASSUME BacklogInv, NEW r \in Request, NEW c \in Phase, Ends(r, c)
  PROVE  /\ pc' \in [Request -> Phase] /\ DOMAIN job' = Request /\ job'[r] = Idle
         /\ \A q \in Request \ {r} : job'[q] = job[q]
BY PhaseIs DEF Ends, BacklogInv

LEMMA EndsKeeps ==
  ASSUME BacklogInv, NEW r \in Request, NEW c \in Phase, Ends(r, c), Grows, ShelfKept
  PROVE  BacklogInv'
<1>1. Ready(job'[r], tree', made', roles')
  BY EndsIs, IdleReady
<1> QED
  BY <1>1, EndsIs, StepKeeps

(***************************************************************************)
(* The steps of the requests.                                              *)
(***************************************************************************)

LEMMA CreateSteps ==
  ASSUME BacklogInv, NEW r \in Request,
         \/ \E kind \in Kind, parent \in {Project} \cup DOMAIN tree, name \in NewName : CountSiblings(r, kind, parent, name)
         \/ Create(r)
  PROVE  BacklogInv'
<1>1. CASE \E kind \in Kind, parent \in {Project} \cup DOMAIN tree, name \in NewName : CountSiblings(r, kind, parent, name)
  <2>1. PICK kind \in Kind, parent \in {Project} \cup DOMAIN tree, name \in NewName : CountSiblings(r, kind, parent, name)
    BY <1>1
  <2> DEFINE input == [op |-> "create", kind |-> kind, parent |-> parent, name |-> name,
                       count |-> Cardinality(Children(tree, parent))]
  <2>2. Arrives(r, input, "counted") /\ UNCHANGED <<tree, made, roles, library, shelf>>
    BY <2>1 DEF CountSiblings
  <2>3. name \in Name /\ parent \in Nat /\ Cardinality(Children(tree, parent)) \in Nat
    BY GroundHere, ChildCount, BacklogAssumption, KindIs
  <2>4. Ready(input, tree', made', roles')
    BY <2>3 DEF Ready, CreateReady, ReorderReady, GridReady, ImportReady, ReplaceReady, TemplateReady
  <2>5. "counted" \in Phase
    BY DEF Phase
  <2> HIDE DEF input
  <2> QED
    BY <2>2, <2>4, <2>5, ArrivesIs, StepKeeps, Unchanged, ShelfUnchanged
<1>2. CASE Create(r)
  <2> DEFINE j == job[r]
             x == NewItem(j.kind, j.parent, j.name, j.count)
  <2>1. CreateReady(j) /\ j.op = "create" /\ ParentThere(tree, j.kind, j.parent)
    BY <1>2 DEF BacklogInv, Ready, Create, At
  <2>2. x \in Item /\ x.kind = j.kind /\ x.parent = j.parent /\ x.role = None /\ x.template = None
    BY <2>1, NewItemIs DEF CreateReady
  <2>3. tree' = Insert(tree, made + 1, x) /\ made' = made + 1 /\ made + 1 <= MaxId /\ roles' = roles
    BY <1>2 DEF Create, Room
  <2> HIDE DEF x
  <2>4. made + 1 \notin DOMAIN tree /\ made + 1 # 0
    BY GroundHere
  <2>5. IsTree(tree', roles)
    BY <2>1, <2>2, <2>3, <2>4, GroundHere, InsertKeeps
  <2>6. /\ DOMAIN tree' = DOMAIN tree \cup {made + 1} /\ tree'[made + 1] = x
        /\ \A i \in DOMAIN tree : tree'[i] = tree[i]
    <3> DEFINE n == made + 1
    <3> HIDE DEF n
    <3>1. /\ DOMAIN Insert(tree, n, x) = DOMAIN tree \cup {n} /\ Insert(tree, n, x)[n] = x
          /\ \A i \in DOMAIN tree : i # n => Insert(tree, n, x)[i] = tree[i]
      BY DEF Insert
    <3> QED
      BY <2>3, <2>4, <3>1 DEF n
  <2>7. Grows
    BY <2>2, <2>3, <2>5, <2>6, GroundHere DEF Grows
  <2>8. Ends(r, "done") /\ UNCHANGED <<library, shelf>> /\ "done" \in Phase
    BY <1>2 DEF Create, Phase
  <2> QED
    BY <2>7, <2>8, EndsKeeps, ShelfUnchanged
<1> QED
  BY <1>1, <1>2

(* An edit that leaves the kind, the parent and the template.              *)
LEMMA EditKeeps ==
  ASSUME BacklogInv, NEW r \in Request, NEW i \in DOMAIN tree, NEW x, Edit(r, i, x), x \in Item,
         x.kind = tree[i].kind, x.parent = tree[i].parent, x.template = tree[i].template,
         x.role \in {tree[i].role, Foreign}
  PROVE  BacklogInv'
<1>1. tree' = [tree EXCEPT ![i] = x] /\ made' = made /\ roles' = roles /\ UNCHANGED <<library, shelf>>
  BY DEF Edit
<1>2. DOMAIN tree' = DOMAIN tree /\ tree'[i] = x /\ \A k \in DOMAIN tree : k # i => tree'[k] = tree[k]
  BY <1>1
<1>3. \A k \in DOMAIN tree : tree[k] \in Item /\ tree[k].role \in roles \cup {None, Foreign}
  BY GroundHere DEF IsTree
<1>4. \A k \in DOMAIN tree : /\ tree'[k] \in Item /\ tree'[k].kind = tree[k].kind
                             /\ tree'[k].parent = tree[k].parent
                             /\ tree'[k].role \in roles \cup {None, Foreign}
                             /\ tree'[k].template \in DOMAIN library \cup {None}
  BY <1>2, <1>3, GroundHere
<1>5. IsTree(tree', roles)
  BY <1>2, <1>4, UpdateKeeps, GroundHere
<1>6. Grows
  BY <1>1, <1>2, <1>4, <1>5, GroundHere DEF Grows
<1>7. pc' \in [Request -> Phase] /\ DOMAIN job' = Request /\ job'[r] = Idle /\ \A q \in Request \ {r} : job'[q] = job[q]
  BY ArrivesIs DEF Edit, Phase
<1> QED
  BY <1>1, <1>6, <1>7, IdleReady, StepKeeps, ShelfUnchanged

LEMMA FieldsEdited ==
  ASSUME NEW x \in Item
  PROVE  /\ \A name \in Name : LET y == [x EXCEPT !.name = name]
                               IN y \in Item /\ y.kind = x.kind /\ y.parent = x.parent /\ y.template = x.template /\ y.role = x.role
         /\ LET y == [x EXCEPT !.active = ~@]
            IN y \in Item /\ y.kind = x.kind /\ y.parent = x.parent /\ y.template = x.template /\ y.role = x.role
         /\ LET y == [x EXCEPT !.role = Foreign]
            IN y \in Item /\ y.kind = x.kind /\ y.parent = x.parent /\ y.template = x.template /\ y.role = Foreign
         /\ \A order \in Nat : LET y == [x EXCEPT !.order = order]
                               IN y \in Item /\ y.kind = x.kind /\ y.parent = x.parent /\ y.template = x.template /\ y.role = x.role
BY DEF Item

LEMMA EditSteps ==
  ASSUME BacklogInv, NEW r \in Request, NEW i \in DOMAIN tree,
         \/ \E name \in NewName : Rename(r, i, name)
         \/ \E order \in NewOrder : Place(r, i, order)
         \/ \E e \in NewEstimate : Reestimate(r, i, e)
         \/ Switch(r, i) \/ Reassign(r, i)
  PROVE  BacklogInv'
<1>0. tree[i] \in Item
  BY GroundHere DEF IsTree
<1>1. CASE \E name \in NewName : Rename(r, i, name)
  <2>1. PICK name \in NewName : Edit(r, i, [tree[i] EXCEPT !.name = name])
    BY <1>1 DEF Rename
  <2>2. name \in Name
    BY BacklogAssumption
  <2> DEFINE y == [tree[i] EXCEPT !.name = name]
  <2>3. y \in Item /\ y.kind = tree[i].kind /\ y.parent = tree[i].parent /\ y.template = tree[i].template /\ y.role = tree[i].role
    BY <1>0, <2>2, FieldsEdited
  <2>4. Edit(r, i, y)
    BY <2>1
  <2> HIDE DEF y
  <2> QED
    BY <2>3, <2>4, EditKeeps
<1>2. CASE Switch(r, i)
  <2> DEFINE y == [tree[i] EXCEPT !.active = ~@]
  <2>3. y \in Item /\ y.kind = tree[i].kind /\ y.parent = tree[i].parent /\ y.template = tree[i].template /\ y.role = tree[i].role
    BY <1>0, FieldsEdited
  <2>4. Edit(r, i, y)
    BY <1>2 DEF Switch
  <2> HIDE DEF y
  <2> QED
    BY <2>3, <2>4, EditKeeps
<1>3. CASE Reassign(r, i)
  <2> DEFINE y == [tree[i] EXCEPT !.role = Foreign]
  <2>3. y \in Item /\ y.kind = tree[i].kind /\ y.parent = tree[i].parent /\ y.template = tree[i].template /\ y.role = Foreign
    BY <1>0, FieldsEdited
  <2>4. Edit(r, i, y)
    BY <1>3 DEF Reassign
  <2> HIDE DEF y
  <2> QED
    BY <2>3, <2>4, EditKeeps
<1>4. CASE \E order \in NewOrder : Place(r, i, order)
  <2>1. PICK order \in NewOrder : Edit(r, i, [tree[i] EXCEPT !.order = order])
    BY <1>4 DEF Place
  <2>2. order \in Nat
    BY BacklogAssumption
  <2> DEFINE y == [tree[i] EXCEPT !.order = order]
  <2>3. y \in Item /\ y.kind = tree[i].kind /\ y.parent = tree[i].parent /\ y.template = tree[i].template /\ y.role = tree[i].role
    BY <1>0, <2>2, FieldsEdited
  <2>4. Edit(r, i, y)
    BY <2>1
  <2> HIDE DEF y
  <2> QED
    BY <2>3, <2>4, EditKeeps
<1>5. CASE \E e \in NewEstimate : Reestimate(r, i, e)
  <2>1. PICK e \in NewEstimate : Edit(r, i, [tree[i] EXCEPT !.hours = e.hours, !.days = e.days])
    BY <1>5 DEF Reestimate
  <2>2. e.hours \in Nat /\ e.days \in Nat \cup {None}
    BY BacklogAssumption
  <2> DEFINE hours == e.hours
             days == e.days
             y == [tree[i] EXCEPT !.hours = hours, !.days = days]
  <2>5. hours \in Nat /\ days \in Nat \cup {None}
    BY <2>2
  <2>4. Edit(r, i, y)
    BY <2>1
  <2> HIDE DEF hours, days
  <2>3. y \in Item /\ y.kind = tree[i].kind /\ y.parent = tree[i].parent /\ y.template = tree[i].template /\ y.role = tree[i].role
    BY <1>0, <2>5 DEF Item
  <2> HIDE DEF y
  <2> QED
    BY <2>3, <2>4, EditKeeps
<1> QED
  BY <1>1, <1>2, <1>3, <1>4, <1>5

LEMMA DeleteStep ==
  ASSUME BacklogInv, NEW r \in Request, NEW i \in DOMAIN tree, Delete(r, i)
  PROVE  BacklogInv'
<1>1. tree' = WithoutItem(tree, i) /\ UNCHANGED <<made, roles, library, shelf>> /\ Arrives(r, Idle, "done")
  BY DEF Delete
<1>2. /\ IsTree(tree', roles) /\ DOMAIN tree' \subseteq DOMAIN tree
      /\ \A k \in DOMAIN tree' : tree'[k] = tree[k]
  BY <1>1, DeleteKeeps, GroundHere
<1>3. Grows
  BY <1>1, <1>2, GroundHere DEF Grows
<1>4. pc' \in [Request -> Phase] /\ DOMAIN job' = Request /\ job'[r] = Idle /\ \A q \in Request \ {r} : job'[q] = job[q]
  BY <1>1, ArrivesIs DEF Phase
<1> QED
  BY <1>1, <1>3, <1>4, IdleReady, StepKeeps, ShelfUnchanged

LEMMA ReorderSteps ==
  ASSUME BacklogInv, NEW r \in Request,
         \/ \E i \in DOMAIN tree, parent \in {Project} \cup DOMAIN tree, place \in {"first", "last"} : Drag(r, i, parent, place)
         \/ Reorder(r)
  PROVE  BacklogInv'
<1>1. CASE \E i \in DOMAIN tree, parent \in {Project} \cup DOMAIN tree, place \in {"first", "last"} : Drag(r, i, parent, place)
  <2>1. PICK i \in DOMAIN tree, parent \in {Project} \cup DOMAIN tree, place \in {"first", "last"} : Drag(r, i, parent, place)
    BY <1>1
  <2> DEFINE list == Dragged(tree, i, parent, place)
             input == [op |-> "reorder", list |-> list]
  <2>2. Arrives(r, input, "begun") /\ UNCHANGED <<tree, made, roles, library, shelf>>
    BY <2>1 DEF Drag
  <2>3. parent \in Nat
    BY GroundHere, KindIs
  <2>4. \A k \in DOMAIN list : list[k].parent \in Nat /\ list[k].order \in Nat
    BY <2>3, GroundHere, DraggedIs
  <2> HIDE DEF list
  <2>5. Ready(input, tree', made', roles')
    BY <2>4 DEF Ready, CreateReady, ReorderReady, GridReady, ImportReady, ReplaceReady, TemplateReady
  <2>6. "begun" \in Phase
    BY DEF Phase
  <2> HIDE DEF input
  <2> QED
    BY <2>2, <2>5, <2>6, ArrivesIs, StepKeeps, Unchanged, ShelfUnchanged
<1>2. CASE Reorder(r)
  <2> DEFINE list == job[r].list
  <2>1. ReorderReady(job[r]) /\ job[r].op = "reorder" /\ CanReorder(tree, list) /\ tree' = Reordered(tree, list)
    BY <1>2 DEF BacklogInv, Ready, Reorder, At
  <2>2. \A k \in DOMAIN list : list[k].parent \in Nat /\ list[k].order \in Nat
    BY <2>1 DEF ReorderReady
  <2>3. /\ IsTree(tree', roles) /\ DOMAIN tree' = DOMAIN tree
        /\ \A k \in DOMAIN tree : tree'[k].kind = tree[k].kind /\ tree'[k].template = tree[k].template
    BY <2>1, <2>2, GroundHere, ReorderKeeps
  <2>4. made' = made /\ roles' = roles /\ UNCHANGED <<library, shelf>> /\ Ends(r, "done") /\ "done" \in Phase
    BY <1>2 DEF Reorder, Phase
  <2>5. Grows
    BY <2>3, <2>4, GroundHere DEF Grows
  <2> QED
    BY <2>4, <2>5, EndsKeeps, ShelfUnchanged
<1> QED
  BY <1>1, <1>2

LEMMA DuplicateSteps ==
  ASSUME BacklogInv, NEW r \in Request, (\E i \in DOMAIN tree : AskDuplicate(r, i)) \/ Duplicate(r)
  PROVE  BacklogInv'
<1>1. CASE \E i \in DOMAIN tree : AskDuplicate(r, i)
  <2>1. PICK i \in DOMAIN tree : AskDuplicate(r, i)
    BY <1>1
  <2> DEFINE input == [op |-> "duplicate", item |-> i]
  <2>2. Arrives(r, input, "begun") /\ UNCHANGED <<tree, made, roles, library, shelf>>
    BY <2>1 DEF AskDuplicate
  <2>3. Ready(input, tree', made', roles')
    BY DEF Ready, CreateReady, ReorderReady, GridReady, ImportReady, ReplaceReady, TemplateReady
  <2>4. "begun" \in Phase
    BY DEF Phase
  <2> HIDE DEF input
  <2> QED
    BY <2>2, <2>3, <2>4, ArrivesIs, StepKeeps, Unchanged, ShelfUnchanged
<1>2. CASE Duplicate(r)
  <2> DEFINE i == job[r].item
             n == Cardinality(Below(tree, i))
             id == CopyIds(tree, i, made)
  <2>1. i \in DOMAIN tree /\ tree' = Duplicated(tree, i, made) /\ made' = made + n /\ made + n <= MaxId
        /\ roles' = roles /\ UNCHANGED <<library, shelf>> /\ Ends(r, "done") /\ "done" \in Phase
    BY <1>2 DEF Duplicate, Room, Phase
  <2>2. IsTree(tree, roles) /\ made \in Nat /\ DOMAIN tree \subseteq 1..made
    BY GroundHere
  <2> HIDE DEF i, n, id
  <2>3. IsTree(tree', roles) /\ DOMAIN tree' \subseteq 1..made + n
    BY <2>1, <2>2, DuplicateKeeps DEF n
  <2>4. /\ n \in Nat /\ IsFiniteSet(Below(tree, i))
        /\ \A k \in Below(tree, i) : id[k] \in made + 1 .. made + n
    BY <2>1, <2>2, CopyIdsApart DEF n, id
  <2>5. HasCopies(tree, i, id, tree')
    BY <2>1, <2>2, DuplicatedIs DEF id
  <2>6. FieldsCopied(tree, i, id, tree')
    BY <2>1, <2>2, DuplicateFields DEF id
  <2>7. \A k \in DOMAIN tree' : k \in DOMAIN tree \/ \E l \in Below(tree, i) : k = id[l]
    BY <2>5 DEF HasCopies
  <2>8. \A k \in DOMAIN tree : tree'[k].kind = tree[k].kind /\ tree'[k].template = tree[k].template
    BY <2>6 DEF FieldsCopied
  <2>9. \A l \in Below(tree, i) : tree'[id[l]].template = tree[l].template /\ l \in DOMAIN tree
    BY <2>1, <2>2, <2>6, BelowClosed DEF FieldsCopied
  <2>10. \A k \in DOMAIN tree' : (k \in DOMAIN tree /\ tree'[k].kind = tree[k].kind) \/ k > made
    BY <2>2, <2>4, <2>7, <2>8
  <2>11. \A k \in DOMAIN tree' : tree'[k].template \in DOMAIN library \cup {None}
    BY <2>7, <2>8, <2>9, GroundHere
  <2>12. Grows
    BY <2>1, <2>2, <2>3, <2>4, <2>10, <2>11, GroundHere DEF Grows
  <2> QED
    BY <2>1, <2>12, EndsKeeps, ShelfUnchanged
<1> QED
  BY <1>1, <1>2

LEMMA GridSteps ==
  ASSUME BacklogInv, NEW r \in Request, (\E rows \in Grids : ValidateGrid(r, rows)) \/ CommitGrid(r)
  PROVE  BacklogInv'
<1>1. CASE \E rows \in Grids : ValidateGrid(r, rows)
  <2>1. PICK rows \in Grids : ValidateGrid(r, rows)
    BY <1>1
  <2> DEFINE input == [op |-> "grid", rows |-> rows, base |-> tree, types |-> roles]
  <2>2. Arrives(r, input, "valid") /\ UNCHANGED <<tree, made, roles, library, shelf>> /\ GridAccepted(tree, roles, rows)
    BY <2>1 DEF ValidateGrid
  <2>3. rows \in Seq(GridRow)
    BY BacklogAssumption
  <2>4. GridFits(tree, made, roles, tree, roles, rows)
    BY <2>2, <2>3, GroundHere DEF GridFits
  <2>5. GridFits(tree, made, roles, input.base, input.types, input.rows)
    BY <2>4
  <2>6. GridReady(input, tree', made', roles')
    BY <2>2, <2>5 DEF GridReady
  <2>7. Ready(input, tree', made', roles')
    BY <2>6 DEF Ready, CreateReady, ReorderReady, ImportReady, ReplaceReady, TemplateReady
  <2>8. "valid" \in Phase
    BY DEF Phase
  <2> HIDE DEF input
  <2> QED
    BY <2>2, <2>7, <2>8, ArrivesIs, StepKeeps, Unchanged, ShelfUnchanged
<1>2. CASE CommitGrid(r)
  <2> DEFINE j == job[r]
             n == Cardinality(NewRows(j.rows))
  <2>1. j.op = "grid" /\ GridReady(j, tree, made, roles)
    BY <1>2 DEF BacklogInv, Ready, CommitGrid, At
  <2>2. GridFits(tree, made, roles, j.base, j.types, j.rows)
    BY <2>1 DEF GridReady
  <2>3. /\ CanCommitGrid(tree, j.base, j.rows) /\ tree' = GridCommitted(tree, j.base, j.types, j.rows, made)
        /\ made' = made + n /\ made + n <= MaxId /\ roles' = roles /\ UNCHANGED <<library, shelf>>
        /\ Ends(r, "done") /\ "done" \in Phase
    BY <1>2 DEF CommitGrid, Room, Phase
  <2> HIDE DEF j
  <2>4. WrittenOnto(tree, made, roles, library, tree', made + n)
    BY <2>2, <2>3, GroundHere, GridCommittedOK
  <2>5. Grows
    BY <2>3, <2>4, GroundHere DEF Grows, WrittenOnto
  <2> QED
    BY <2>3, <2>5, EndsKeeps, ShelfUnchanged
<1> QED
  BY <1>1, <1>2

LEMMA ImportSteps ==
  ASSUME BacklogInv, NEW r \in Request, (\E file \in Files : Import(r, file)) \/ CreateRole(r) \/ CommitImport(r)
  PROVE  BacklogInv'
<1>1. CASE \E file \in Files : Import(r, file)
  <2>1. PICK file \in Files : Import(r, file)
    BY <1>1
  <2> DEFINE rows == StagedRows(file)
             input == [op |-> "import", file |-> file, fresh |-> RolesOfRows(rows, roles)]
  <2>2. Arrives(r, input, "begun") /\ UNCHANGED <<tree, made, roles, library, shelf>> /\ Importable(rows)
    BY <2>1 DEF Import
  <2>3. file \in Seq(CsvRow)
    BY BacklogAssumption
  <2>4. rows \in Seq(StagedRow) /\ Importable(StagedRows(file))
    BY <2>2, <2>3, StagedSound
  <2> HIDE DEF rows
  <2>5. \A k \in DOMAIN rows : rows[k].role \in Name \cup {None}
    <3>1. TAKE k \in DOMAIN rows
    <3>2. rows[k] \in StagedRow
      BY <2>4
    <3> QED
      BY <3>2 DEF StagedRow
  <2>6. RolesOfRows(rows, roles) \subseteq Name
    BY <2>5 DEF RolesOfRows
  <2>7. DOMAIN input = {"op", "file", "fresh"} /\ input.file = file /\ input.fresh \subseteq Name /\ input.op = "import"
    BY <2>6
  <2>8. ImportReady(input)
    BY <2>3, <2>4, <2>7 DEF ImportReady
  <2>9. Ready(input, tree', made', roles')
    BY <2>7, <2>8 DEF Ready, CreateReady, ReorderReady, GridReady, ReplaceReady, TemplateReady
  <2>10. "begun" \in Phase
    BY DEF Phase
  <2> HIDE DEF input
  <2> QED
    BY <2>2, <2>9, <2>10, ArrivesIs, StepKeeps, Unchanged, ShelfUnchanged
<1>2. CASE CreateRole(r)
  <2>1. job[r].op = "import" /\ ImportReady(job[r]) /\ DOMAIN job = Request
    BY <1>2 DEF BacklogInv, Ready, CreateRole, At
  <2>2. PICK n \in job[r].fresh : roles' = roles \cup {n} /\ job' = [job EXCEPT ![r].fresh = @ \ {n}]
    BY <1>2 DEF CreateRole
  <2>3. UNCHANGED <<tree, made, library, shelf, pc>>
    BY <1>2 DEF CreateRole
  <2>4. n \in Name
    BY <2>1, <2>2 DEF ImportReady
  <2>5. job' = [job EXCEPT ![r] = [job[r] EXCEPT !.fresh = job[r].fresh \ {n}]]
    BY <2>2
  <2>6. /\ DOMAIN job' = Request /\ \A q \in Request \ {r} : job'[q] = job[q]
        /\ job'[r] = [job[r] EXCEPT !.fresh = job[r].fresh \ {n}]
    BY <2>1, <2>5
  <2>7. /\ DOMAIN job'[r] = {"op", "file", "fresh"} /\ job'[r].op = "import" /\ job'[r].file = job[r].file
        /\ job'[r].fresh = job[r].fresh \ {n}
    BY <2>1, <2>6 DEF ImportReady
  <2>8. ImportReady(job'[r])
    BY <2>1, <2>7 DEF ImportReady
  <2>9. Ready(job'[r], tree', made', roles')
    BY <2>7, <2>8 DEF Ready, CreateReady, ReorderReady, GridReady, ReplaceReady, TemplateReady
  <2>10. \A i \in DOMAIN tree : tree[i] \in Item /\ tree[i].role \in roles \cup {None, Foreign}
    BY GroundHere DEF IsTree
  <2>11. IsTree(tree, roles \cup {n})
    BY <2>10, GroundHere, UpdateKeeps
  <2>12. Grows
    BY <2>2, <2>3, <2>4, <2>11, GroundHere DEF Grows
  <2>13. pc' \in [Request -> Phase]
    BY <2>3, PhaseIs DEF BacklogInv
  <2> QED
    BY <2>3, <2>6, <2>9, <2>12, <2>13, StepKeeps, ShelfUnchanged
<1>3. CASE CommitImport(r)
  <2> DEFINE j == job[r]
             rows == StagedRows(j.file)
             u == Imported(tree, made, rows, library, roles)
  <2>1. ImportReady(j) /\ j.op = "import"
    BY <1>3 DEF BacklogInv, Ready, CommitImport, At
  <2>2. u.made <= MaxId /\ tree' = u.tree /\ made' = u.made
    BY <1>3 DEF CommitImport
  <2>3. Ends(r, "done") /\ UNCHANGED <<roles, library, shelf>> /\ "done" \in Phase
    BY <1>3 DEF CommitImport, Phase
  <2> HIDE DEF j
  <2>4. rows \in Seq(StagedRow) /\ \A k \in DOMAIN rows : Sound(rows[k])
    BY <2>1, StagedSound DEF ImportReady
  <2> HIDE DEF rows
  <2>5. WrittenOnto(tree, made, roles, library, u.tree, u.made)
    BY <2>4, GroundHere, ImportedOK
  <2> HIDE DEF u
  <2>6. Grows
    BY <2>2, <2>3, <2>5, GroundHere DEF Grows, WrittenOnto
  <2> QED
    BY <2>3, <2>6, EndsKeeps, ShelfUnchanged
<1> QED
  BY <1>1, <1>2, <1>3

LEMMA RoleForTaskIs ==
  ASSUME BacklogInv, NEW t
  PROVE  /\ RoleForTask(t) \in roles \cup {None}
         /\ InitRoles # {} => RoleForTask(t) # None
<1>1. roles \subseteq Name /\ None \notin Name /\ InitRoles \subseteq roles
  BY GroundHere, NameAssumption DEF BacklogInv
<1>2. RoleCalled(roles, t.role) \in roles \cup {None}
  BY RoleCalledIs
<1>3. roles # {} => (CHOOSE any \in roles : TRUE) \in roles
  OBVIOUS
<1> QED
  BY <1>1, <1>2, <1>3 DEF RoleForTask

LEMMA TaskIs ==
  ASSUME NEW tasks \in Seq(TemplateTask), NEW n \in DOMAIN tasks
  PROVE  n \in Nat /\ tasks[n] \in TemplateTask /\ tasks[n].name \in Name /\ tasks[n].hours \in Nat
<1>1. tasks[n] \in TemplateTask /\ n \in Nat
  OBVIOUS
<1> QED
  BY <1>1 DEF TemplateTask

LEMMA ToWriteIs ==
  ASSUME BacklogInv, NEW tasks \in Seq(TemplateTask), NEW S, S \subseteq DOMAIN tasks, NEW from \in Nat,
         NEW w, w = ToWrite(tasks, S, from)
  PROVE  /\ DOMAIN w = S
         /\ \A n \in S : TaskToWrite(w[n], roles) /\ w[n].name = tasks[n].name
<1>1. DOMAIN w = S
  BY DEF ToWrite
<1>2. ASSUME NEW n \in S  PROVE TaskToWrite(w[n], roles) /\ w[n].name = tasks[n].name
  <2> DEFINE before == {m \in S : m < n}
  <2>1. n \in DOMAIN tasks /\ DOMAIN tasks = 1..Len(tasks) /\ Len(tasks) \in Nat
    OBVIOUS
  <2>2. before \subseteq 1..Len(tasks)
    BY <2>1
  <2>3. Cardinality(before) \in Nat
    <3>1. IsFiniteSet(1..Len(tasks))
      BY <2>1, FS_Interval
    <3> QED
      BY <2>2, <3>1, FS_Subset, FS_CardinalityType
  <2>4. w[n] = [name |-> tasks[n].name, role |-> RoleForTask(tasks[n]), hours |-> tasks[n].hours,
                order |-> from + Cardinality(before)]
    BY DEF ToWrite
  <2>5. tasks[n].name \in Name /\ tasks[n].hours \in Nat
    BY <2>1, TaskIs
  <2> HIDE DEF before
  <2>6. from + Cardinality(before) \in Nat
    BY <2>3
  <2>7. /\ w[n].name = tasks[n].name /\ w[n].role = RoleForTask(tasks[n]) /\ w[n].hours = tasks[n].hours
        /\ w[n].order = from + Cardinality(before)
    BY <2>4
  <2>8. RoleForTask(tasks[n]) \in roles \cup {None} /\ (InitRoles # {} => RoleForTask(tasks[n]) # None)
    BY RoleForTaskIs
  <2> QED
    BY <2>5, <2>6, <2>7, <2>8 DEF TaskToWrite
<1> QED
  BY <1>1, <1>2

LEMMA RestIs ==
  ASSUME NEW todo, DOMAIN todo \subseteq Nat, DOMAIN todo # {}, NEW n, n = Min(DOMAIN todo)
  PROVE  /\ n \in DOMAIN todo
         /\ DOMAIN Rest(todo) = DOMAIN todo \ {n}
         /\ \A k \in DOMAIN Rest(todo) : Rest(todo)[k] = todo[k]
<1>1. n \in DOMAIN todo
  BY MinIs
<1> QED
  BY <1>1 DEF Rest, Restrict

(* What an apply or a refresh begins with.                                 *)
KnownBy(tasks, seen, known) ==
  \A n \in DOMAIN tasks : n \in known <=> \E i \in DOMAIN seen : Key(seen[i]) = Key(tasks[n].name)

LEMMA WritingReady ==
  ASSUME BacklogInv, NEW story \in Nat, NEW tasks \in Seq(TemplateTask), NEW seen, NEW todo, NEW change,
         NEW j, j = Writing(story, tasks, seen, todo, change),
         NEW from \in Nat, NEW known,
         KnownBy(tasks, seen, known), known \subseteq DOMAIN tasks,
         todo = ToWrite(tasks, DOMAIN tasks \ known, from),
         change = ToWrite(tasks, known, 0)
  PROVE  \A t, m : story \in 1..m /\ (story \in DOMAIN t => t[story].kind = Story) => Ready(j, t, m, roles)
<1> SUFFICES ASSUME NEW t, NEW m, story \in 1..m, story \in DOMAIN t => t[story].kind = Story
             PROVE  Ready(j, t, m, roles)
  OBVIOUS
<1>1. /\ DOMAIN j = {"op", "story", "tasks", "seen", "own", "todo", "change"}
      /\ j.op = "template" /\ j.story = story /\ j.tasks = tasks /\ j.seen = seen /\ j.own = <<>>
      /\ j.todo = todo /\ j.change = change
  BY DEF Writing
<1>2. DOMAIN j.own = {}
  BY <1>1
<1>3. /\ DOMAIN todo = DOMAIN tasks \ known
      /\ \A n \in DOMAIN todo : TaskToWrite(todo[n], roles) /\ todo[n].name = tasks[n].name
  <2> DEFINE S == DOMAIN tasks \ known
  <2>1. /\ BacklogInv /\ tasks \in Seq(TemplateTask) /\ S \subseteq DOMAIN tasks /\ from \in Nat
        /\ todo = ToWrite(tasks, S, from)
    OBVIOUS
  <2> HIDE DEF S
  <2>2. DOMAIN todo = S /\ \A n \in S : TaskToWrite(todo[n], roles) /\ todo[n].name = tasks[n].name
    BY ONLY <2>1, ToWriteIs
  <2> QED
    BY <2>2 DEF S
<1>4. /\ DOMAIN change \subseteq DOMAIN tasks
      /\ \A n \in DOMAIN change : TaskToWrite(change[n], roles)
  BY ToWriteIs
<1>5. \A n \in DOMAIN tasks : Knows(j, n) <=> n \in known
  BY <1>1 DEF Knows, KnownBy
<1>6. StoryReady(j, t, m, roles)
  BY <1>1, <1>2, <1>3, <1>4, <1>5, ZenonT(60) DEF StoryReady
<1> QED
  BY <1>1, <1>6 DEF Ready, CreateReady, ReorderReady, GridReady, ImportReady, ReplaceReady, TemplateReady

(* A new item that is added grows the backlog.                             *)
LEMMA AddedGrows ==
  ASSUME BacklogInv, NEW x \in Item, ParentThere(tree, x.kind, x.parent), x.role \in roles \cup {None},
         x.template \in DOMAIN library \cup {None},
         tree' = Insert(tree, made + 1, x), made' = made + 1, made + 1 <= MaxId, roles' = roles
  PROVE  Grows
<1> DEFINE n == made + 1
<1>1. n \notin DOMAIN tree /\ n # 0 /\ n \in Nat /\ n > made
  BY GroundHere
<1> HIDE DEF n
<1>2. tree' = Insert(tree, n, x)
  BY DEF n
<1>3. IsTree(tree', roles)
  BY <1>1, <1>2, GroundHere, InsertKeeps
<1>4. DOMAIN tree' = DOMAIN tree \cup {n} /\ tree'[n] = x /\ \A i \in DOMAIN tree : i # n => tree'[i] = tree[i]
  BY <1>2 DEF Insert
<1>5. \A i \in DOMAIN tree' : (i \in DOMAIN tree /\ tree'[i] = tree[i]) \/ (i = n /\ tree'[i] = x)
  BY <1>1, <1>4
<1>6. DOMAIN tree' \subseteq 1..made + 1
  BY <1>1, <1>4, GroundHere DEF n
<1>7. made' \in Nat /\ made <= made' /\ made' <= MaxId
  BY GroundHere
<1>8. \A i \in DOMAIN tree' : tree'[i].template \in DOMAIN library \cup {None}
  BY <1>5, GroundHere
<1>9. \A i \in DOMAIN tree' : (i \in DOMAIN tree /\ tree'[i].kind = tree[i].kind) \/ i > made
  BY <1>1, <1>5
<1> QED
  BY <1>3, <1>6, <1>7, <1>8, <1>9, GroundHere DEF Grows

LEMMA ApplyStep ==
  ASSUME BacklogInv, NEW r \in Request,
         \E i \in DOMAIN tree, t \in DOMAIN library, name \in NewName : Apply(r, i, t, name)
  PROVE  BacklogInv'
<1>1. PICK i \in DOMAIN tree, t \in DOMAIN library, name \in NewName : Apply(r, i, t, name)
  OBVIOUS
<1> DEFINE tasks == library[t]
           todo == ToWrite(tasks, DOMAIN tasks, 0)
           input == Writing(made + 1, tasks, <<>>, todo, <<>>)
           n == Cardinality(Children(tree, i))
           x == [NewItem(Story, i, name, n) EXCEPT !.template = t]
<1>2. /\ tree[i].kind = Feature /\ made + 1 <= MaxId /\ Arrives(r, input, "writing")
      /\ tree' = Insert(tree, made + 1, x) /\ made' = made + 1 /\ roles' = roles /\ UNCHANGED <<library, shelf>>
  BY <1>1 DEF Apply, Room
<1>3. tasks \in Seq(TemplateTask) /\ made + 1 \in Nat /\ t \in Name /\ name \in Name /\ i \in Nat /\ n \in Nat
  BY GroundHere, BacklogAssumption, ChildCount DEF Ground
<1>4. x \in Item /\ x.kind = 3 /\ x.parent = i /\ x.role = None /\ x.template = t
  BY <1>3, NameAssumption, KindIs DEF NewItem, Item
<1>5. ParentThere(tree, x.kind, x.parent)
  BY <1>2, <1>4, KindIs DEF ParentThere
<1>6. Ready(input, tree', made', roles')
  <2> DEFINE none == <<>>
             known == {}
             from == 0
  <2>1. DOMAIN tasks = DOMAIN tasks \ known /\ none = ToWrite(tasks, known, 0) /\ from \in Nat
    BY DEF ToWrite
  <2>2. input = Writing(made + 1, tasks, none, todo, none) /\ todo = ToWrite(tasks, DOMAIN tasks \ known, from)
    BY <2>1
  <2>3. KnownBy(tasks, none, known) /\ known \subseteq DOMAIN tasks
    BY DEF KnownBy
  <2> DEFINE story == made + 1
  <2>4. story \in Nat /\ input = Writing(story, tasks, none, todo, none)
    BY <1>3, <2>2
  <2>5. story \in 1..made' /\ story \in DOMAIN tree' /\ tree'[story].kind = Story
    <3> HIDE DEF x
    <3>1. tree' = Insert(tree, story, x)
      BY <1>2
    <3>2. story \in DOMAIN tree' /\ tree'[story] = x
      BY <3>1 DEF Insert
    <3> QED
      BY <1>2, <1>3, <1>4, <3>2, GroundHere, KindIs
  <2> HIDE DEF tasks, todo, none, known, from, input, story
  <2>6. /\ BacklogInv /\ story \in Nat /\ tasks \in Seq(TemplateTask)
        /\ input = Writing(story, tasks, none, todo, none) /\ from \in Nat
        /\ KnownBy(tasks, none, known) /\ known \subseteq DOMAIN tasks
        /\ todo = ToWrite(tasks, DOMAIN tasks \ known, from)
        /\ none = ToWrite(tasks, known, 0)
    BY <1>3, <2>1, <2>2, <2>3, <2>4
  <2>7. \A u, m : story \in 1..m /\ (story \in DOMAIN u => u[story].kind = Story) => Ready(input, u, m, roles)
    BY ONLY <2>6, WritingReady
  <2> QED
    BY <1>2, <2>5, <2>7
<1> HIDE DEF x, input
<1>7. Grows
  BY <1>2, <1>4, <1>5, AddedGrows
<1> QED
  BY <1>2, <1>6, <1>7, ArrivesIs, StepKeeps, ShelfUnchanged DEF Phase

LEMMA RefreshStep ==
  ASSUME BacklogInv, NEW r \in Request, \E i \in DOMAIN tree : Refresh(r, i)
  PROVE  BacklogInv'
<1>1. PICK story \in DOMAIN tree : Refresh(r, story)
  OBVIOUS
<1> DEFINE tasks == library[tree[story].template]
           seen == [i \in Children(tree, story) |-> tree[i].name]
           known == {n \in DOMAIN tasks : NamedLike(tasks[n], {Key(seen[i]) : i \in DOMAIN seen})}
           from == Cardinality(DOMAIN seen)
           todo == ToWrite(tasks, DOMAIN tasks \ known, from)
           change == ToWrite(tasks, known, 0)
           input == Writing(story, tasks, seen, todo, change)
<1>2. tree[story].template # None /\ tree[story].kind = Story /\ Arrives(r, input, "writing") /\ UNCHANGED <<tree, made, roles, library, shelf>>
  BY <1>1 DEF Refresh
<1>3. tasks \in Seq(TemplateTask) /\ story \in Nat /\ from \in Nat
  BY <1>2, GroundHere, ChildCount DEF Ground
<1>4. KnownBy(tasks, seen, known)
  BY DEF NamedLike, KnownBy
<1>5. known \subseteq DOMAIN tasks
  OBVIOUS
<1>6. todo = ToWrite(tasks, DOMAIN tasks \ known, from) /\ change = ToWrite(tasks, known, 0)
  OBVIOUS
<1>7. input = Writing(story, tasks, seen, todo, change)
  OBVIOUS
<1> HIDE DEF tasks, seen, known, from, todo, change, input
<1>8. Ready(input, tree', made', roles)
  <2>1. story \in 1..made' /\ tree'[story].kind = Story
    BY <1>2, GroundHere
  <2>2. \A u, m : story \in 1..m /\ (story \in DOMAIN u => u[story].kind = Story) => Ready(input, u, m, roles)
    BY <1>3, <1>4, <1>5, <1>6, <1>7, WritingReady
  <2> QED
    BY <2>1, <2>2
<1> QED
  BY <1>2, <1>8, ArrivesIs, StepKeeps, Unchanged, ShelfUnchanged DEF Phase

LEMMA ChangeStep ==
  ASSUME BacklogInv, NEW r \in Request, ChangeTask(r)
  PROVE  BacklogInv'
<1> DEFINE j == job[r]
           n == Min(DOMAIN j.change)
           t == j.change[n]
           i == CHOOSE k \in DOMAIN j.seen : Key(j.seen[k]) = Key(t.name)
           role == IF t.role = None THEN tree[i].role ELSE t.role
           days == CalcDurationDays(t.hours)
           y == [tree[i] EXCEPT !.hours = t.hours, !.days = days, !.role = role]
<1>1. j.op = "template" /\ StoryReady(j, tree, made, roles) /\ DOMAIN j.change # {} /\ DOMAIN job = Request
  BY DEF BacklogInv, Ready, ChangeTask, At, TemplateReady
<1>2. i \in DOMAIN tree /\ tree' = [tree EXCEPT ![i] = y]
  <2>1. i \in DOMAIN tree /\ tree' = [tree EXCEPT ![i].hours = t.hours, ![i].days = CalcDurationDays(t.hours),
                                                  ![i].role = IF t.role = None THEN @ ELSE t.role]
    BY DEF ChangeTask
  <2> HIDE DEF i, t
  <2>2. tree[i] \in Item
    BY <2>1, GroundHere DEF IsTree
  <2> QED
    BY <2>1, <2>2 DEF Item
<1>3. job' = [job EXCEPT ![r] = [j EXCEPT !.change = Rest(j.change)]]
  BY DEF ChangeTask
<1>4. UNCHANGED <<made, roles, library, shelf, pc>>
  BY DEF ChangeTask
<1> HIDE DEF j, i
<1>5. DOMAIN j.change \subseteq Nat
  BY <1>1, TaskIs DEF StoryReady
<1>6. /\ n \in DOMAIN j.change /\ DOMAIN Rest(j.change) = DOMAIN j.change \ {n}
      /\ \A k \in DOMAIN Rest(j.change) : Rest(j.change)[k] = j.change[k]
  BY <1>1, <1>5, RestIs
<1>7. TaskToWrite(t, roles)
  BY <1>1, <1>6 DEF StoryReady
<1>8. tree[i] \in Item /\ tree[i].role \in roles \cup {None, Foreign}
  BY <1>2, GroundHere DEF IsTree
<1>9. t.hours \in Nat /\ days \in Nat /\ role \in roles \cup {None, Foreign} /\ role \in Name \cup {None, Foreign}
  BY <1>7, <1>8, GroundHere, DurationIs DEF TaskToWrite
<1> HIDE DEF t, role, days
<1>10. y \in Item /\ y.kind = tree[i].kind /\ y.parent = tree[i].parent /\ y.template = tree[i].template /\ y.role = role
  BY <1>8, <1>9 DEF Item
<1> HIDE DEF y
<1>11. DOMAIN tree' = DOMAIN tree /\ tree'[i] = y /\ \A k \in DOMAIN tree : k # i => tree'[k] = tree[k]
  BY <1>2
<1>12. \A k \in DOMAIN tree : tree[k] \in Item /\ tree[k].role \in roles \cup {None, Foreign}
  BY GroundHere DEF IsTree
<1>13. \A k \in DOMAIN tree : /\ tree'[k] \in Item /\ tree'[k].kind = tree[k].kind
                              /\ tree'[k].parent = tree[k].parent
                              /\ tree'[k].role \in roles \cup {None, Foreign}
                              /\ tree'[k].template \in DOMAIN library \cup {None}
  BY <1>9, <1>10, <1>11, <1>12, GroundHere
<1>14. IsTree(tree', roles)
  BY <1>11, <1>13, UpdateKeeps, GroundHere
<1>15. Grows
  BY <1>4, <1>11, <1>13, <1>14, GroundHere DEF Grows
<1>16. /\ DOMAIN job' = Request /\ \A q \in Request \ {r} : job'[q] = job[q]
       /\ job'[r] = [j EXCEPT !.change = Rest(j.change)]
  BY <1>1, <1>3
<1>17. /\ DOMAIN job'[r] = DOMAIN j /\ job'[r].op = j.op /\ job'[r].story = j.story /\ job'[r].tasks = j.tasks
       /\ job'[r].seen = j.seen /\ job'[r].own = j.own /\ job'[r].todo = j.todo /\ job'[r].change = Rest(j.change)
  BY <1>1, <1>16 DEF StoryReady
<1>18. \A k : Knows(job'[r], k) <=> Knows(j, k)
  BY <1>17 DEF Knows
<1>19. StoryReady(job'[r], tree', made', roles)
  BY <1>1, <1>4, <1>6, <1>11, <1>13, <1>17, <1>18 DEF StoryReady
<1>20. Ready(job'[r], tree', made', roles')
  BY <1>1, <1>4, <1>17, <1>19 DEF Ready, CreateReady, ReorderReady, GridReady, ImportReady, ReplaceReady, TemplateReady
<1> QED
  BY <1>4, <1>15, <1>16, <1>20, PhaseIs, StepKeeps, ShelfUnchanged DEF BacklogInv

LEMMA AddStep ==
  ASSUME BacklogInv, NEW r \in Request, AddTask(r)
  PROVE  BacklogInv'
<1> DEFINE j == job[r]
           n == Min(DOMAIN j.todo)
           t == j.todo[n]
<1>1. j.op = "template" /\ StoryReady(j, tree, made, roles) /\ DOMAIN j.todo # {} /\ DOMAIN job = Request
  BY DEF BacklogInv, Ready, AddTask, At, TemplateReady
<1>2. j.story \in DOMAIN tree /\ UNCHANGED <<roles, library, shelf, pc>>
  BY DEF AddTask
<1>3. \/ t.role = None /\ job' = [job EXCEPT ![r] = [j EXCEPT !.todo = Rest(j.todo)]] /\ UNCHANGED <<tree, made>>
      \/ /\ t.role # None /\ made + 1 <= MaxId /\ made' = made + 1
         /\ tree' = Insert(tree, made + 1, [NewItem(Task, j.story, t.name, t.order) EXCEPT !.role = t.role, !.hours = t.hours,
                                                                                          !.days = CalcDurationDays(t.hours)])
         /\ job' = [job EXCEPT ![r] = [j EXCEPT !.todo = Rest(j.todo), !.own = Insert(j.own, made + 1, n)]]
  BY DEF AddTask, Room
<1> HIDE DEF j
<1>4. DOMAIN j.todo \subseteq Nat
  BY <1>1, TaskIs DEF StoryReady
<1>5. /\ n \in DOMAIN j.todo /\ DOMAIN Rest(j.todo) = DOMAIN j.todo \ {n}
      /\ \A k \in DOMAIN Rest(j.todo) : Rest(j.todo)[k] = j.todo[k]
  BY <1>1, <1>4, RestIs
<1>6. TaskToWrite(t, roles) /\ ~Knows(j, n) /\ n \in DOMAIN j.tasks
  BY <1>1, <1>5 DEF StoryReady
<1> HIDE DEF n, t
<1>7. CASE t.role = None
  <2>1. /\ DOMAIN job' = Request /\ \A q \in Request \ {r} : job'[q] = job[q]
        /\ job'[r] = [j EXCEPT !.todo = Rest(j.todo)]
    BY <1>1, <1>3, <1>7
  <2>2. /\ DOMAIN job'[r] = DOMAIN j /\ job'[r].op = j.op /\ job'[r].story = j.story /\ job'[r].tasks = j.tasks
        /\ job'[r].seen = j.seen /\ job'[r].own = j.own /\ job'[r].todo = Rest(j.todo) /\ job'[r].change = j.change
    BY <1>1, <2>1 DEF StoryReady
  <2>3. \A k : Knows(job'[r], k) <=> Knows(j, k)
    BY <2>2 DEF Knows
  <2>4. InitRoles = {}
    BY <1>6, <1>7 DEF TaskToWrite
  <2>6. UNCHANGED <<tree, made, roles, library, shelf>>
    BY <1>2, <1>3, <1>7
  <2>5. StoryReady(job'[r], tree', made', roles)
    BY <1>1, <1>5, <2>2, <2>3, <2>4, <2>6 DEF StoryReady
  <2>7. Ready(job'[r], tree', made', roles')
    BY <1>1, <2>2, <2>5, <2>6 DEF Ready, CreateReady, ReorderReady, GridReady, ImportReady, ReplaceReady, TemplateReady
  <2> QED
    BY <1>2, <2>1, <2>6, <2>7, PhaseIs, StepKeeps, Unchanged, ShelfUnchanged DEF BacklogInv
<1>8. CASE t.role # None
  <2> DEFINE days == CalcDurationDays(t.hours)
             x == [NewItem(Task, j.story, t.name, t.order) EXCEPT !.role = t.role, !.hours = t.hours, !.days = days]
             m == made + 1
             own == Insert(j.own, m, n)
  <2>1. /\ m <= MaxId /\ made' = m /\ tree' = Insert(tree, m, x)
        /\ job' = [job EXCEPT ![r] = [j EXCEPT !.todo = Rest(j.todo), !.own = own]]
    BY <1>3, <1>8
  <2>0. t.name \in Name /\ t.hours \in Nat /\ t.order \in Nat /\ t.role \in roles /\ t.role \in Name /\ j.story \in Nat
    BY <1>1, <1>6, <1>8, GroundHere DEF TaskToWrite, StoryReady
  <2>2. days \in Nat /\ t.name \in Name /\ t.hours \in Nat /\ t.order \in Nat /\ t.role \in roles /\ t.role \in Name /\ j.story \in Nat
    BY <2>0, DurationIs
  <2> HIDE DEF days
  <2>3. x \in Item /\ x.kind = 4 /\ x.parent = j.story /\ x.role = t.role /\ x.template = None
    BY <2>2, NameAssumption, KindIs DEF NewItem, Item
  <2>4. ParentThere(tree, x.kind, x.parent)
    BY <1>1, <1>2, <2>3, KindIs DEF StoryReady, ParentThere
  <2>5. x.role \in roles \cup {None} /\ x.template \in DOMAIN library \cup {None}
    BY <2>2, <2>3
  <2> HIDE DEF x
  <2>6. Grows
    BY <1>2, <2>1, <2>3, <2>4, <2>5, AddedGrows
  <2>7. m \notin DOMAIN j.own /\ m \notin DOMAIN tree /\ m \in Nat /\ made \in Nat /\ made <= m
    BY <1>1, GroundHere DEF StoryReady
  <2>8. /\ DOMAIN own = DOMAIN j.own \cup {m} /\ own[m] = n /\ \A k \in DOMAIN j.own : own[k] = j.own[k]
    BY <2>7 DEF Insert
  <2>9. \A k \in DOMAIN tree : tree'[k] = tree[k]
    BY <2>1, <2>7 DEF Insert
  <2>10. DOMAIN tree' = DOMAIN tree \cup {m}
    BY <2>1 DEF Insert
  <2> HIDE DEF own
  <2>11. /\ DOMAIN job' = Request /\ \A q \in Request \ {r} : job'[q] = job[q]
         /\ job'[r] = [j EXCEPT !.todo = Rest(j.todo), !.own = own]
    BY <1>1, <2>1
  <2>12. /\ DOMAIN job'[r] = DOMAIN j /\ job'[r].op = j.op /\ job'[r].story = j.story /\ job'[r].tasks = j.tasks
         /\ job'[r].seen = j.seen /\ job'[r].own = own /\ job'[r].todo = Rest(j.todo) /\ job'[r].change = j.change
    BY <1>1, <2>11 DEF StoryReady
  <2>13. \A k : Knows(job'[r], k) <=> Knows(j, k)
    BY <2>12 DEF Knows
  <2>14. /\ DOMAIN own \subseteq 1..m /\ j.story \in 1..m
         /\ \A i \in DOMAIN own : own[i] \in DOMAIN j.tasks \ DOMAIN Rest(j.todo) /\ ~Knows(j, own[i])
         /\ \A i, k \in DOMAIN own : own[i] = own[k] => i = k
    <3>1. DOMAIN own \subseteq 1..m /\ j.story \in 1..m
      BY <1>1, <2>7, <2>8 DEF StoryReady
    <3>2. \A i \in DOMAIN own : own[i] \in DOMAIN j.tasks \ DOMAIN Rest(j.todo) /\ ~Knows(j, own[i])
      BY <1>1, <1>5, <1>6, <2>8 DEF StoryReady
    <3>3. \A i \in DOMAIN j.own : j.own[i] # n
      BY <1>1, <1>5 DEF StoryReady
    <3>4. \A i, k \in DOMAIN own : own[i] = own[k] => i = k
      BY <1>1, <2>8, <3>3 DEF StoryReady
    <3> QED
      BY <3>1, <3>2, <3>4
  <2>15. \A k \in DOMAIN j.tasks : \/ InitRoles = {} \/ Knows(j, k) \/ k \in DOMAIN Rest(j.todo)
                                   \/ \E i \in DOMAIN own : own[i] = k
    <3>1. SUFFICES ASSUME NEW k \in DOMAIN j.tasks, InitRoles # {}, ~Knows(j, k), k \notin DOMAIN Rest(j.todo)
                   PROVE  \E i \in DOMAIN own : own[i] = k
      OBVIOUS
    <3>2. CASE k = n
      BY <2>8, <3>2
    <3>3. CASE k # n
      <4>1. k \notin DOMAIN j.todo
        BY <1>5, <3>1, <3>3
      <4>2. PICK i \in DOMAIN j.own : j.own[i] = k
        BY <1>1, <3>1, <4>1 DEF StoryReady
      <4> QED
        BY <2>8, <4>2
    <3> QED
      BY <3>2, <3>3
  <2>16. /\ DOMAIN Rest(j.todo) \subseteq DOMAIN j.tasks
         /\ \A k \in DOMAIN Rest(j.todo) : /\ TaskToWrite(Rest(j.todo)[k], roles) /\ ~Knows(j, k)
                                            /\ Rest(j.todo)[k].name = j.tasks[k].name
    BY <1>1, <1>5 DEF StoryReady
  <2>17. j.story \in DOMAIN tree' => tree'[j.story].kind = Story
    BY <1>1, <1>2, <2>9 DEF StoryReady
  <2>18. StoryReady(job'[r], tree', m, roles)
    BY <1>1, <2>12, <2>13, <2>14, <2>15, <2>16, <2>17 DEF StoryReady
  <2>19. Ready(job'[r], tree', made', roles')
    BY <1>1, <1>2, <2>1, <2>12, <2>18
       DEF Ready, CreateReady, ReorderReady, GridReady, ImportReady, ReplaceReady, TemplateReady
  <2> QED
    BY <1>2, <2>6, <2>11, <2>19, PhaseIs, StepKeeps, ShelfUnchanged DEF BacklogInv
<1> QED
  BY <1>7, <1>8

LEMMA ReplaceSteps ==
  ASSUME BacklogInv, NEW r \in Request,
         \/ \E t \in DOMAIN library, tasks \in Lists : Replace(r, t, tasks)
         \/ \E t \in DOMAIN library : RestoreTemplate(r, t)
  PROVE  BacklogInv'
<1>1. PICK t \in DOMAIN library, tasks \in Seq(TemplateTask) : Replace(r, t, tasks)
  <2>1. CASE \E t \in DOMAIN library, tasks \in Lists : Replace(r, t, tasks)
    BY <2>1, BacklogAssumption
  <2>2. CASE \E t \in DOMAIN library : RestoreTemplate(r, t)
    <3>1. PICK t \in DOMAIN library : \E tasks \in shelf[t] : Replace(r, t, tasks)
      BY <2>2 DEF RestoreTemplate
    <3>2. shelf[t] \subseteq Seq(TemplateTask)
      BY DEF BacklogInv, TypeOK
    <3> QED
      BY <3>1, <3>2
  <2> QED
    BY <2>1, <2>2
<1> DEFINE input == [op |-> "replace", template |-> t, tasks |-> tasks]
<1>2. Arrives(r, input, "begun") /\ UNCHANGED <<tree, made, roles, library>>
  BY <1>1 DEF Replace
<1>3. DOMAIN shelf' = DOMAIN shelf /\ \A k \in DOMAIN shelf : shelf'[k] = shelf[k] \/ shelf'[k] = shelf[k] \cup {library[k]}
  BY <1>1 DEF Replace
<1>4. ShelfKept
  BY <1>2, <1>3 DEF ShelfKept, BacklogInv, TypeOK
<1>5. t \in DOMAIN InitLibrary
  BY DEF BacklogInv
<1>6. Ready(input, tree', made', roles')
  BY <1>5 DEF Ready, CreateReady, ReorderReady, GridReady, ImportReady, ReplaceReady, TemplateReady
<1> HIDE DEF input
<1> QED
  BY <1>2, <1>4, <1>6, ArrivesIs, StepKeeps, Unchanged DEF Phase

LEMMA EmptyStep ==
  ASSUME BacklogInv, NEW r \in Request, Empty(r)
  PROVE  BacklogInv'
<1>1. library' = [library EXCEPT ![job[r].template] = <<>>] /\ Goes(r, "filling") /\ UNCHANGED <<tree, made, roles, shelf>>
  BY DEF Empty
<1>2. <<>> \in Seq(TemplateTask)
  OBVIOUS
<1>3. ShelfKept
  BY <1>1, <1>2 DEF ShelfKept, BacklogInv, TypeOK
<1>4. pc' \in [Request -> Phase] /\ job' = job
  BY <1>1, PhaseIs DEF BacklogInv, Goes, Phase
<1>5. Ready(job'[r], tree', made', roles')
  BY <1>1, <1>4 DEF BacklogInv
<1> QED
  BY <1>1, <1>3, <1>4, <1>5, StepKeeps, Unchanged DEF BacklogInv

LEMMA FillStep ==
  ASSUME BacklogInv, NEW r \in Request, Fill(r)
  PROVE  BacklogInv'
<1> DEFINE j == job[r]
           t == j.template
<1>1. /\ j.op = "replace" /\ DOMAIN job = Request /\ DOMAIN j = {"op", "template", "tasks"}
      /\ t \in DOMAIN library /\ j.tasks \in Seq(TemplateTask)
  BY DEF BacklogInv, Ready, Fill, At, ReplaceReady
<1>2. UNCHANGED <<tree, made, roles, shelf>>
  BY DEF Fill
<1>3. CASE j.tasks = <<>>
  <2>1. Ends(r, "done") /\ library' = library /\ "done" \in Phase
    BY <1>3 DEF Fill, Phase
  <2> QED
    BY <1>2, <2>1, EndsKeeps, Unchanged, ShelfUnchanged
<1>4. CASE j.tasks # <<>>
  <2>1. /\ library' = [library EXCEPT ![t] = Append(library[t], Head(j.tasks))]
        /\ job' = [job EXCEPT ![r] = [j EXCEPT !.tasks = Tail(j.tasks)]] /\ pc' = pc
    BY <1>4 DEF Fill
  <2>2. Head(j.tasks) \in TemplateTask /\ Tail(j.tasks) \in Seq(TemplateTask)
    BY <1>1, <1>4
  <2>3. library[t] \in Seq(TemplateTask)
    BY <1>1 DEF BacklogInv, TypeOK
  <2>4. Append(library[t], Head(j.tasks)) \in Seq(TemplateTask)
    BY <2>2, <2>3
  <2>5. ShelfKept
    BY <1>2, <2>1, <2>4 DEF ShelfKept, BacklogInv, TypeOK
  <2>6. /\ DOMAIN job' = Request /\ \A q \in Request \ {r} : job'[q] = job[q]
        /\ job'[r] = [j EXCEPT !.tasks = Tail(j.tasks)]
    BY <1>1, <2>1
  <2>7. /\ DOMAIN job'[r] = {"op", "template", "tasks"} /\ job'[r].op = "replace" /\ job'[r].template = t
        /\ job'[r].tasks = Tail(j.tasks)
    BY <1>1, <2>6
  <2>8. t \in DOMAIN InitLibrary
    BY <1>1 DEF BacklogInv
  <2>9. Ready(job'[r], tree', made', roles')
    BY <2>2, <2>7, <2>8 DEF Ready, CreateReady, ReorderReady, GridReady, ImportReady, ReplaceReady, TemplateReady
  <2>10. pc' \in [Request -> Phase]
    BY <2>1, PhaseIs DEF BacklogInv
  <2> QED
    BY <1>2, <2>5, <2>6, <2>9, <2>10, StepKeeps, Unchanged
<1> QED
  BY <1>3, <1>4

LEMMA EndSteps ==
  ASSUME BacklogInv, NEW r \in Request, Written(r) \/ Stop(r)
  PROVE  BacklogInv'
<1>1. /\ Ends(r, "done") \/ Ends(r, "stopped")
      /\ UNCHANGED <<tree, made, roles, library, shelf>>
  BY DEF Written, Stop
<1>2. "done" \in Phase /\ "stopped" \in Phase
  BY DEF Phase
<1> QED
  BY <1>1, <1>2, EndsKeeps, Unchanged, ShelfUnchanged

LEMMA BacklogInitInv == Init => BacklogInv
<1> SUFFICES ASSUME Init  PROVE BacklogInv
  OBVIOUS
<1>1. PICK n \in 0..MaxId : DOMAIN tree = 1..n
  BY BacklogAssumption DEF Init
<1>2. made = n /\ n \in Nat /\ MaxId \in Nat /\ n <= MaxId
  BY <1>1, BacklogAssumption, FS_Interval DEF Init
<1>3. /\ IsTree(tree, roles) /\ \A i \in DOMAIN tree : tree[i].template \in DOMAIN library \cup {None}
      /\ roles \subseteq Name
  BY BacklogAssumption DEF Init
<1>4. \A t \in DOMAIN library : library[t] \in Seq(TemplateTask) /\ shelf[t] \subseteq Seq(TemplateTask)
  BY BacklogAssumption DEF Init
<1>5. pc \in [Request -> Phase]
  BY DEF Init, Phase
<1>6. TypeOK
  BY <1>1, <1>2, <1>3, <1>4, <1>5 DEF TypeOK, Phase
<1>7. DOMAIN job = Request /\ \A r \in Request : Ready(job[r], tree, made, roles)
  BY IdleReady DEF Init
<1> QED
  BY <1>6, <1>7 DEF BacklogInv, Init

LEMMA BacklogStepInv == BacklogInv /\ [Next]_vars => BacklogInv'
<1> SUFFICES ASSUME BacklogInv, [Next]_vars  PROVE BacklogInv'
  OBVIOUS
<1>1. CASE UNCHANGED vars
  BY <1>1 DEF vars, BacklogInv, TypeOK
<1>2. CASE Next
  <2>1. PICK r \in Request : Step(r)
    BY <1>2 DEF Next
  <2>2. CASE \/ \E kind \in Kind, parent \in {Project} \cup DOMAIN tree, name \in NewName : CountSiblings(r, kind, parent, name)
             \/ Create(r)
    BY <2>2, CreateSteps
  <2>3. CASE \/ \E i \in DOMAIN tree, name \in NewName : Rename(r, i, name)
             \/ \E i \in DOMAIN tree, order \in NewOrder : Place(r, i, order)
             \/ \E i \in DOMAIN tree, e \in NewEstimate : Reestimate(r, i, e)
             \/ \E i \in DOMAIN tree : Switch(r, i) \/ Reassign(r, i)
    BY <2>3, EditSteps
  <2>4. CASE \E i \in DOMAIN tree : Delete(r, i)
    BY <2>4, DeleteStep
  <2>5. CASE (\E i \in DOMAIN tree : AskDuplicate(r, i)) \/ Duplicate(r)
    BY <2>5, DuplicateSteps
  <2>6. CASE \E i \in DOMAIN tree : Refresh(r, i)
    BY <2>6, RefreshStep
  <2>7. CASE \/ \E i \in DOMAIN tree, parent \in {Project} \cup DOMAIN tree, place \in {"first", "last"} : Drag(r, i, parent, place)
             \/ Reorder(r)
    BY <2>7, ReorderSteps
  <2>8. CASE (\E rows \in Grids : ValidateGrid(r, rows)) \/ CommitGrid(r)
    BY <2>8, GridSteps
  <2>9. CASE (\E file \in Files : Import(r, file)) \/ CreateRole(r) \/ CommitImport(r)
    BY <2>9, ImportSteps
  <2>10. CASE \E i \in DOMAIN tree, t \in DOMAIN library, name \in NewName : Apply(r, i, t, name)
    BY <2>10, ApplyStep
  <2>11. CASE \/ \E t \in DOMAIN library, tasks \in Lists : Replace(r, t, tasks)
              \/ \E t \in DOMAIN library : RestoreTemplate(r, t)
    BY <2>11, ReplaceSteps
  <2>12. CASE ChangeTask(r) \/ AddTask(r)
    BY <2>12, ChangeStep, AddStep
  <2>13. CASE Empty(r) \/ Fill(r)
    BY <2>13, EmptyStep, FillStep
  <2>14. CASE Written(r) \/ Stop(r)
    BY <2>14, EndSteps
  <2> QED
    BY <2>1, <2>2, <2>3, <2>4, <2>5, <2>6, <2>7, <2>8, <2>9, <2>10, <2>11, <2>12, <2>13, <2>14 DEF Step
<1> QED
  BY <1>1, <1>2

LEMMA BacklogAlways == Spec => []BacklogInv
BY BacklogInitInv, BacklogStepInv, PTL DEF Spec

(* Whatever requests edit the backlog at the same time, and wherever they  *)
(* stop, every item hangs below one of the kind above its own, ids are     *)
(* given once, and templates hold tasks (routes/epics.ts to routes/csv.ts).*)
THEOREM BacklogTyped == Spec => []TypeOK
<1>1. BacklogInv => TypeOK
  BY DEF BacklogInv
<1> QED
  BY <1>1, BacklogAlways, PTL

(***************************************************************************)
(* Order.                                                                  *)
(***************************************************************************)

(* A request under way ends well by what its handler does last.            *)
LEMMA Finishes ==
  ASSUME BacklogInv, NEW r \in Request, NEW q \in Request, Step(q),
         pc[r] \notin {"unborn", "done"}, pc'[r] = "done"
  PROVE  /\ q = r
         /\ \/ Create(r) \/ Reorder(r) \/ Duplicate(r) \/ CommitGrid(r) \/ CommitImport(r) \/ Written(r) \/ Fill(r)
<1>0. pc \in [Request -> Phase]
  BY PhaseIs DEF BacklogInv
<1>1. ASSUME NEW input, NEW c, Arrives(q, input, c)  PROVE FALSE
  BY <1>0, <1>1 DEF Arrives
<1>2. ASSUME Stop(q)  PROVE FALSE
  BY <1>0, <1>2 DEF Stop, Ends
<1>3. ASSUME ChangeTask(q) \/ AddTask(q) \/ CreateRole(q) \/ Empty(q)  PROVE FALSE
  BY <1>0, <1>3 DEF ChangeTask, AddTask, CreateRole, Empty, Goes
<1>4. \/ Create(q) \/ Reorder(q) \/ Duplicate(q) \/ CommitGrid(q) \/ CommitImport(q) \/ Written(q) \/ Fill(q)
  BY <1>1, <1>2, <1>3 DEF Step, CountSiblings, Rename, Place, Switch, Reassign, Reestimate, Edit, Delete, AskDuplicate, Refresh, Drag,
     ValidateGrid, Import, Apply, Replace, RestoreTemplate
<1>5. q = r
  BY <1>0, <1>4 DEF Create, Reorder, Duplicate, CommitGrid, CommitImport, Written, Fill, Ends
<1> QED
  BY <1>4, <1>5

LEMMA DuplicateExact ==
  ASSUME BacklogInv, NEW r \in Request, Duplicate(r)
  PROVE  LET i == job[r].item
             new == DOMAIN tree' \ DOMAIN tree
         IN \E c \in new :
              /\ new = Below(tree', c) /\ SameBelow(tree, i, tree', c)
              /\ [tree'[c] EXCEPT !.order = 0] = [tree[i] EXCEPT !.order = 0, !.name = CopyName(@)]
              /\ \A j \in DOMAIN tree :
                   /\ [tree'[j] EXCEPT !.order = 0] = [tree[j] EXCEPT !.order = 0]
                   /\ IF j \in Siblings(tree, i) \cup {i}
                      THEN IF tree[j].order > tree[i].order THEN tree'[j].order > tree'[c].order
                                                            ELSE tree'[j].order < tree'[c].order
                      ELSE tree'[j].order = tree[j].order
<1> DEFINE i == job[r].item
           id == CopyIds(tree, i, made)
           c == id[i]
           new == DOMAIN tree' \ DOMAIN tree
<1>1. i \in DOMAIN tree /\ tree' = Duplicated(tree, i, made)
  BY DEF Duplicate
<1>2. IsTree(tree, roles) /\ made \in Nat /\ DOMAIN tree \subseteq 1..made
  BY GroundHere
<1> HIDE DEF i, id
<1>3. id = CopyIds(tree, i, made)
  BY DEF id
<1>4. HasCopies(tree, i, id, tree') /\ FieldsCopied(tree, i, id, tree')
  BY <1>1, <1>2, <1>3, DuplicatedIs, DuplicateFields
<1>5. i \in Below(tree, i)
  BY <1>1, <1>2, BelowClosed
<1>6. new = {id[j] : j \in Below(tree, i)}
  BY <1>4 DEF HasCopies
<1>7. Below(tree', c) = {id[j] : j \in Below(tree, i)} /\ SameBelow(tree, i, tree', c)
  <2> DEFINE u == tree'
  <2>1. /\ IsTree(tree, roles) /\ made \in Nat /\ DOMAIN tree \subseteq 1..made /\ i \in DOMAIN tree
        /\ id = CopyIds(tree, i, made) /\ u = Duplicated(tree, i, made)
    BY <1>1, <1>2, <1>3
  <2> HIDE DEF u, c, new
  <2>2. CopiesBelow(tree, i, id, u)
    BY ONLY <2>1, BelowCopied
  <2>3. SameBelow(tree, i, u, id[i])
    BY ONLY <2>1, CopyIsSame
  <2> QED
    BY <2>2, <2>3 DEF u, c, CopiesBelow
<1>8. AtOrder(tree'[c], 0) = [tree[i] EXCEPT !.order = 0, !.name = CopyName(tree[i].name)]
  BY <1>4 DEF FieldsCopied
<1>9. \A j \in DOMAIN tree : AtOrder(tree'[j], 0) = AtOrder(tree[j], 0)
  BY <1>4 DEF FieldsCopied
<1>10. \A j \in DOMAIN tree :
         IF j \in Siblings(tree, i) \cup {i}
         THEN IF tree[j].order > tree[i].order THEN tree'[j].order > tree'[c].order
                                               ELSE tree'[j].order < tree'[c].order
         ELSE tree'[j].order = tree[j].order
  BY <1>1, <1>2, <1>3, CopyBehind
<1>11. [tree[i] EXCEPT !.order = 0, !.name = CopyName(tree[i].name)] = [tree[i] EXCEPT !.order = 0, !.name = CopyName(@)]
  <2>1. tree[i] \in Item
    BY <1>1, <1>2 DEF IsTree
  <2> QED
    BY <2>1 DEF Item
<1>12. c \in new
  BY <1>5, <1>6
<1>13. [tree'[c] EXCEPT !.order = 0] = [tree[i] EXCEPT !.order = 0, !.name = CopyName(@)]
  BY <1>8, <1>11 DEF AtOrder
<1>14. \A j \in DOMAIN tree : [tree'[j] EXCEPT !.order = 0] = [tree[j] EXCEPT !.order = 0]
  BY <1>9 DEF AtOrder
<1> HIDE DEF c, new
<1>15. new = Below(tree', c)
  BY <1>6, <1>7
<1> QED
  BY <1>7, <1>10, <1>12, <1>13, <1>14, <1>15 DEF new, i

LEMMA DuplicatesStep ==
  ASSUME BacklogInv, Next
  PROVE  DuplicatesExactly
<1>1. SUFFICES ASSUME NEW r \in Request, At(r, "duplicate", "begun"), pc'[r] = "done"
               PROVE  Duplicate(r)
  BY DuplicateExact DEF DuplicatesExactly
<1>2. PICK q \in Request : Step(q)
  BY DEF Next
<1>3. pc[r] = "begun" /\ job[r].op = "duplicate"
  BY <1>1 DEF At
<1>4. Create(r) \/ Reorder(r) \/ Duplicate(r) \/ CommitGrid(r) \/ CommitImport(r) \/ Written(r) \/ Fill(r)
  BY <1>1, <1>2, <1>3, Finishes
<1> QED
  BY <1>3, <1>4 DEF Create, Reorder, CommitGrid, CommitImport, Written, Fill, At

(* The orders of the items that stay.                                      *)
OrdersStay == \A i \in DOMAIN tree \cap DOMAIN tree' : tree'[i].order = tree[i].order

LEMMA EditOrder ==
  ASSUME BacklogInv, NEW r \in Request, NEW i \in DOMAIN tree, NEW x, Edit(r, i, x), x.order = tree[i].order
  PROVE  OrdersStay
<1>1. tree' = [tree EXCEPT ![i] = x]
  BY DEF Edit
<1> QED
  BY <1>1 DEF OrdersStay

LEMMA EditsOrder ==
  ASSUME BacklogInv, NEW r \in Request, NEW i \in DOMAIN tree,
         \/ \E name \in NewName : Rename(r, i, name)
         \/ \E e \in NewEstimate : Reestimate(r, i, e)
         \/ Switch(r, i) \/ Reassign(r, i)
  PROVE  OrdersStay
<1>1. tree[i] \in Item
  BY GroundHere DEF IsTree
<1>2. CASE \E name \in NewName : Rename(r, i, name)
  <2>1. PICK name : Edit(r, i, [tree[i] EXCEPT !.name = name])
    BY <1>2 DEF Rename
  <2>2. [tree[i] EXCEPT !.name = name].order = tree[i].order
    BY <1>1 DEF Item
  <2> QED
    BY <2>1, <2>2, EditOrder
<1>3. CASE Switch(r, i)
  <2>1. [tree[i] EXCEPT !.active = ~@].order = tree[i].order
    BY <1>1 DEF Item
  <2> QED
    BY <1>3, <2>1, EditOrder DEF Switch
<1>4. CASE Reassign(r, i)
  <2>1. [tree[i] EXCEPT !.role = Foreign].order = tree[i].order
    BY <1>1 DEF Item
  <2> QED
    BY <1>4, <2>1, EditOrder DEF Reassign
<1>5. CASE \E e \in NewEstimate : Reestimate(r, i, e)
  <2>1. PICK e : Edit(r, i, [tree[i] EXCEPT !.hours = e.hours, !.days = e.days])
    BY <1>5 DEF Reestimate
  <2>2. [tree[i] EXCEPT !.hours = e.hours, !.days = e.days].order = tree[i].order
    BY <1>1 DEF Item
  <2> QED
    BY <2>1, <2>2, EditOrder
<1> QED
  BY <1>2, <1>3, <1>4, <1>5

LEMMA InsertOrder ==
  ASSUME BacklogInv, NEW x, tree' = Insert(tree, made + 1, x)
  PROVE  OrdersStay
<1>1. made + 1 \notin DOMAIN tree
  BY GroundHere
<1> QED
  BY <1>1 DEF OrdersStay, Insert

LEMMA ChangeOrder ==
  ASSUME BacklogInv, NEW r \in Request, ChangeTask(r)
  PROVE  OrdersStay
<1> DEFINE t == job[r].change[Min(DOMAIN job[r].change)]
           i == CHOOSE k \in DOMAIN job[r].seen : Key(job[r].seen[k]) = Key(t.name)
<1>1. i \in DOMAIN tree /\ tree' = [tree EXCEPT ![i].hours = t.hours, ![i].days = CalcDurationDays(t.hours),
                                                  ![i].role = IF t.role = None THEN @ ELSE t.role]
  BY DEF ChangeTask
<1> HIDE DEF t, i
<1>2. tree[i] \in Item
  BY <1>1, GroundHere DEF IsTree
<1> QED
  BY <1>1, <1>2 DEF OrdersStay, Item

LEMMA CommitOrder ==
  ASSUME BacklogInv, NEW r \in Request, CommitGrid(r) \/ CommitImport(r)
  PROVE  OrdersStay
<1>1. \E n : WrittenOnto(tree, made, roles, library, tree', n)
  <2>1. CASE CommitGrid(r)
    <3> DEFINE j == job[r]
    <3>1. GridReady(j, tree, made, roles) /\ j.op = "grid" /\ CanCommitGrid(tree, j.base, j.rows)
      BY <2>1 DEF BacklogInv, Ready, CommitGrid, At
    <3>2. GridFits(tree, made, roles, j.base, j.types, j.rows)
      BY <3>1 DEF GridReady
    <3>3. tree' = GridCommitted(tree, j.base, j.types, j.rows, made)
      BY <2>1 DEF CommitGrid
    <3> HIDE DEF j
    <3> QED
      BY <3>1, <3>2, <3>3, GroundHere, GridCommittedOK
  <2>2. CASE CommitImport(r)
    <3> DEFINE rows == StagedRows(job[r].file)
    <3>1. ImportReady(job[r]) /\ job[r].op = "import" /\ tree' = Imported(tree, made, rows, library, roles).tree
      BY <2>2 DEF BacklogInv, Ready, CommitImport, At
    <3>2. rows \in Seq(StagedRow) /\ \A k \in DOMAIN rows : Sound(rows[k])
      BY <3>1, StagedSound DEF ImportReady
    <3> HIDE DEF rows
    <3> QED
      BY <3>1, <3>2, GroundHere, ImportedOK
  <2> QED
    BY <2>1, <2>2
<1> QED
  BY <1>1 DEF WrittenOnto, OrdersStay

LEMMA OvertakesStep ==
  ASSUME BacklogInv, Next
  PROVE  OvertakesByReorder
<1>1. PICK r \in Request : Step(r)
  BY DEF Next
<1>2. CASE OrdersStay
  <2>1. \A i \in DOMAIN tree : tree[i].order \in Nat
    BY GroundHere DEF IsTree, Item
  <2> QED
    BY <1>2, <2>1 DEF OvertakesByReorder, OrdersStay
<1>3. CASE Reorder(r)
  <2>1. At(r, "reorder", "begun") /\ pc'[r] = "done"
    BY <1>3, PhaseIs DEF Reorder, Ends, BacklogInv
  <2> QED
    BY <2>1 DEF OvertakesByReorder
<1>4. CASE Duplicate(r)
  <2> DEFINE i == job[r].item
  <2>1. i \in DOMAIN tree /\ tree' = Duplicated(tree, i, made)
    BY <1>4 DEF Duplicate
  <2>2. IsTree(tree, roles) /\ made \in Nat /\ DOMAIN tree \subseteq 1..made
    BY GroundHere
  <2> HIDE DEF i
  <2>3. \A j, k \in DOMAIN tree : tree[j].parent = tree[k].parent /\ tree[j].order < tree[k].order
                                  => tree'[j].order < tree'[k].order
    BY <2>1, <2>2, MovesUpInStep
  <2>4. IsTree(tree', roles')
    BY BacklogStepInv DEF BacklogInv, TypeOK
  <2>5. \A k \in DOMAIN tree' : tree'[k].order \in Nat
    BY <2>4 DEF IsTree, Item
  <2> QED
    BY <2>3, <2>5, GroundHere DEF OvertakesByReorder, IsTree, Item
<1>13. CASE \E i \in DOMAIN tree, order \in NewOrder : Place(r, i, order)
  <2>1. PICK i \in DOMAIN tree, order \in NewOrder : Edit(r, i, [tree[i] EXCEPT !.order = order])
    BY <1>13 DEF Place
  <2>2. tree' = [tree EXCEPT ![i] = [tree[i] EXCEPT !.order = order]] /\ Arrives(r, Idle, "done")
    BY <2>1 DEF Edit
  <2>3. pc[r] = "unborn" /\ pc'[r] = "done"
    BY <2>2, PhaseIs DEF Arrives, BacklogInv
  <2>4. EditsOrderOf(i)
    BY <2>2, <2>3 DEF EditsOrderOf
  <2>5. \A k \in DOMAIN tree : tree[k].order \in Nat
    BY GroundHere DEF IsTree, Item
  <2>6. \A k \in DOMAIN tree \ {i} : tree'[k] = tree[k]
    BY <2>2
  <2> QED
    BY <2>4, <2>5, <2>6 DEF OvertakesByReorder
<1>5. CASE tree' = tree
  BY <1>5, <1>2 DEF OrdersStay
<1>6. CASE \/ \E i \in DOMAIN tree, name \in NewName : Rename(r, i, name)
           \/ \E i \in DOMAIN tree, e \in NewEstimate : Reestimate(r, i, e)
           \/ \E i \in DOMAIN tree : Switch(r, i) \/ Reassign(r, i)
  BY <1>2, <1>6, EditsOrder
<1>7. CASE \E i \in DOMAIN tree : Delete(r, i)
  <2>1. PICK i \in DOMAIN tree : tree' = WithoutItem(tree, i)
    BY <1>7 DEF Delete
  <2>2. \A k \in DOMAIN tree' : tree'[k] = tree[k]
    BY <2>1, GroundHere, DeleteKeeps
  <2> QED
    BY <2>2, <1>2 DEF OrdersStay
<1>8. CASE Create(r)
  BY <1>8, <1>2, InsertOrder DEF Create
<1>9. CASE \E i \in DOMAIN tree, t \in DOMAIN library, name \in NewName : Apply(r, i, t, name)
  BY <1>9, <1>2, InsertOrder DEF Apply
<1>10. CASE AddTask(r)
  <2>1. tree' = tree \/ \E x : tree' = Insert(tree, made + 1, x)
    BY <1>10 DEF AddTask
  <2> QED
    BY <2>1, <1>2, <1>5, InsertOrder
<1>11. CASE ChangeTask(r) \/ CommitGrid(r) \/ CommitImport(r)
  BY <1>11, <1>2, ChangeOrder, CommitOrder
<1>12. CASE \/ \E kind \in Kind, parent \in {Project} \cup DOMAIN tree, name \in NewName : CountSiblings(r, kind, parent, name)
            \/ \E i \in DOMAIN tree : AskDuplicate(r, i) \/ Refresh(r, i)
            \/ \E i \in DOMAIN tree, parent \in {Project} \cup DOMAIN tree, place \in {"first", "last"} : Drag(r, i, parent, place)
            \/ \E rows \in Grids : ValidateGrid(r, rows)
            \/ \E file \in Files : Import(r, file)
            \/ \E t \in DOMAIN library, tasks \in Lists : Replace(r, t, tasks)
            \/ \E t \in DOMAIN library : RestoreTemplate(r, t)
            \/ CreateRole(r) \/ Written(r) \/ Empty(r) \/ Fill(r) \/ Stop(r)
  <2>1. tree' = tree
    BY <1>12 DEF CountSiblings, AskDuplicate, Refresh, Drag, ValidateGrid, Import, Replace, RestoreTemplate,
       CreateRole, Written, Empty, Fill, Stop
  <2> QED
    BY <2>1, <1>5
<1> QED
  BY <1>1, <1>3, <1>4, <1>6, <1>7, <1>8, <1>9, <1>10, <1>11, <1>12, <1>13 DEF Step

(* A duplicate goes between its source and what was behind it, is like the *)
(* source with all that is below it, and changes nothing else; and only a  *)
(* reorder, or an edit that gives one of the two its order, puts a sibling *)
(* before another that it was behind (lib/backlogDuplication.ts,           *)
(* routes/reorder.ts, and the PUT routes of the items).                    *)
THEOREM BacklogOrder == Spec => OrderKept
<1>1. BacklogInv /\ [Next]_vars => [DuplicatesExactly /\ OvertakesByReorder]_vars
  BY DuplicatesStep, OvertakesStep
<1> QED
  BY <1>1, BacklogAlways, PTL DEF Spec, OrderKept

(***************************************************************************)
(* Stories from templates.                                                 *)
(***************************************************************************)

LEMMA FewerThan ==
  ASSUME NEW S, NEW T, IsFiniteSet(T), NEW f, \A i \in S : f[i] \in T,
         \A i, k \in S : f[i] = f[k] => i = k
  PROVE  Cardinality(S) <= Cardinality(T)
<1> DEFINE g == [i \in S |-> f[i]]
<1>1. g \in [S -> T] /\ \A i, k \in S : g[i] = g[k] => i = k
  OBVIOUS
<1> HIDE DEF g
<1>2. g \in Injection(S, T)
  BY <1>1 DEF Injection, IsInjective
<1> QED
  BY <1>2, FS_Injection

LEMMA CompleteStep ==
  ASSUME BacklogInv, Next
  PROVE  \A r \in Request : At(r, "template", "writing") /\ pc'[r] = "done" => StoryComplete(r)
<1> SUFFICES ASSUME NEW r \in Request, At(r, "template", "writing"), pc'[r] = "done"
             PROVE  StoryComplete(r)
  OBVIOUS
<1>1. PICK q \in Request : Step(q)
  BY DEF Next
<1>2. pc[r] = "writing" /\ job[r].op = "template"
  BY DEF At
<1>3. Create(r) \/ Reorder(r) \/ Duplicate(r) \/ CommitGrid(r) \/ CommitImport(r) \/ Written(r) \/ Fill(r)
  BY <1>1, <1>2, Finishes
<1>4. Written(r)
  BY <1>2, <1>3 DEF Create, Reorder, Duplicate, CommitGrid, CommitImport, Fill, At
<1> DEFINE j == job[r]
           now == Children(tree, j.story)
           like(t) == {i \in now : Key(tree[i].name) = Key(t.name)}
<1>5. StoryReady(j, tree, made, roles) /\ DOMAIN j.todo = {}
  BY <1>2, <1>4 DEF BacklogInv, Ready, TemplateReady, Written
<1>6. SUFFICES ASSUME now = DOMAIN j.seen \cup DOMAIN j.own,
                      \A i \in DOMAIN j.seen : tree[i].name = j.seen[i],
                      \A i \in DOMAIN j.own : tree[i].name = j.tasks[j.own[i]].name,
                      NEW n \in DOMAIN j.tasks
               PROVE  /\ InitRoles # {} => like(j.tasks[n]) # {}
                      /\ \/ like(j.tasks[n]) \subseteq DOMAIN j.seen
                         \/ Cardinality(like(j.tasks[n])) <=
                              Cardinality({m \in DOMAIN j.tasks : Key(j.tasks[m].name) = Key(j.tasks[n].name)})
  BY ZenonT(60) DEF StoryComplete, Range
<1> HIDE DEF j
<1> DEFINE key == Key(j.tasks[n].name)
           same == {m \in DOMAIN j.tasks : Key(j.tasks[m].name) = key}
           L == like(j.tasks[n])
<1>7. \A i : i \in L <=> i \in now /\ Key(tree[i].name) = key
  OBVIOUS
<1> HIDE DEF now, L
<1>8. ASSUME InitRoles # {}  PROVE L # {}
  <2>1. CASE Knows(j, n)
    <3>1. PICK i \in DOMAIN j.seen : Key(j.seen[i]) = key
      BY <2>1 DEF Knows
    <3> QED
      BY <3>1, <1>6, <1>7
  <2>2. CASE ~Knows(j, n)
    <3>1. PICK i \in DOMAIN j.own : j.own[i] = n
      BY <2>2, <1>5, <1>8 DEF StoryReady
    <3> QED
      BY <3>1, <1>6, <1>7
  <2> QED
    BY <2>1, <2>2
<1>9. CASE Knows(j, n)
  <2>1. ASSUME NEW i \in L, i \notin DOMAIN j.seen  PROVE FALSE
    <3>1. i \in DOMAIN j.own /\ Key(j.tasks[j.own[i]].name) = key
      BY <1>6, <1>7, <2>1
    <3>2. Knows(j, j.own[i])
      BY <1>9, <3>1 DEF Knows
    <3> QED
      BY <3>1, <3>2, <1>5 DEF StoryReady
  <2>2. L \subseteq DOMAIN j.seen
    BY <2>1
  <2> QED
    BY <1>8, <2>2 DEF L
<1>10. CASE ~Knows(j, n)
  <2>1. \A i \in L : i \in DOMAIN j.own
    <3>1. SUFFICES ASSUME NEW i \in L, i \in DOMAIN j.seen  PROVE FALSE
      BY <1>6, <1>7
    <3>2. Key(j.seen[i]) = key
      BY <1>6, <1>7, <3>1
    <3> QED
      BY <1>10, <3>2, <3>1 DEF Knows
  <2>2. \A i \in L : j.own[i] \in same
    BY <2>1, <1>5, <1>6, <1>7 DEF StoryReady
  <2>3. \A i, k \in L : j.own[i] = j.own[k] => i = k
    BY <2>1, <1>5 DEF StoryReady
  <2>4. IsFiniteSet(same)
    <3>1. j.tasks \in Seq(TemplateTask)
      BY <1>5 DEF StoryReady
    <3>2. DOMAIN j.tasks = 1..Len(j.tasks) /\ Len(j.tasks) \in Nat
      BY <3>1
    <3>3. IsFiniteSet(1..Len(j.tasks))
      BY <3>2, FS_Interval
    <3> QED
      BY <3>2, <3>3, FS_Subset
  <2> HIDE DEF same
  <2>5. Cardinality(L) <= Cardinality(same)
    BY <2>2, <2>3, <2>4, FewerThan
  <2> QED
    BY <1>8, <2>5 DEF L, same
<1> QED
  BY <1>9, <1>10

(* A story that is made or refreshed from a template has every task of it  *)
(* when that ends and nobody else has touched its tasks, and none twice,   *)
(* also after an earlier attempt stopped half-way                          *)
(* (routes/applyTemplate.ts).                                              *)
THEOREM BacklogRefreshes == Spec => RefreshCompletes
<1>1. BacklogInv /\ [Next]_vars =>
        [\A r \in Request : At(r, "template", "writing") /\ pc'[r] = "done" => StoryComplete(r)]_vars
  BY CompleteStep
<1> QED
  BY <1>1, BacklogAlways, PTL DEF Spec, RefreshCompletes

(***************************************************************************)
(* What a grid asks for.                                                   *)
(***************************************************************************)

(* The path of an item is the path of its parent and its name.             *)
LEMMA PathIs ==
  ASSUME NEW t, NEW i, NEW p, t[i].kind \in 1..4, t[i].parent = p,
         t[i].kind # 1 => t[p].kind = t[i].kind - 1
  PROVE  /\ DOMAIN PathOf(t, i) = 1..t[i].kind
         /\ PathOf(t, i)[t[i].kind] = t[i].name
         /\ \A l \in 1..t[i].kind - 1 : PathOf(t, i)[l] = PathOf(t, p)[l]
<1> DEFINE k == t[i].kind
<1>1. k \in {1, 2, 3, 4}
  OBVIOUS
<1>2. DOMAIN PathOf(t, i) = 1..k /\ \A l \in 1..k : PathOf(t, i)[l] = t[Above(t, i, l)].name
  BY DEF PathOf
<1>3. Above(t, i, k) = i
  BY DEF Above
<1>4. ASSUME NEW l \in 1..k - 1  PROVE Above(t, i, l) = Above(t, p, l) /\ l \in 1..t[p].kind /\ l \in 1..k
  <2>1. t[p].kind = k - 1 /\ l \in {1, 2, 3}
    BY <1>1, <1>4
  <2>2. Above(t, i, l) = IF k = l + 1 THEN p ELSE IF k = l + 2 THEN t[p].parent ELSE t[t[p].parent].parent
    BY <1>1, <2>1 DEF Above
  <2>3. Above(t, p, l) = IF k = l + 1 THEN p ELSE IF k = l + 2 THEN t[p].parent ELSE t[t[p].parent].parent
    BY <1>1, <2>1 DEF Above
  <2> QED
    BY <1>1, <2>1, <2>2, <2>3
<1>5. ASSUME NEW l \in 1..k - 1  PROVE PathOf(t, i)[l] = PathOf(t, p)[l]
  BY <1>2, <1>4, <1>5 DEF PathOf
<1> QED
  BY <1>1, <1>2, <1>3, <1>5

(* A path leads to an item by way of those it leads to without its end.    *)
LEMMA FoundFrom ==
  ASSUME NEW t, NEW path \in Seq(Name), Len(path) \in 1..3
  PROVE  Found(t, path) = UniqueByName(t, Found(t, SubSeq(path, 1, Len(path) - 1)), path[Len(path)])
<1> DEFINE k == Len(path)
           up == SubSeq(path, 1, k - 1)
<1>1. k \in {1, 2, 3}
  OBVIOUS
<1>2. Len(up) = k - 1 /\ \A l \in 1..k - 1 : up[l] = path[l]
  BY <1>1
<1> HIDE DEF up
<1>3. Len(path) \in 0..3 /\ Len(up) \in 0..3
  BY <1>1, <1>2
<1>4. CASE k = 1
  <2>1. Found(t, up) = 0
    BY <1>2, <1>3, <1>4, FoundIs
  <2> QED
    BY <2>1, <1>3, <1>4, FoundIs DEF up
<1>5. CASE k = 2
  <2>1. Found(t, up) = UniqueByName(t, 0, up[1]) /\ up[1] = path[1]
    BY <1>2, <1>3, <1>5, FoundIs
  <2> QED
    BY <2>1, <1>3, <1>5, FoundIs DEF up
<1>6. CASE k = 3
  <2>1. Found(t, up) = UniqueByName(t, UniqueByName(t, 0, up[1]), up[2]) /\ up[1] = path[1] /\ up[2] = path[2]
    BY <1>2, <1>3, <1>6, FoundIs
  <2> QED
    BY <2>1, <1>3, <1>6, FoundIs DEF up
<1> QED
  BY <1>1, <1>4, <1>5, <1>6 DEF up

Start(path, l) == SubSeq(path, 1, l)

LEMMA StartIs ==
  ASSUME NEW path \in Seq(Name), NEW l \in 0..Len(path)
  PROVE  /\ Start(path, l) \in Seq(Name) /\ Len(Start(path, l)) = l
         /\ \A k \in 1..l : Start(path, l)[k] = path[k]
         /\ \A k \in 0..l : Start(Start(path, l), k) = Start(path, k)
         /\ Start(path, Len(path)) = path
BY DEF Start

LEMMA FoundUp ==
  ASSUME NEW t, NEW R, IsTree(t, R), NEW m \in Nat, DOMAIN t \subseteq 1..m,
         NEW path \in Seq(Name), Len(path) \in 1..3, NEW i, i = Found(t, path), i # None
  PROVE  /\ i \in DOMAIN t /\ t[i].kind = Len(path) /\ Key(t[i].name) = Key(path[Len(path)])
         /\ t[i].parent = Found(t, Start(path, Len(path) - 1)) /\ t[i].parent # None
<1>1. i = UniqueByName(t, Found(t, Start(path, Len(path) - 1)), path[Len(path)])
  BY FoundFrom DEF Start
<1> DEFINE p == Found(t, Start(path, Len(path) - 1))
<1>2. p # None /\ i \in Children(t, p)
  BY <1>1, UniqueIs
<1>3. Len(path) \in 0..3 /\ Len(path) # 0
  <2>1. Len(path) \in {1, 2, 3}
    OBVIOUS
  <2> QED
    BY ONLY <2>1
<1>4. i \in DOMAIN t /\ t[i].kind = Len(path) /\ Key(t[i].name) = Key(path[Len(path)])
  BY <1>3, FoundChain
<1> QED
  BY <1>2, <1>4 DEF Children

(* The path of an item that a path led to, where names may have changed.   *)
FoundAlong(t, u, path, i) ==
  /\ i \in DOMAIN t /\ t[i].kind = Len(path) /\ DOMAIN PathOf(u, i) = 1..Len(path)
  /\ \A l \in 1..Len(path) :
       LET there == Found(t, Start(path, l))
       IN there \in DOMAIN t /\ Key(t[there].name) = Key(path[l]) /\ PathOf(u, i)[l] = u[there].name

LEMMA FoundPathStep ==
  ASSUME NEW t, NEW R, IsTree(t, R), NEW m \in Nat, DOMAIN t \subseteq 1..m,
         NEW u, \A j \in DOMAIN t : u[j].kind = t[j].kind /\ u[j].parent = t[j].parent,
         NEW path \in Seq(Name), Len(path) \in 1..3, NEW i, i = Found(t, path), i # None,
         Len(path) # 1 => FoundAlong(t, u, Start(path, Len(path) - 1), t[i].parent)
  PROVE  FoundAlong(t, u, path, i)
<1> DEFINE k == Len(path)
           up == Start(path, k - 1)
           p == t[i].parent
<1>1. i \in DOMAIN t /\ t[i].kind = k /\ Key(t[i].name) = Key(path[k]) /\ p = Found(t, up) /\ p # None
  BY FoundUp
<1>2. Len(up) = k - 1 /\ up \in Seq(Name) /\ (\A l \in 1..k - 1 : up[l] = path[l])
      /\ (\A l \in 1..k - 1 : Start(up, l) = Start(path, l)) /\ Start(path, k) = path
  BY StartIs
<1> HIDE DEF up, k
<1>3. k # 1 => FoundAlong(t, u, up, p)
  BY DEF up, k
<1>4. k # 1 => p \in DOMAIN t /\ t[p].kind = k - 1
  BY <1>2, <1>3 DEF FoundAlong
<1>5. u[i].kind = k /\ u[i].parent = p /\ (k # 1 => u[p].kind = k - 1) /\ k \in 1..4
  BY <1>1, <1>4 DEF k
<1>6. /\ DOMAIN PathOf(u, i) = 1..k /\ PathOf(u, i)[k] = u[i].name
      /\ \A l \in 1..k - 1 : PathOf(u, i)[l] = PathOf(u, p)[l]
  <2> HIDE DEF p
  <2>1. u[i].kind \in 1..4 /\ (u[i].kind # 1 => u[p].kind = u[i].kind - 1) /\ u[i].parent = p
    BY <1>5
  <2>2. /\ DOMAIN PathOf(u, i) = 1..u[i].kind /\ PathOf(u, i)[u[i].kind] = u[i].name
        /\ \A l \in 1..u[i].kind - 1 : PathOf(u, i)[l] = PathOf(u, p)[l]
    BY ONLY <2>1, PathIs
  <2> QED
    BY <1>5, <2>2
<1>7. ASSUME NEW l \in 1..k
      PROVE  LET there == Found(t, Start(path, l))
             IN there \in DOMAIN t /\ Key(t[there].name) = Key(path[l]) /\ PathOf(u, i)[l] = u[there].name
  <2>1. CASE l = k
    BY <1>1, <1>2, <1>6, <2>1
  <2>2. CASE l # k
    <3>1. l \in 1..k - 1 /\ k # 1
      BY <1>5, <2>2
    <3>2. FoundAlong(t, u, up, p) /\ l \in 1..Len(up)
      BY <1>2, <1>3, <3>1
    <3> QED
      BY <1>2, <1>6, <3>1, <3>2 DEF FoundAlong
  <2> QED
    BY <2>1, <2>2
<1> QED
  BY <1>1, <1>6, <1>7 DEF FoundAlong, k

LEMMA FoundPath ==
  ASSUME NEW t, NEW R, IsTree(t, R), NEW m \in Nat, DOMAIN t \subseteq 1..m,
         NEW u, \A j \in DOMAIN t : u[j].kind = t[j].kind /\ u[j].parent = t[j].parent,
         NEW path \in Seq(Name), Len(path) \in 1..3, Found(t, path) # None
  PROVE  FoundAlong(t, u, path, Found(t, path))
<1> DEFINE Good(k) == \A p \in Seq(Name) : Len(p) = k /\ Found(t, p) # None => FoundAlong(t, u, p, Found(t, p))
<1>1. Good(1)
  BY FoundPathStep
<1>2. ASSUME NEW k \in 2..3, Good(k - 1)  PROVE Good(k)
  <2>1. SUFFICES ASSUME NEW p \in Seq(Name), Len(p) = k, Found(t, p) # None
                 PROVE  FoundAlong(t, u, p, Found(t, p))
    OBVIOUS
  <2> DEFINE i == Found(t, p)
             up == Start(p, k - 1)
  <2>2. Len(p) \in 1..3 /\ Len(p) # 1 /\ i # None
    BY <2>1
  <2>3. t[i].parent = Found(t, up) /\ t[i].parent # None
    BY <2>1, <2>2, FoundUp
  <2>4. up \in Seq(Name) /\ Len(up) = k - 1
    <3>1. k - 1 \in 0..Len(p)
      BY <2>1
    <3> QED
      BY <2>1, <3>1, StartIs
  <2>5. FoundAlong(t, u, up, t[i].parent)
    BY <1>2, <2>3, <2>4
  <2> HIDE DEF i, up
  <2>6. FoundAlong(t, u, Start(p, Len(p) - 1), t[i].parent)
    BY <2>1, <2>5 DEF up
  <2>7. i = Found(t, p)
    BY DEF i
  <2> QED
    BY <2>1, <2>2, <2>6, <2>7, FoundPathStep
<1> HIDE DEF Good
<1>3. Good(2)
  BY <1>1, <1>2
<1>4. Good(3)
  BY <1>2, <1>3
<1>5. Len(path) \in {1, 2, 3}
  OBVIOUS
<1> QED
  BY <1>1, <1>3, <1>4, <1>5 DEF Good

(* Names that read the same lead to the same items.                        *)
LEMMA SameFound ==
  ASSUME NEW t, NEW a \in Seq(Name), NEW b \in Seq(Name), Len(a) = Len(b), Len(a) \in 0..3,
         \A l \in 1..Len(a) : Key(a[l]) = Key(b[l])
  PROVE  \A l \in 1..Len(a) : Found(t, Start(a, l)) = Found(t, Start(b, l))
<1>1. ASSUME NEW p, NEW x, NEW y, Key(x) = Key(y)  PROVE UniqueByName(t, p, x) = UniqueByName(t, p, y)
  BY <1>1 DEF UniqueByName
<1>2. ASSUME NEW l \in 1..Len(a)  PROVE Found(t, Start(a, l)) = Found(t, Start(b, l))
  <2> DEFINE c == Start(a, l)
             d == Start(b, l)
  <2>1. Len(c) = l /\ Len(d) = l /\ \A k \in 1..l : Key(c[k]) = Key(d[k])
    <3>1. l \in 0..Len(a) /\ l \in 0..Len(b) /\ \A k \in 1..l : k \in 1..Len(a)
      OBVIOUS
    <3>2. Len(c) = l /\ Len(d) = l /\ \A k \in 1..l : c[k] = a[k] /\ d[k] = b[k]
      BY <3>1, StartIs
    <3> QED
      BY <3>1, <3>2
  <2> HIDE DEF c, d
  <2>2. l \in {1, 2, 3} /\ Len(c) \in 0..3 /\ Len(d) \in 0..3
    BY <2>1
  <2>3. Found(t, c) = Found(t, d)
    <3>1. CASE l = 1
      BY <1>1, <2>1, <2>2, <3>1, FoundIs
    <3>2. CASE l = 2
      <4>1. UniqueByName(t, 0, c[1]) = UniqueByName(t, 0, d[1])
        BY <1>1, <2>1, <3>2
      <4>2. Key(c[2]) = Key(d[2])
        BY <2>1, <3>2
      <4> QED
        BY <1>1, <2>1, <2>2, <3>2, <4>1, <4>2, FoundIs
    <3>3. CASE l = 3
      <4>1. UniqueByName(t, 0, c[1]) = UniqueByName(t, 0, d[1])
        BY <1>1, <2>1, <3>3
      <4>2. Key(c[2]) = Key(d[2]) /\ Key(c[3]) = Key(d[3])
        BY <2>1, <3>3
      <4> QED
        BY <1>1, <2>1, <2>2, <3>3, <4>1, <4>2, FoundIs
    <3> QED
      BY <2>2, <3>1, <3>2, <3>3
  <2> QED
    BY <2>3 DEF c, d
<1> QED
  BY <1>2

(* The tree with the names that items will have.                           *)
Finals(t, rows) == [j \in DOMAIN t |-> [t[j] EXCEPT !.name = Key(FinalName(t, rows, j))]]

LEMMA FinalsIs ==
  ASSUME NEW t, NEW R, IsTree(t, R), NEW rows, NEW f, f = Finals(t, rows)
  PROVE  \A j \in DOMAIN t : f[j].kind = t[j].kind /\ f[j].parent = t[j].parent /\ f[j].name = Key(FinalName(t, rows, j))
<1>1. SUFFICES ASSUME NEW j \in DOMAIN t
               PROVE  f[j].kind = t[j].kind /\ f[j].parent = t[j].parent /\ f[j].name = Key(FinalName(t, rows, j))
  OBVIOUS
<1>2. t[j] \in Item /\ f[j] = [t[j] EXCEPT !.name = Key(FinalName(t, rows, j))]
  BY DEF Finals, IsTree
<1> QED
  BY <1>2 DEF Item

(* The path an item will have.                                             *)
LEMMA FinalOfOld ==
  ASSUME NEW t, NEW R, IsTree(t, R), NEW rows, NEW i \in DOMAIN t, NEW path, path = FinalPathOf(t, rows, i)
  PROVE  /\ path = [l \in 1..t[i].kind |-> path[l]]
         /\ path[t[i].kind] = Key(FinalName(t, rows, i))
         /\ \A l \in 1..t[i].kind - 1 : path[l] = PathOf(Finals(t, rows), t[i].parent)[l]
<1> DEFINE f == Finals(t, rows)
           p == t[i].parent
<1>1. path = PathOf(f, i)
  BY DEF FinalPathOf, Finals
<1>2. \A j \in DOMAIN t : f[j].kind = t[j].kind /\ f[j].parent = t[j].parent /\ f[j].name = Key(FinalName(t, rows, j))
  BY FinalsIs
<1>3. t[i].kind \in 1..4 /\ (t[i].kind # 1 => p \in DOMAIN t /\ t[i].kind = t[p].kind + 1)
  BY ParentIs
<1>4. t[i].kind # 1 => t[p].kind \in 1..4
  BY <1>3, ParentIs
<1> HIDE DEF f, p
<1>5. f[i].kind \in 1..4 /\ f[i].parent = p /\ (f[i].kind # 1 => f[p].kind = f[i].kind - 1)
  BY <1>2, <1>3, <1>4 DEF p
<1>6. /\ DOMAIN PathOf(f, i) = 1..f[i].kind /\ PathOf(f, i)[f[i].kind] = f[i].name
      /\ \A l \in 1..f[i].kind - 1 : PathOf(f, i)[l] = PathOf(f, p)[l]
  BY ONLY <1>5, PathIs
<1>7. PathOf(f, i) = [l \in 1..f[i].kind |-> PathOf(f, i)[l]]
  BY DEF PathOf
<1> QED
  BY <1>1, <1>2, <1>6, <1>7 DEF f, p

IsPath(path, n) == path = [l \in 1..n |-> path[l]]

FinalAt(t, rows, path, l) ==
  LET there == Found(t, Start(path, l))
  IN Key(IF there = None THEN path[l] ELSE FinalName(t, rows, there))

LEMMA FinalOfNew ==
  ASSUME NEW t, NEW m, NEW R, NEW types, NEW rows, GridFits(t, m, R, t, types, rows),
         NEW r \in NewRows(rows), NEW path, path = FinalPath(t, rows, rows[r])
  PROVE  /\ IsPath(path, rows[r].kind)
         /\ path[rows[r].kind] = Key(rows[r].name)
         /\ \A l \in 1..rows[r].kind - 1 : path[l] = FinalAt(t, rows, rows[r].path, l)
<1> DEFINE x == rows[r]
           k == x.kind
<1>1. r \in DOMAIN rows /\ x.id = None /\ rows \in Seq(GridRow)
  BY DEF NewRows, Existing, GridFits
<1>2. k \in {1, 2, 3, 4} /\ x.path \in Seq(Name) /\ Len(x.path) = k - 1 /\ x.name \in Name
  BY <1>1, RowIs, AcceptedRow
<1>3. /\ DOMAIN FullPath(x) = 1..k /\ FullPath(x)[k] = x.name
      /\ \A l \in 1..k - 1 : FullPath(x)[l] = x.path[l]
  BY <1>2 DEF FullPath
<1>4. path = [l \in DOMAIN FullPath(x) |->
                LET there == IF l > Len(x.path) THEN None ELSE Found(t, Start(x.path, l))
                IN Key(IF there = None THEN FullPath(x)[l] ELSE FinalName(t, rows, there))]
  BY <1>1 DEF FinalPath, Existing, Start
<1> HIDE DEF x
<1>5. IsPath(path, k)
  BY <1>3, <1>4 DEF IsPath
<1>6. path[k] = Key(x.name)
  BY <1>2, <1>3, <1>4
<1>7. ASSUME NEW l \in 1..k - 1  PROVE path[l] = FinalAt(t, rows, x.path, l)
  BY <1>2, <1>3, <1>4, <1>7 DEF FinalAt
<1> QED
  BY <1>5, <1>6, <1>7 DEF x

(* The ancestors of a new row that are there are those its path leads to.  *)
LEMMA FinalAbove ==
  ASSUME NEW t, NEW m \in Nat, NEW R, DOMAIN t \subseteq 1..m, NEW types, NEW rows, GridFits(t, m, R, t, types, rows),
         NEW r \in NewRows(rows), Found(t, rows[r].path) # None
  PROVE  \A l \in 1..rows[r].kind - 1 :
           FinalPath(t, rows, rows[r])[l] = PathOf(Finals(t, rows), Found(t, rows[r].path))[l]
<1> DEFINE f == Finals(t, rows)
           p == Found(t, rows[r].path)
           path == rows[r].path
<1>1. IsTree(t, types)
  BY DEF GridFits
<1>2. \A j \in DOMAIN t : f[j].kind = t[j].kind /\ f[j].parent = t[j].parent /\ f[j].name = Key(FinalName(t, rows, j))
  BY <1>1, FinalsIs
<1>3. r \in DOMAIN rows /\ rows \in Seq(GridRow)
  BY DEF NewRows, GridFits
<1>4. path \in Seq(Name) /\ Len(path) = rows[r].kind - 1 /\ Len(path) \in 0..3
  BY <1>3, RowIs, AcceptedRow
<1>5. SUFFICES ASSUME NEW l \in 1..rows[r].kind - 1
               PROVE  FinalPath(t, rows, rows[r])[l] = PathOf(f, p)[l]
  OBVIOUS
<1>6. Len(path) \in 1..3 /\ l \in 1..Len(path)
  BY <1>4, <1>5
<1> HIDE DEF f, p
<1>7. FoundAlong(t, f, path, p)
  <2>1. \A j \in DOMAIN t : f[j].kind = t[j].kind /\ f[j].parent = t[j].parent
    BY <1>2
  <2> HIDE DEF path
  <2>2. /\ IsTree(t, types) /\ m \in Nat /\ DOMAIN t \subseteq 1..m /\ path \in Seq(Name) /\ Len(path) \in 1..3
        /\ Found(t, path) # None
    BY <1>1, <1>4, <1>6 DEF path
  <2>3. FoundAlong(t, f, path, Found(t, path))
    BY ONLY <2>1, <2>2, FoundPath
  <2> QED
    BY <2>3 DEF p, path
<1> DEFINE there == Found(t, Start(path, l))
<1>8. there \in DOMAIN t /\ PathOf(f, p)[l] = f[there].name
  BY <1>6, <1>7 DEF FoundAlong
<1>9. there # None
  BY <1>8, NameAssumption
<1>10. FinalPath(t, rows, rows[r])[l] = Key(FinalName(t, rows, there))
  BY <1>5, <1>9, FinalOfNew DEF FinalAt
<1> QED
  BY <1>2, <1>8, <1>10

(* Two siblings that come to have the same name would have had the same    *)
(* path, which no accepted grid has.                                       *)
LEMMA NamesBecome ==
  ASSUME NEW t, NEW m, NEW R, NEW rows, NEW u, GridWritten(t, m, R, t, rows, u), NEW i \in DOMAIN t
  PROVE  u[i].name = FinalName(t, rows, i) /\ u[i].parent = t[i].parent
<1> DEFINE S == {r \in DOMAIN rows : rows[r].id = i}
<1>1. u[i].parent = t[i].parent
  BY DEF GridWritten, SameButNamed
<1>2. CASE S = {}
  <2>1. u[i] = t[i]
    BY <1>2 DEF GridWritten
  <2> QED
    BY <1>1, <1>2, <2>1 DEF FinalName
<1>3. CASE S # {}
  <2>1. PICK r \in S : r = CHOOSE x \in S : TRUE
    BY <1>3
  <2>2. u[rows[r].id].name = rows[r].name /\ rows[r].id = i
    BY <2>1 DEF GridWritten
  <2>3. FinalName(t, rows, i) = rows[r].name
    BY <1>3, <2>1 DEF FinalName
  <2> QED
    BY <1>1, <2>2, <2>3
<1> QED
  BY <1>2, <1>3

LEMMA OldApart ==
  ASSUME NEW t, NEW m, NEW R, NEW types, NEW rows, GridFits(t, m, R, t, types, rows),
         NEW i \in DOMAIN t, NEW j \in DOMAIN t, i # j, t[i].parent = t[j].parent,
         Key(FinalName(t, rows, i)) = Key(FinalName(t, rows, j)), NEW r \in DOMAIN rows, rows[r].id = i
  PROVE  FALSE
<1>1. IsTree(t, types) /\ NoClash(t, rows) /\ DOMAIN t \subseteq 1..m
  BY DEF GridFits, GridAccepted
<1>2. t[i].kind = t[j].kind
  BY <1>1, ParentIs
<1> DEFINE a == FinalPathOf(t, rows, i)
           b == FinalPathOf(t, rows, j)
<1>3. a = b
  <2>1. /\ a = [l \in 1..t[i].kind |-> a[l]] /\ a[t[i].kind] = Key(FinalName(t, rows, i))
        /\ \A l \in 1..t[i].kind - 1 : a[l] = PathOf(Finals(t, rows), t[i].parent)[l]
    BY <1>1, FinalOfOld
  <2>2. /\ b = [l \in 1..t[j].kind |-> b[l]] /\ b[t[j].kind] = Key(FinalName(t, rows, j))
        /\ \A l \in 1..t[j].kind - 1 : b[l] = PathOf(Finals(t, rows), t[j].parent)[l]
    BY <1>1, FinalOfOld
  <2>3. t[i].kind \in {1, 2, 3, 4}
    BY <1>1, ParentIs
  <2> HIDE DEF a, b
  <2>4. ASSUME NEW l \in 1..t[i].kind  PROVE a[l] = b[l]
    <3>1. CASE l = t[i].kind
      BY <1>2, <2>1, <2>2, <3>1
    <3>2. CASE l # t[i].kind
      <4>1. l \in 1..t[i].kind - 1
        BY <2>3, <2>4, <3>2
      <4> QED
        BY <1>2, <2>1, <2>2, <4>1
    <3> QED
      BY <3>1, <3>2
  <2> QED
    BY <1>2, <2>1, <2>2, <2>4
<1>4. rows[r].id # None
  BY <1>1, NameAssumption
<1>5. FinalPath(t, rows, rows[r]) = a
  BY <1>4 DEF FinalPath, Existing
<1> HIDE DEF a, b
<1>6. CASE \E s \in DOMAIN rows : rows[s].id = j
  <2>1. PICK s \in DOMAIN rows : rows[s].id = j
    BY <1>6
  <2>2. rows[s].id # None /\ s # r
    BY <1>1, <2>1, NameAssumption
  <2>3. FinalPath(t, rows, rows[s]) = b
    BY <2>1, <2>2 DEF FinalPath, Existing, b
  <2> QED
    BY <1>1, <1>3, <1>5, <2>2, <2>3 DEF NoClash
<1>7. CASE \A s \in DOMAIN rows : rows[s].id # j
  <2>1. b # FinalPath(t, rows, rows[r])
    BY <1>1, <1>7 DEF NoClash, NoClashOutside, b
  <2> QED
    BY <1>3, <1>5, <2>1
<1> QED
  BY <1>6, <1>7

(* A new row next to an item, and two new rows next to each other.         *)
LEMMA NewFromOldApart ==
  ASSUME NEW t, NEW m \in Nat, NEW R, DOMAIN t \subseteq 1..m, NEW types, NEW rows, GridFits(t, m, R, t, types, rows),
         NEW r \in NewRows(rows), NEW j \in DOMAIN t, t[j].parent = Found(t, rows[r].path), t[j].kind = rows[r].kind,
         Key(FinalName(t, rows, j)) = Key(rows[r].name)
  PROVE  FALSE
<1>1. IsTree(t, types) /\ NoClash(t, rows) /\ rows \in Seq(GridRow) /\ r \in DOMAIN rows /\ rows[r].id = None
  BY DEF GridFits, GridAccepted, NewRows, Existing
<1>2. t[j].parent # None
  <2>1. t[j] \in Item
    BY <1>1 DEF IsTree
  <2> QED
    BY <2>1, ItemFields, NameAssumption
<1>3. Key(t[j].name) # Key(rows[r].name)
  <2>1. NewNameFree(t, rows[r])
    BY <1>1, AcceptedRow
  <2> QED
    BY <1>2, <2>1 DEF NewNameFree, NameFree, Children
<1>4. PICK s \in DOMAIN rows : rows[s].id = j
  <2>1. SUFFICES ASSUME \A s \in DOMAIN rows : rows[s].id # j  PROVE FALSE
    OBVIOUS
  <2>2. {s \in DOMAIN rows : rows[s].id = j} = {}
    BY <2>1
  <2>3. FinalName(t, rows, j) = t[j].name
    BY <2>2 DEF FinalName
  <2> QED
    BY <1>3, <2>3
<1> DEFINE a == FinalPath(t, rows, rows[r])
           b == FinalPathOf(t, rows, j)
<1>5. rows[s].id # None /\ s # r
  BY <1>1, <1>4, NameAssumption
<1>6. FinalPath(t, rows, rows[s]) = b
  BY <1>4, <1>5 DEF FinalPath, Existing
<1>7. a = b
  <2>0. GridFits(t, m, R, t, types, rows) /\ r \in NewRows(rows) /\ a = FinalPath(t, rows, rows[r])
    OBVIOUS
  <2>1. IsPath(a, rows[r].kind) /\ a[rows[r].kind] = Key(rows[r].name)
    <3> HIDE DEF a
    <3> QED
      BY ONLY <2>0, FinalOfNew
  <2>2. \A l \in 1..rows[r].kind - 1 : a[l] = PathOf(Finals(t, rows), t[j].parent)[l]
    BY <1>2, FinalAbove
  <2>3. /\ b = [l \in 1..t[j].kind |-> b[l]] /\ b[t[j].kind] = Key(FinalName(t, rows, j))
        /\ \A l \in 1..t[j].kind - 1 : b[l] = PathOf(Finals(t, rows), t[j].parent)[l]
    BY <1>1, FinalOfOld
  <2>4. rows[r].kind \in {1, 2, 3, 4}
    BY <1>1, RowIs
  <2> HIDE DEF a, b
  <2>5. ASSUME NEW l \in 1..rows[r].kind  PROVE a[l] = b[l]
    <3>1. CASE l = rows[r].kind
      BY <2>1, <2>3, <3>1
    <3>2. CASE l # rows[r].kind
      <4>1. l \in 1..rows[r].kind - 1
        BY <2>4, <2>5, <3>2
      <4> QED
        BY <2>2, <2>3, <4>1
    <3> QED
      BY <3>1, <3>2
  <2> QED
    BY <2>1, <2>3, <2>5 DEF IsPath
<1> QED
  BY <1>1, <1>5, <1>6, <1>7 DEF NoClash

LEMMA NewApart ==
  ASSUME NEW t, NEW m \in Nat, NEW R, DOMAIN t \subseteq 1..m, NEW types, NEW rows, GridFits(t, m, R, t, types, rows),
         NEW r \in NewRows(rows), NEW s \in NewRows(rows), r # s, rows[r].kind = rows[s].kind,
         Key(rows[r].name) = Key(rows[s].name),
         \/ Found(t, rows[r].path) # None /\ Found(t, rows[r].path) = Found(t, rows[s].path)
         \/ Keys(rows[r].path) = Keys(rows[s].path)
  PROVE  FALSE
<1>1. NoClash(t, rows) /\ rows \in Seq(GridRow) /\ r \in DOMAIN rows /\ s \in DOMAIN rows
  BY DEF GridFits, GridAccepted, NewRows
<1> DEFINE a == FinalPath(t, rows, rows[r])
           b == FinalPath(t, rows, rows[s])
           p == rows[r].path
           q == rows[s].path
           k == rows[r].kind
<1>2. /\ k \in {1, 2, 3, 4} /\ p \in Seq(Name) /\ q \in Seq(Name)
      /\ Len(p) = k - 1 /\ Len(q) = k - 1 /\ Len(p) \in 0..3
  BY <1>1, RowIs, AcceptedRow
<1>0. /\ GridFits(t, m, R, t, types, rows) /\ r \in NewRows(rows) /\ s \in NewRows(rows)
      /\ m \in Nat /\ DOMAIN t \subseteq 1..m
      /\ a = FinalPath(t, rows, rows[r]) /\ b = FinalPath(t, rows, rows[s])
  OBVIOUS
<1> HIDE DEF a, b
<1>3. /\ IsPath(a, rows[r].kind) /\ a[rows[r].kind] = Key(rows[r].name)
      /\ \A l \in 1..rows[r].kind - 1 : a[l] = FinalAt(t, rows, rows[r].path, l)
  BY ONLY <1>0, FinalOfNew
<1>7. /\ IsPath(b, rows[s].kind) /\ b[rows[s].kind] = Key(rows[s].name)
      /\ \A l \in 1..rows[s].kind - 1 : b[l] = FinalAt(t, rows, rows[s].path, l)
  BY ONLY <1>0, FinalOfNew
<1>4. \A l \in 1..k - 1 : a[l] = b[l]
  <2>1. CASE Found(t, p) # None /\ Found(t, p) = Found(t, q)
    <3>1. /\ GridFits(t, m, R, t, types, rows) /\ m \in Nat /\ DOMAIN t \subseteq 1..m
          /\ r \in NewRows(rows) /\ s \in NewRows(rows)
          /\ Found(t, rows[r].path) # None /\ Found(t, rows[s].path) # None
      BY <2>1
    <3>2. ASSUME NEW x \in NewRows(rows), Found(t, rows[x].path) # None
          PROVE  \A l \in 1..rows[x].kind - 1 : FinalPath(t, rows, rows[x])[l] = PathOf(Finals(t, rows), Found(t, rows[x].path))[l]
      BY ONLY <3>1, <3>2, FinalAbove, SMTT(60)
    <3> QED
      BY <1>0, <2>1, <3>1, <3>2
  <2>2. CASE Keys(p) = Keys(q)
    <3>1. \A l \in 1..k - 1 : Key(p[l]) = Key(q[l])
      <4>1. DOMAIN p = 1..k - 1 /\ DOMAIN q = 1..k - 1
        BY <1>2
      <4>2. \A l \in 1..k - 1 : Keys(p)[l] = Key(p[l]) /\ Keys(q)[l] = Key(q[l])
        BY <4>1 DEF Keys
      <4> QED
        BY <2>2, <4>2
    <3> HIDE DEF p, q
    <3>2. \A l \in 1..k - 1 : Found(t, Start(p, l)) = Found(t, Start(q, l))
      <4>1. /\ p \in Seq(Name) /\ q \in Seq(Name) /\ Len(p) = Len(q) /\ Len(p) \in 0..3 /\ Len(p) = k - 1
            /\ \A l \in 1..Len(p) : Key(p[l]) = Key(q[l])
        BY <1>2, <3>1
      <4>2. \A l \in 1..Len(p) : Found(t, Start(p, l)) = Found(t, Start(q, l))
        BY ONLY <4>1, SameFound
      <4> QED
        BY <4>1, <4>2
    <3>3. \A l \in 1..k - 1 : a[l] = FinalAt(t, rows, p, l)
      BY <1>3 DEF p
    <3>4. \A l \in 1..k - 1 : b[l] = FinalAt(t, rows, q, l)
      BY <1>7 DEF q
    <3> HIDE DEF k
    <3> QED
      BY <3>1, <3>2, <3>3, <3>4 DEF FinalAt
  <2> QED
    BY <2>1, <2>2
<1> HIDE DEF k
<1>5. \A l \in 1..k : a[l] = b[l]
  <2>1. SUFFICES ASSUME NEW l \in 1..k  PROVE a[l] = b[l]
    OBVIOUS
  <2>2. l = k \/ l \in 1..k - 1
    BY <1>2
  <2> QED
    BY <1>3, <1>7, <1>4, <2>2 DEF k
<1>6. a = b
  BY <1>3, <1>7, <1>5 DEF k, IsPath
<1> QED
  BY <1>1, <1>6 DEF NoClash, a, b

LEMMA GridNamesApart ==
  ASSUME NEW t, NEW m \in Nat, NEW R, DOMAIN t \subseteq 1..m, NEW types, NEW rows, GridFits(t, m, R, t, types, rows),
         NEW u, GridWritten(t, m, R, t, rows, u),
         NEW i \in DOMAIN u, NEW j \in DOMAIN u, i # j, u[i].parent = u[j].parent, Key(u[i].name) = Key(u[j].name)
  PROVE  {i, j} \subseteq DOMAIN t /\ Key(t[i].name) = Key(t[j].name)
<1>1. IsTree(t, types) /\ rows \in Seq(GridRow)
  BY DEF GridFits
<1>2. \A k \in DOMAIN u : k \in DOMAIN t \/ \E r \in NewRows(rows) : k = IdOfNew(rows, m, r)
  BY DEF GridWritten
<1>3. \A r \in NewRows(rows) : /\ IdOfNew(rows, m, r) \notin DOMAIN t /\ IdOfNew(rows, m, r) # 0
                               /\ r \in DOMAIN rows /\ rows[r].kind \in 1..4
  <2>1. TAKE r \in NewRows(rows)
  <2>2. IdOfNew(rows, m, r) \in m + 1 .. m + Cardinality(NewRows(rows)) /\ Cardinality(NewRows(rows)) \in Nat
    BY <1>1, NewIds
  <2>3. r \in DOMAIN rows
    BY DEF NewRows
  <2>4. rows[r].kind \in {1, 2, 3, 4}
    BY <1>1, <2>3, RowIs
  <2> QED
    BY <2>2, <2>3, <2>4
<1>4. \A k \in DOMAIN t : u[k].name = FinalName(t, rows, k) /\ u[k].parent = t[k].parent
  BY NamesBecome
<1>5. \A r \in NewRows(rows) : LET x == u[IdOfNew(rows, m, r)]
                               IN x.parent = ParentOfNew(t, rows, m, rows[r]) /\ x.name = rows[r].name
  BY DEF GridWritten
<1>6. CASE i \in DOMAIN t /\ j \in DOMAIN t
  <2>1. \A r \in DOMAIN rows : rows[r].id # i
    BY <1>4, <1>6, OldApart
  <2>2. \A r \in DOMAIN rows : rows[r].id # j
    BY <1>4, <1>6, OldApart
  <2> QED
    BY <1>6, <2>1, <2>2 DEF GridWritten
<1>7. ASSUME NEW r \in NewRows(rows), NEW k \in DOMAIN t, u[IdOfNew(rows, m, r)].parent = u[k].parent,
             Key(u[IdOfNew(rows, m, r)].name) = Key(u[k].name)
      PROVE  FALSE
  <2> DEFINE p == ParentOfNew(t, rows, m, rows[r])
  <2>1. p = t[k].parent /\ Key(FinalName(t, rows, k)) = Key(rows[r].name)
    BY <1>4, <1>5, <1>7
  <2>2. \/ t[k].kind = 1 /\ p = 0 /\ p \notin DOMAIN t
        \/ p \in DOMAIN t /\ t[k].kind = t[p].kind + 1
    BY <1>1, <2>1, ParentIs
  <2>3. t[k].kind = rows[r].kind /\ p = Found(t, rows[r].path)
    <3>1. CASE rows[r].kind = 1 /\ p = 0
      <4>1. Len(rows[r].path) = 0
        BY <1>3, <3>1, AcceptedRow
      <4>2. Found(t, rows[r].path) = 0
        BY <4>1, FoundIs
      <4>3. p \notin DOMAIN t
        BY <3>1
      <4> QED
        BY <2>2, <3>1, <4>2, <4>3
    <3>2. CASE rows[r].kind # 1 /\ p = Found(t, rows[r].path) /\ p \in DOMAIN t /\ t[p].kind = rows[r].kind - 1
      BY <1>3, <2>2, <3>2
    <3>3. CASE \E q \in NewRows(rows) : p = IdOfNew(rows, m, q)
      BY <1>3, <2>2, <3>3
    <3> QED
      BY <3>1, <3>2, <3>3, ParentOfNewIs
  <2> QED
    BY <2>1, <2>3, NewFromOldApart
<1>8. ASSUME NEW r \in NewRows(rows), NEW s \in NewRows(rows), r # s,
             u[IdOfNew(rows, m, r)].parent = u[IdOfNew(rows, m, s)].parent,
             Key(rows[r].name) = Key(rows[s].name)
      PROVE  FALSE
  <2> DEFINE p == ParentOfNew(t, rows, m, rows[r])
  <2>1. p = ParentOfNew(t, rows, m, rows[s])
    BY <1>5, <1>8
  <2> DEFINE Under(x) ==
        \/ rows[x].kind = 1 /\ p = 0
        \/ rows[x].kind # 1 /\ p = Found(t, rows[x].path) /\ p \in DOMAIN t /\ t[p].kind = rows[x].kind - 1
        \/ /\ rows[x].kind # 1
           /\ \E q \in NewRows(rows) : /\ rows[q].kind = rows[x].kind - 1 /\ p = IdOfNew(rows, m, q)
                                       /\ Keys(FullPath(rows[q])) = Keys(rows[x].path)
  <2>2. Under(r) /\ Under(s)
    BY <2>1, ParentOfNewIs
  <2> HIDE DEF p
  <2>3. CASE p = 0
    <3>1. rows[r].kind = 1 /\ rows[s].kind = 1
      BY <1>1, <1>3, <2>2, <2>3, KindIs DEF IsTree
    <3>2. Len(rows[r].path) = 0 /\ Len(rows[s].path) = 0
      BY <1>3, <3>1, AcceptedRow
    <3>3. Found(t, rows[r].path) = 0 /\ Found(t, rows[s].path) = 0 /\ 0 # None
      BY <3>2, FoundIs, NameAssumption
    <3> QED
      BY <1>8, <3>1, <3>3, NewApart
  <2>4. CASE p \in DOMAIN t
    <3>1. p = Found(t, rows[r].path) /\ p = Found(t, rows[s].path) /\ rows[r].kind = rows[s].kind /\ p # None
      BY <1>1, <1>3, <2>2, <2>4, NameAssumption, KindIs DEF IsTree
    <3>2. Found(t, rows[r].path) # None /\ Found(t, rows[r].path) = Found(t, rows[s].path) /\ rows[r].kind = rows[s].kind
      BY <3>1
    <3> QED
      BY <1>8, <3>2, NewApart
  <2>5. CASE p # 0 /\ p \notin DOMAIN t
    <3>1. PICK q \in NewRows(rows) : rows[q].kind = rows[r].kind - 1 /\ p = IdOfNew(rows, m, q)
                                     /\ Keys(FullPath(rows[q])) = Keys(rows[r].path)
      BY <2>2, <2>5
    <3>2. PICK o \in NewRows(rows) : rows[o].kind = rows[s].kind - 1 /\ p = IdOfNew(rows, m, o)
                                     /\ Keys(FullPath(rows[o])) = Keys(rows[s].path)
      BY <2>2, <2>5
    <3>3. q = o
      BY <1>1, <3>1, <3>2, NewIds
    <3>4. rows[r].kind = rows[s].kind /\ Keys(rows[r].path) = Keys(rows[s].path)
      BY <1>3, <3>1, <3>2, <3>3
    <3> QED
      BY <1>8, <3>4, NewApart
  <2> QED
    BY <2>3, <2>4, <2>5
<1> QED
  BY <1>2, <1>5, <1>6, <1>7, <1>8

(* A new item is where its row says: below the items, or the other new     *)
(* ones, that are named there.                                             *)
Leads(v, i, path, n) ==
  DOMAIN PathOf(v, i) = 1..n /\ \A l \in 1..n : Key(PathOf(v, i)[l]) = Key(path[l])

LEMMA NewPathStep ==
  ASSUME NEW t, NEW m \in Nat, NEW R, DOMAIN t \subseteq 1..m, NEW types, NEW rows, GridFits(t, m, R, t, types, rows),
         NEW u, GridWritten(t, m, R, t, rows, u),
         NEW v, \A i \in DOMAIN t : v[i].kind = t[i].kind /\ v[i].parent = t[i].parent /\ v[i].name = t[i].name,
         \A i \in DOMAIN u \ DOMAIN t : v[i] = u[i],
         NEW r \in NewRows(rows),
         \A q \in NewRows(rows) : rows[q].kind = rows[r].kind - 1
                                  => Leads(v, IdOfNew(rows, m, q), FullPath(rows[q]), rows[q].kind)
  PROVE  Leads(v, IdOfNew(rows, m, r), FullPath(rows[r]), rows[r].kind)
<1> DEFINE i == IdOfNew(rows, m, r)
           p == ParentOfNew(t, rows, m, rows[r])
           k == rows[r].kind
           path == rows[r].path
           full == FullPath(rows[r])
<1>1. IsTree(t, types) /\ rows \in Seq(GridRow) /\ \A q \in NewRows(rows) : q \in DOMAIN rows
  BY DEF GridFits, NewRows
<1>2. /\ k \in {1, 2, 3, 4} /\ path \in Seq(Name) /\ Len(path) = k - 1 /\ Len(path) \in 0..3 /\ rows[r].name \in Name
  BY <1>1, RowIs, AcceptedRow
<1>3. full[k] = rows[r].name /\ \A l \in 1..k - 1 : full[l] = path[l]
  BY <1>2 DEF FullPath
<1>4. \A q \in NewRows(rows) : IdOfNew(rows, m, q) \notin DOMAIN t
  <2>1. TAKE q \in NewRows(rows)
  <2>2. IdOfNew(rows, m, q) \in m + 1 .. m + Cardinality(NewRows(rows)) /\ Cardinality(NewRows(rows)) \in Nat
    BY <1>1, NewIds
  <2> QED
    BY <2>2
<1>5. \A q \in NewRows(rows) :
        /\ v[IdOfNew(rows, m, q)] = u[IdOfNew(rows, m, q)] /\ u[IdOfNew(rows, m, q)].kind = rows[q].kind
        /\ u[IdOfNew(rows, m, q)].parent = ParentOfNew(t, rows, m, rows[q])
        /\ u[IdOfNew(rows, m, q)].name = rows[q].name
  BY <1>4 DEF GridWritten
<1> HIDE DEF full, path, i, p
<1>6. v[i].kind = k /\ v[i].parent = p /\ v[i].name = rows[r].name
  BY <1>5 DEF i, p
<1>7. \/ k = 1 /\ p = 0
      \/ k # 1 /\ p = Found(t, path) /\ p \in DOMAIN t /\ t[p].kind = k - 1
      \/ k # 1 /\ \E q \in NewRows(rows) : /\ rows[q].kind = k - 1 /\ p = IdOfNew(rows, m, q)
                                           /\ Keys(FullPath(rows[q])) = Keys(path)
  BY ParentOfNewIs DEF path, p
<1>8. k # 1 => v[p].kind = k - 1 /\ Leads(v, p, path, k - 1)
  <2>1. CASE k # 1 /\ p = Found(t, path) /\ p \in DOMAIN t /\ t[p].kind = k - 1
    <3>1. /\ \A j \in DOMAIN t : v[j].kind = t[j].kind /\ v[j].parent = t[j].parent
          /\ IsTree(t, types) /\ m \in Nat /\ DOMAIN t \subseteq 1..m /\ path \in Seq(Name) /\ Len(path) \in 1..3
          /\ Found(t, path) # None
      BY <1>1, <1>2, <2>1, NameAssumption
    <3>2. FoundAlong(t, v, path, Found(t, path))
      BY ONLY <3>1, FoundPath
    <3>3. FoundAlong(t, v, path, p) /\ Len(path) = k - 1
      BY <1>2, <2>1, <3>2
    <3> QED
      BY <2>1, <3>3 DEF FoundAlong, Leads
  <2>2. CASE k # 1 /\ \E q \in NewRows(rows) : /\ rows[q].kind = k - 1 /\ p = IdOfNew(rows, m, q)
                                               /\ Keys(FullPath(rows[q])) = Keys(path)
    <3>1. PICK q \in NewRows(rows) : rows[q].kind = k - 1 /\ p = IdOfNew(rows, m, q) /\ Keys(FullPath(rows[q])) = Keys(path)
      BY <2>2
    <3>2. v[p].kind = k - 1 /\ Leads(v, p, FullPath(rows[q]), k - 1)
      BY <1>5, <3>1
    <3>3. \A l \in 1..k - 1 : Key(FullPath(rows[q])[l]) = Key(path[l])
      <4>1. DOMAIN path = 1..k - 1
        BY <1>2
      <4>2. DOMAIN FullPath(rows[q]) = 1..k - 1
        <5>1. rows[q].path \in Seq(Name) /\ Len(rows[q].path) = k - 1 - 1 /\ rows[q].name \in Name
          BY <1>1, <3>1, RowIs, AcceptedRow
        <5> QED
          BY <1>2, <2>2, <5>1 DEF FullPath
      <4>3. \A l \in 1..k - 1 : Keys(FullPath(rows[q]))[l] = Key(FullPath(rows[q])[l]) /\ Keys(path)[l] = Key(path[l])
        BY <4>1, <4>2 DEF Keys
      <4> QED
        BY <3>1, <4>3
    <3> QED
      BY <3>2, <3>3 DEF Leads
  <2> QED
    BY <1>7, <2>1, <2>2
<1>9. /\ DOMAIN PathOf(v, i) = 1..k /\ PathOf(v, i)[k] = rows[r].name
      /\ \A l \in 1..k - 1 : PathOf(v, i)[l] = PathOf(v, p)[l]
  <2>1. v[i].kind \in 1..4 /\ v[i].parent = p /\ (v[i].kind # 1 => v[p].kind = v[i].kind - 1)
    BY <1>2, <1>6, <1>8
  <2>2. /\ DOMAIN PathOf(v, i) = 1..v[i].kind /\ PathOf(v, i)[v[i].kind] = v[i].name
        /\ \A l \in 1..v[i].kind - 1 : PathOf(v, i)[l] = PathOf(v, p)[l]
    BY ONLY <2>1, PathIs
  <2> QED
    BY <1>6, <2>2
<1>10. ASSUME NEW l \in 1..k  PROVE Key(PathOf(v, i)[l]) = Key(full[l])
  <2>1. CASE l = k
    BY <1>3, <1>9, <2>1
  <2>2. CASE l # k
    <3>1. l \in 1..k - 1 /\ k # 1
      BY <1>2, <2>2
    <3> QED
      BY <1>3, <1>8, <1>9, <3>1 DEF Leads
  <2> QED
    BY <2>1, <2>2
<1> QED
  BY <1>9, <1>10 DEF Leads, i, full

LEMMA NewPath ==
  ASSUME NEW t, NEW m \in Nat, NEW R, DOMAIN t \subseteq 1..m, NEW types, NEW rows, GridFits(t, m, R, t, types, rows),
         NEW u, GridWritten(t, m, R, t, rows, u),
         NEW v, \A i \in DOMAIN t : v[i].kind = t[i].kind /\ v[i].parent = t[i].parent /\ v[i].name = t[i].name,
         \A i \in DOMAIN u \ DOMAIN t : v[i] = u[i],
         NEW r \in NewRows(rows)
  PROVE  Leads(v, IdOfNew(rows, m, r), FullPath(rows[r]), rows[r].kind)
<1> DEFINE Good(k) == \A q \in NewRows(rows) : rows[q].kind = k => Leads(v, IdOfNew(rows, m, q), FullPath(rows[q]), rows[q].kind)
<1>1. \A q \in NewRows(rows) : rows[q].kind \in {1, 2, 3, 4}
  BY RowIs DEF GridFits, NewRows
<1>2. Good(0)
  BY <1>1
<1>3. ASSUME NEW k \in 1..4, Good(k - 1)  PROVE Good(k)
  <2>1. SUFFICES ASSUME NEW q \in NewRows(rows), rows[q].kind = k
                 PROVE  Leads(v, IdOfNew(rows, m, q), FullPath(rows[q]), rows[q].kind)
    OBVIOUS
  <2>2. \A n \in NewRows(rows) : rows[n].kind = rows[q].kind - 1
                               => Leads(v, IdOfNew(rows, m, n), FullPath(rows[n]), rows[n].kind)
    BY <1>3, <2>1
  <2> QED
    BY <2>2, NewPathStep
<1> HIDE DEF Good
<1>4. Good(1)
  BY <1>2, <1>3
<1>5. Good(2)
  BY <1>4, <1>3
<1>6. Good(3)
  BY <1>5, <1>3
<1>7. Good(4)
  BY <1>6, <1>3
<1> QED
  BY <1>1, <1>4, <1>5, <1>6, <1>7 DEF Good

(* The tree with the names that items had.                                 *)
Before(t, u) == [i \in DOMAIN u |-> IF i \in DOMAIN t THEN [u[i] EXCEPT !.name = t[i].name] ELSE u[i]]

LEMMA BeforeIs ==
  ASSUME NEW t, NEW m, NEW R, NEW rows, NEW u, GridWritten(t, m, R, t, rows, u), NEW v, v = Before(t, u)
  PROVE  /\ \A i \in DOMAIN t : v[i].kind = t[i].kind /\ v[i].parent = t[i].parent /\ v[i].name = t[i].name
         /\ \A i \in DOMAIN u \ DOMAIN t : v[i] = u[i]
<1>1. ASSUME NEW i \in DOMAIN t  PROVE v[i].kind = t[i].kind /\ v[i].parent = t[i].parent /\ v[i].name = t[i].name
  <2>1. i \in DOMAIN u /\ u[i] \in Item /\ u[i].kind = t[i].kind /\ u[i].parent = t[i].parent
    BY DEF GridWritten, SameButNamed
  <2>2. v[i] = [u[i] EXCEPT !.name = t[i].name]
    BY <2>1 DEF Before
  <2> QED
    BY <2>1, <2>2 DEF Item
<1> QED
  BY <1>1 DEF Before

LEMMA GridStep ==
  ASSUME BacklogInv, Next, NEW r \in Request, At(r, "grid", "valid"), job[r].base = tree, pc'[r] = "done"
  PROVE  LET rows == job[r].rows
             named == [i \in DOMAIN tree' |-> IF i \in DOMAIN tree THEN [tree'[i] EXCEPT !.name = tree[i].name] ELSE tree'[i]]
             touched == {rows[n].id : n \in DOMAIN rows}
         IN /\ \A n \in DOMAIN rows :
                 IF rows[n].id # None THEN tree'[rows[n].id].name = rows[n].name
                 ELSE \E i \in DOMAIN tree' \ DOMAIN tree :
                        tree'[i].name = rows[n].name /\ Keys(PathOf(named, i)) = Keys(Append(rows[n].path, rows[n].name))
            /\ \A i \in DOMAIN tree \ touched : tree'[i] = tree[i]
            /\ \A i, j \in DOMAIN tree' :
                 i # j /\ tree'[i].parent = tree'[j].parent /\ Key(tree'[i].name) = Key(tree'[j].name)
                 => {i, j} \subseteq DOMAIN tree /\ Key(tree[i].name) = Key(tree[j].name)
<1> DEFINE rows == job[r].rows
           types == job[r].types
           u == tree'
           v == Before(tree, u)
<1>1. PICK q \in Request : Step(q)
  BY DEF Next
<1>2. pc[r] = "valid" /\ job[r].op = "grid"
  BY DEF At
<1>3. Create(r) \/ Reorder(r) \/ Duplicate(r) \/ CommitGrid(r) \/ CommitImport(r) \/ Written(r) \/ Fill(r)
  BY <1>1, <1>2, Finishes
<1>4. CommitGrid(r)
  BY <1>2, <1>3 DEF Create, Reorder, Duplicate, CommitImport, Written, Fill, At
<1>5. GridFits(tree, made, roles, tree, types, rows)
  BY <1>2 DEF BacklogInv, Ready, GridReady
<1>6. CanCommitGrid(tree, tree, rows) /\ u = GridCommitted(tree, tree, types, rows, made)
  BY <1>4 DEF CommitGrid
<1>7. made \in Nat /\ IsTree(tree, roles) /\ DOMAIN tree \subseteq 1..made
  BY GroundHere
<1> HIDE DEF rows, types, v
<1>8. GridWritten(tree, made, roles, tree, rows, u)
  BY <1>5, <1>6, <1>7, GridWrittenOK
<1>9. /\ \A i \in DOMAIN tree : v[i].kind = tree[i].kind /\ v[i].parent = tree[i].parent /\ v[i].name = tree[i].name
      /\ \A i \in DOMAIN u \ DOMAIN tree : v[i] = u[i]
  BY <1>8, BeforeIs DEF v
<1>10. ASSUME NEW n \in DOMAIN rows
       PROVE  IF rows[n].id # None THEN u[rows[n].id].name = rows[n].name
              ELSE \E i \in DOMAIN u \ DOMAIN tree :
                     u[i].name = rows[n].name /\ Keys(PathOf(v, i)) = Keys(Append(rows[n].path, rows[n].name))
  <2>1. CASE rows[n].id # None
    <3>1. rows[n].id \in DOMAIN tree
      BY <1>5, <2>1, AcceptedRow
    <3> QED
      BY <1>8, <2>1, <3>1 DEF GridWritten
  <2>2. CASE rows[n].id = None
    <3> DEFINE i == IdOfNew(rows, made, n)
    <3>1. n \in NewRows(rows) /\ rows \in Seq(GridRow)
      BY <1>5, <2>2 DEF NewRows, Existing, GridFits
    <3>2. i \in made + 1 .. made + Cardinality(NewRows(rows)) /\ Cardinality(NewRows(rows)) \in Nat
      BY <1>7, <3>1, NewIds
    <3>3. i \in DOMAIN u \ DOMAIN tree /\ u[i].name = rows[n].name
      BY <1>7, <1>8, <3>1, <3>2 DEF GridWritten
    <3>4. Leads(v, i, FullPath(rows[n]), rows[n].kind)
      BY <1>5, <1>7, <1>8, <1>9, <3>1, NewPath
    <3>5. DOMAIN FullPath(rows[n]) = 1..rows[n].kind
      <4>1. rows[n].path \in Seq(Name) /\ Len(rows[n].path) = rows[n].kind - 1 /\ rows[n].kind \in {1, 2, 3, 4} /\ rows[n].name \in Name
        BY <1>5, <3>1, RowIs, AcceptedRow
      <4> QED
        BY <4>1 DEF FullPath
    <3> HIDE DEF i
    <3>6. Keys(PathOf(v, i)) = Keys(FullPath(rows[n]))
      BY <3>4, <3>5 DEF Leads, Keys
    <3> QED
      BY <2>2, <3>3, <3>6 DEF FullPath
  <2> QED
    BY <2>1, <2>2
<1>11. \A i \in DOMAIN tree \ {rows[n].id : n \in DOMAIN rows} : u[i] = tree[i]
  BY <1>8 DEF GridWritten
<1>12. \A i, j \in DOMAIN u : i # j /\ u[i].parent = u[j].parent /\ Key(u[i].name) = Key(u[j].name)
                              => {i, j} \subseteq DOMAIN tree /\ Key(tree[i].name) = Key(tree[j].name)
  BY <1>5, <1>7, <1>8, GridNamesApart
<1> QED
  BY <1>10, <1>11, <1>12 DEF rows, v, Before

(* A grid that commits to the tree it was validated against does what its  *)
(* rows say, and nothing else, and gives no two siblings one name          *)
(* (lib/backlogGrid.ts).                                                   *)
THEOREM BacklogGrids == Spec => GridAsAsked
<1>1. BacklogInv /\ [Next]_vars =>
     [\A r \in Request : At(r, "grid", "valid") /\ job[r].base = tree /\ pc'[r] = "done" =>
         LET rows == job[r].rows
             named == [i \in DOMAIN tree' |-> IF i \in DOMAIN tree THEN [tree'[i] EXCEPT !.name = tree[i].name] ELSE tree'[i]]
             touched == {rows[n].id : n \in DOMAIN rows}
         IN /\ \A n \in DOMAIN rows :
                 IF rows[n].id # None THEN tree'[rows[n].id].name = rows[n].name
                 ELSE \E i \in DOMAIN tree' \ DOMAIN tree :
                        tree'[i].name = rows[n].name /\ Keys(PathOf(named, i)) = Keys(Append(rows[n].path, rows[n].name))
            /\ \A i \in DOMAIN tree \ touched : tree'[i] = tree[i]
            /\ \A i, j \in DOMAIN tree' :
                 i # j /\ tree'[i].parent = tree'[j].parent /\ Key(tree'[i].name) = Key(tree'[j].name)
                 => {i, j} \subseteq DOMAIN tree /\ Key(tree[i].name) = Key(tree[j].name)]_vars
  BY GridStep
<1> QED
  BY <1>1, BacklogAlways, PTL DEF Spec, GridAsAsked


----------------------------------------------------------------------------
(***************************************************************************)
(* Scope documents: rows and files belong together, for any number of      *)
(* clients, documents, formats and time zones.                             *)
(***************************************************************************)

(* Ids are given in order, and a request holds what its handler needs.     *)
Work == [project : ProjectId, format : Format, zone : Zone] \cup [doc : Id] \cup {Nothing}

Held ==
  /\ \E n \in Nat : Asked = 1 .. n
  /\ work \in [Client -> Work]
  /\ \A c \in Client :
       /\ phase[c] = "rendering" => work[c] \in [project : ProjectId, format : Format, zone : Zone]
       /\ phase[c] \in {"written", "found", "unlinked"} => work[c] \in [doc : Id] /\ Doc(c) \in Asked

(* A document that is being generated is not listed yet, nobody else holds *)
(* it, and it has its file like those that are.                            *)
BeingWritten ==
  \A c \in Client : phase[c] = "written" =>
    /\ Doc(c) \notin listed
    /\ \A d \in Client \ {c} : phase[d] \in {"written", "found", "unlinked"} => Doc(d) # Doc(c)
    /\ HasFile(Doc(c))

(* A file has the name of the document that wrote it, and an unlinked      *)
(* document has none.                                                      *)
Named ==
  /\ \A n \in DOMAIN files : n = NameOf(files[n])
  /\ \A c \in Client : phase[c] = "unlinked" => \A n \in DOMAIN files : files[n] # Doc(c)

DocumentsInv == DocumentsTyped /\ Held /\ BeingWritten /\ Named /\ ListedHaveFiles /\ NoOrphans
----------------------------------------------------------------------------
(* Two documents with one name asked for the same at the same minute.      *)
LEMMA NamesApart ==
  ASSUME DocumentsTyped, NEW i \in Asked, NEW j \in Asked, NameOf(i) = NameOf(j)
  PROVE  asked[i] = asked[j]
<1>1. asked[i] \in Order /\ asked[j] \in Order
  BY DEF DocumentsTyped
<1>2. QED
  BY <1>1 DEF NameOf, FileName, Order

(* A document has its file still, if nothing has happened to it, or a      *)
(* request for the same has written it, or has been removed.               *)
LEMMA FileStays ==
  ASSUME DocumentsTyped, NEW i \in Asked, HasFile(i),
         Asked \subseteq Asked', \A j \in Asked : asked'[j] = asked[j], begun \subseteq begun',
         LET file == FileOf(NameOf(i))'
         IN  \/ file = FileOf(NameOf(i))
             \/ file # Nothing /\ file \in Asked' /\ asked'[file] = asked[i] /\ file >= i
             \/ file = Nothing /\ \E j \in Asked : j \in begun' /\ asked[j] = asked[i]
  PROVE  HasFile(i)'
<1>1. \A j \in SameRequest(i) : j \in SameRequest(i)'
  BY DEF SameRequest
<1>2. begun \subseteq Asked
  BY DEF DocumentsTyped
<1>3. CASE FileOf(NameOf(i))' = FileOf(NameOf(i))
  BY <1>1, <1>3 DEF HasFile
<1>4. CASE FileOf(NameOf(i))' # Nothing /\ FileOf(NameOf(i))' \in SameRequest(i)' /\ FileOf(NameOf(i))' >= i
  BY <1>4 DEF HasFile
<1>5. CASE FileOf(NameOf(i))' = Nothing /\ \E j \in SameRequest(i)' : j \in begun'
  BY <1>5 DEF HasFile
<1>6. QED
  BY <1>3, <1>4, <1>5 DEF SameRequest

LEMMA NextId ==
  ASSUME DocumentsTyped, Held
  PROVE  /\ Cardinality(Asked) \in Nat
         /\ Cardinality(Asked) + 1 \notin Asked
         /\ Asked \cup {Cardinality(Asked) + 1} = 1 .. Cardinality(Asked) + 1
<1> PICK n \in Nat : Asked = 1 .. n
  BY DEF Held
<1>1. Cardinality(Asked) = n
  BY FS_Interval
<1>2. QED
  BY <1>1

LEMMA DocumentsInitInv == DocumentsInit => DocumentsInv
<1> SUFFICES ASSUME DocumentsInit PROVE DocumentsInv
  OBVIOUS
<1>1. Asked = {} /\ DOMAIN files = {} /\ listed = {}
  BY DEF DocumentsInit, Asked
<1>2. DocumentsTyped
  <2>1. asked \in [Asked -> Order]
    BY <1>1 DEF DocumentsInit
  <2>2. QED
    BY <1>1, <2>1, DocumentAssumption DEF DocumentsInit, DocumentsTyped, Minute
<1>3. Held
  <2>1. Asked = 1 .. 0
    BY <1>1
  <2>2. QED
    BY <2>1 DEF DocumentsInit, Held, Work
<1>4. BeingWritten /\ Named /\ ListedHaveFiles /\ NoOrphans
  BY <1>1 DEF DocumentsInit, BeingWritten, Named, ListedHaveFiles, NoOrphans
<1>5. QED
  BY <1>2, <1>3, <1>4 DEF DocumentsInv

----------------------------------------------------------------------------
(* Steps that leave documents and files alone.                             *)
LEMMA QuietStep ==
  ASSUME DocumentsInv, NEW c \in Client,
         \/ \E p \in ProjectId, f \in Format, z \in Zone : Generate(c, p, f, z)
         \/ RenderFails(c) \/ UnlinkFails(c)
         \/ \E i \in Id : Find(c, i)
  PROVE  DocumentsInv'
<1> USE DEF DocumentsInv
<1>1. UNCHANGED <<projects, minute, asked, listed, files, lost, begun>> /\ phase[c] # "written"
  BY DEF Generate, RenderFails, UnlinkFails, Find
<1>2. \A d \in Client \ {c} : phase'[d] = phase[d] /\ work'[d] = work[d]
  BY DEF Generate, RenderFails, UnlinkFails, Find, Continues, DocumentsTyped, Held
<1>3. /\ phase'[c] \in {"idle", "rendering", "found"} /\ work'[c] \in Work
      /\ phase'[c] = "rendering" => work'[c] \in [project : ProjectId, format : Format, zone : Zone]
      /\ phase'[c] = "found" => work'[c] \in [doc : Id] /\ work'[c].doc \in listed
  BY DEF Generate, RenderFails, UnlinkFails, Find, Continues, DocumentsTyped, Held, Work
<1>4. phase' \in [Client -> {"idle", "rendering", "written", "found", "unlinked"}] /\ work' \in [Client -> Work]
  BY <1>3 DEF Generate, RenderFails, UnlinkFails, Find, Continues, DocumentsTyped, Held
<1>5. DocumentsTyped'
  BY <1>1, <1>4 DEF DocumentsTyped, Asked
<1>6. Held'
  <2>1. \A d \in Client :
          /\ phase'[d] = "rendering" => work'[d] \in [project : ProjectId, format : Format, zone : Zone]
          /\ phase'[d] \in {"written", "found", "unlinked"} => work'[d] \in [doc : Id] /\ work'[d].doc \in Asked
    BY <1>2, <1>3 DEF Held, DocumentsTyped, Doc
  <2>2. QED
    BY <1>1, <1>4, <2>1 DEF Held, Asked, Doc
<1>7. \A i : HasFile(i)' <=> HasFile(i)
  BY <1>1 DEF HasFile, FileOf, NameOf, SameRequest, Asked
<1>8. BeingWritten'
  <2> SUFFICES ASSUME NEW d \in Client, phase'[d] = "written"
               PROVE  /\ work'[d].doc \notin listed
                      /\ \A e \in Client \ {d} : phase'[e] \in {"written", "found", "unlinked"} => work'[e].doc # work'[d].doc
                      /\ HasFile(work'[d].doc)
    BY <1>1, <1>7 DEF BeingWritten, Doc
  <2>1. d # c /\ phase[d] = "written" /\ work'[d] = work[d] /\ Doc(d) \in Asked
    BY <1>2, <1>3 DEF Held
  <2>2. work'[d].doc \notin listed
    BY <2>1 DEF BeingWritten, Doc
  <2>3. \A e \in Client \ {d} : phase'[e] \in {"written", "found", "unlinked"} => work'[e].doc # work'[d].doc
    BY <1>2, <1>3, <2>1, <2>2 DEF BeingWritten, Doc
  <2>4. HasFile(work'[d].doc)
    BY <2>1 DEF BeingWritten, Doc
  <2>5. QED
    BY <2>2, <2>3, <2>4
<1>9. Named'
  BY <1>1, <1>2, <1>3 DEF Named, NameOf, Doc
<1>10. ListedHaveFiles'
  BY <1>1, <1>7 DEF ListedHaveFiles
<1>11. NoOrphans'
  <2> SUFFICES ASSUME NEW n \in DOMAIN files
               PROVE  \/ files[n] \in listed \cup lost \/ asked[files[n]].project \notin projects
                      \/ \E d \in Client : phase'[d] = "written" /\ work'[d].doc = files[n]
    BY <1>1 DEF NoOrphans, Doc
  <2>1. CASE \E d \in Client : phase[d] = "written" /\ Doc(d) = files[n]
    BY <1>1, <1>2, <2>1 DEF Doc
  <2>2. QED
    BY <2>1 DEF NoOrphans
<1>12. QED
  BY <1>5, <1>6, <1>8, <1>9, <1>10, <1>11

----------------------------------------------------------------------------
(* A new document: nobody knows its id, and its file is there.             *)
LEMMA WriteStep ==
  ASSUME DocumentsInv, NEW c \in Client, Write(c) \/ WriteFails(c)
  PROVE  DocumentsInv'
<1> USE DEF DocumentsInv
<1> PICK i : i = Cardinality(Asked) + 1
  OBVIOUS
<1> DEFINE o == [project |-> work[c].project, format |-> work[c].format, reading |-> minute + work[c].zone]
<1>1. i \in Id /\ i \notin Asked /\ DOMAIN asked' = Asked \cup {i} /\ Asked \cup {i} = 1 .. i
  <2>1. Cardinality(Asked) \in Nat /\ i \notin Asked /\ Asked \cup {i} = 1 .. i
    BY NextId
  <2>2. i \in Id
    BY <2>1, DocumentAssumption DEF Write, WriteFails, Names, Id
  <2>3. DOMAIN asked' = Asked \cup {i}
    BY DEF Write, WriteFails, Names, Fresh, Asked
  <2>4. QED
    BY <2>1, <2>2, <2>3
<1>2. o \in Order
  <2>1. work[c] \in [project : ProjectId, format : Format, zone : Zone]
    BY DEF Write, WriteFails, Names, Held
  <2>2. minute \in Nat
    BY DocumentAssumption DEF DocumentsTyped, Minute
  <2>3. work[c].zone \in Nat
    BY <2>1, DocumentAssumption
  <2>4. minute + work[c].zone \in Nat
    BY <2>2, <2>3
  <2>5. QED
    BY <2>1, <2>4 DEF Order
<1>3. asked'[i] = o /\ \A j \in Asked : asked'[j] = asked[j]
  BY <1>1 DEF Write, WriteFails, Names, Fresh, Asked
<1>4. \/ /\ DOMAIN files' = DOMAIN files \cup {FileName(o)} /\ files'[FileName(o)] = i
         /\ \A n \in DOMAIN files \ {FileName(o)} : files'[n] = files[n]
      \/ files' = files /\ phase'[c] # "written"
  <2>1. asked'[Fresh] = o
    BY <1>3 DEF Fresh
  <2>2. CASE Writes(FileName(o), i)
    BY <2>2 DEF Writes
  <2>3. CASE files' = files /\ WriteFails(c)
    BY <2>3 DEF WriteFails, Continues, DocumentsTyped
  <2>4. QED
    BY <2>1, <2>2, <2>3 DEF Write, WriteFails, Fresh
<1>5. /\ \/ phase'[c] = "written" /\ work'[c] = [doc |-> i] /\ lost' = lost
         \/ phase'[c] = "idle" /\ work'[c] = Nothing /\ lost' = lost \cup {i}
      /\ \A d \in Client \ {c} : phase'[d] = phase[d] /\ work'[d] = work[d]
      /\ phase' \in [Client -> {"idle", "rendering", "written", "found", "unlinked"}] /\ work' \in [Client -> Work]
  BY <1>1 DEF Write, WriteFails, Fresh, Continues, DocumentsTyped, Held, Work
<1>6. UNCHANGED <<projects, minute, listed, begun>>
  BY DEF Write, WriteFails
<1>7. DocumentsTyped'
  <2>1. asked' \in [Asked \cup {i} -> Order]
    BY <1>1, <1>2, <1>3 DEF Write, WriteFails, Names, Fresh, DocumentsTyped, Asked
  <2>2. \A n \in DOMAIN files' : files'[n] \in Asked \cup {i}
    BY <1>4 DEF DocumentsTyped
  <2>3. lost' \subseteq Asked \cup {i}
    BY <1>5 DEF DocumentsTyped
  <2>4. QED
    BY <1>1, <1>5, <1>6, <2>1, <2>2, <2>3 DEF DocumentsTyped, Asked
<1>8. Held'
  BY <1>1, <1>5 DEF Held, Asked, Doc
<1>9. ASSUME NEW j \in Asked, HasFile(j)  PROVE HasFile(j)'
  <2>1. NameOf(j)' = NameOf(j) /\ Asked \subseteq Asked' /\ begun \subseteq begun'
    BY <1>1, <1>3, <1>6 DEF NameOf, Asked
  <2>2. CASE NameOf(j) # FileName(o) \/ files' = files
    <3>1. FileOf(NameOf(j))' = FileOf(NameOf(j))
      BY <1>4, <2>1, <2>2 DEF FileOf
    <3>2. QED
      BY <1>3, <1>9, <2>1, <3>1, FileStays
  <2>3. CASE NameOf(j) = FileName(o) /\ files' # files
    <3>1. FileOf(NameOf(j))' = i
      BY <1>4, <2>1, <2>3 DEF FileOf
    <3>2. asked[j] = o
      BY <1>2, <2>3 DEF NameOf, FileName, Order, DocumentsTyped
    <3>3. i # Nothing /\ i \in Asked' /\ i >= j
      BY <1>1, DocumentAssumption DEF Asked, Id
    <3>4. QED
      BY <1>3, <1>9, <2>1, <3>1, <3>2, <3>3, FileStays
  <2>4. QED
    BY <2>2, <2>3
<1>10. phase'[c] = "written" => HasFile(i)'
  <2>1. SUFFICES ASSUME phase'[c] = "written"  PROVE HasFile(i)'
    OBVIOUS
  <2>2. FileOf(NameOf(i))' = i
    BY <1>3, <1>4, <2>1 DEF FileOf, NameOf, FileName
  <2>3. i # Nothing /\ i \in SameRequest(i)' /\ i >= i
    BY <1>1, DocumentAssumption DEF SameRequest, Asked, Id
  <2>4. QED
    BY <2>2, <2>3 DEF HasFile
<1>11. BeingWritten'
  <2> SUFFICES ASSUME NEW d \in Client, phase'[d] = "written"
               PROVE  /\ work'[d].doc \notin listed
                      /\ \A e \in Client \ {d} : phase'[e] \in {"written", "found", "unlinked"} => work'[e].doc # work'[d].doc
                      /\ HasFile(Doc(d))'
    BY <1>6 DEF BeingWritten, Doc
  <2>1. CASE d = c
    <3>1. i \notin listed
      BY <1>1 DEF DocumentsTyped
    <3>2. \A e \in Client \ {c} : phase'[e] \in {"written", "found", "unlinked"} => work'[e].doc \in Asked
      BY <1>5 DEF Held, Doc
    <3>3. Doc(c)' = i
      BY <1>5, <2>1 DEF Doc
    <3>5. HasFile(Doc(c))'
      BY <1>10, <2>1, <3>3 DEF HasFile, NameOf, SameRequest
    <3>4. QED
      BY <1>1, <1>5, <2>1, <3>1, <3>2, <3>3, <3>5 DEF Doc
  <2>2. CASE d # c
    <3>1. phase[d] = "written" /\ work'[d].doc = Doc(d) /\ Doc(d) \in Asked
      BY <1>5, <2>2 DEF Held, Doc
    <3>2. Doc(d) # i /\ Doc(d) \notin listed /\ HasFile(Doc(d))
      BY <1>1, <3>1 DEF BeingWritten
    <3>3. Doc(d)' = Doc(d)
      BY <1>5, <2>2 DEF Doc
    <3>5. HasFile(Doc(d))'
      BY <1>9, <3>1, <3>2, <3>3 DEF HasFile, NameOf, SameRequest
    <3>4. QED
      BY <1>5, <2>2, <3>1, <3>2, <3>5 DEF BeingWritten, Doc
  <2>3. QED
    BY <2>1, <2>2
<1>12. Named'
  <2>1. \A n \in DOMAIN files' : n = FileName(asked'[files'[n]])
    BY <1>1, <1>3, <1>4 DEF Named, NameOf, DocumentsTyped
  <2>2. ASSUME NEW d \in Client, phase'[d] = "unlinked", NEW n \in DOMAIN files'
        PROVE  files'[n] # work'[d].doc
    <3>1. d # c /\ phase[d] = "unlinked" /\ work'[d].doc = Doc(d) /\ Doc(d) \in Asked
      BY <1>5, <2>2 DEF Held, Doc
    <3>2. QED
      BY <1>1, <1>4, <3>1 DEF Named
  <2>3. QED
    BY <2>1, <2>2 DEF Named, NameOf, Doc
<1>13. ListedHaveFiles'
  <2>1. \A j \in listed : HasFile(j)'
    BY <1>9 DEF ListedHaveFiles, DocumentsTyped
  <2>2. QED
    BY <1>6, <2>1 DEF ListedHaveFiles
<1>14. NoOrphans'
  <2> SUFFICES ASSUME NEW n \in DOMAIN files'
               PROVE  \/ files'[n] \in listed \cup lost' \/ asked'[files'[n]].project \notin projects
                      \/ \E d \in Client : phase'[d] = "written" /\ work'[d].doc = files'[n]
    BY <1>6 DEF NoOrphans, Doc
  <2>1. CASE files'[n] = i
    BY <1>5, <2>1
  <2>2. CASE files'[n] # i
    <3>1. n \in DOMAIN files /\ files'[n] = files[n] /\ files[n] \in Asked /\ asked'[files[n]] = asked[files[n]]
      BY <1>3, <1>4, <2>2 DEF DocumentsTyped
    <3>2. \A d \in Client : phase[d] = "written" => d # c
      BY DEF Write, WriteFails, Names
    <3>3. QED
      BY <1>5, <3>1, <3>2 DEF NoOrphans, Doc
  <2>3. QED
    BY <2>1, <2>2
<1>15. QED
  BY <1>7, <1>8, <1>11, <1>12, <1>13, <1>14

----------------------------------------------------------------------------
(* Steps that end or advance a request and remove no file.                 *)
LEMMA RowStep ==
  ASSUME DocumentsInv, NEW c \in Client, InsertRow(c) \/ DeleteRow(c) \/ CleanUpFails(c)
  PROVE  DocumentsInv'
<1> USE DEF DocumentsInv
<1>1. UNCHANGED <<projects, minute, asked, files, begun>>
  BY DEF InsertRow, DeleteRow, CleanUpFails
<1>2. /\ phase'[c] = "idle" /\ work'[c] = Nothing
      /\ \A d \in Client \ {c} : phase'[d] = phase[d] /\ work'[d] = work[d]
      /\ phase' \in [Client -> {"idle", "rendering", "written", "found", "unlinked"}] /\ work' \in [Client -> Work]
  BY DEF InsertRow, DeleteRow, CleanUpFails, Continues, DocumentsTyped, Held, Work
<1>3. Doc(c) \in Asked
  BY DEF InsertRow, DeleteRow, CleanUpFails, Held
<1>4. \/ listed' = listed \cup {Doc(c)} /\ phase[c] = "written" /\ lost' = lost
      \/ listed' \subseteq listed /\ listed \ {Doc(c)} \subseteq listed' /\ phase[c] = "unlinked" /\ lost' = lost
      \/ listed' = listed /\ phase[c] = "written" /\ lost' = lost \cup {Doc(c)}
  BY DEF InsertRow, DeleteRow, CleanUpFails
<1>12. \A i : HasFile(i)' <=> HasFile(i)
  BY <1>1 DEF HasFile, FileOf, NameOf, SameRequest, Asked
<1>5. DocumentsTyped'
  BY <1>1, <1>2, <1>3, <1>4 DEF DocumentsTyped, Asked
<1>6. Held'
  BY <1>1, <1>2 DEF Held, Asked, Doc
<1>7. BeingWritten'
  <2> SUFFICES ASSUME NEW d \in Client, phase'[d] = "written"
               PROVE  /\ work'[d].doc \notin listed'
                      /\ \A e \in Client \ {d} : phase'[e] \in {"written", "found", "unlinked"} => work'[e].doc # work'[d].doc
                      /\ HasFile(work'[d].doc)
    BY <1>12 DEF BeingWritten, Doc
  <2>1. d # c /\ phase[d] = "written" /\ work'[d] = work[d] /\ Doc(d) # Doc(c)
    BY <1>2, <1>4 DEF BeingWritten
  <2>2. QED
    BY <1>2, <1>4, <2>1 DEF BeingWritten, Doc
<1>8. Named'
  BY <1>1, <1>2 DEF Named, NameOf, Doc
<1>9. ListedHaveFiles'
  <2>1. \A i \in listed' : HasFile(i)
    BY <1>4 DEF ListedHaveFiles, BeingWritten
  <2>2. QED
    BY <1>12, <2>1 DEF ListedHaveFiles
<1>10. NoOrphans'
  <2> SUFFICES ASSUME NEW n \in DOMAIN files
               PROVE  \/ files[n] \in listed' \cup lost' \/ asked[files[n]].project \notin projects
                      \/ \E d \in Client : phase'[d] = "written" /\ work'[d].doc = files[n]
    BY <1>1 DEF NoOrphans, Doc
  <2>1. CASE \E d \in Client : phase[d] = "written" /\ Doc(d) = files[n]
    BY <1>2, <1>4, <2>1 DEF Doc
  <2>2. CASE files[n] \in listed
    BY <1>4, <2>2 DEF Named
  <2>3. QED
    BY <1>4, <2>1, <2>2 DEF NoOrphans
<1>11. QED
  BY <1>5, <1>6, <1>7, <1>8, <1>9, <1>10

----------------------------------------------------------------------------
(* Steps that remove the file of the request's document.                   *)
LEMMA FileStep ==
  ASSUME DocumentsInv, NEW c \in Client, InsertFails(c) \/ Unlink(c)
  PROVE  DocumentsInv'
<1> USE DEF DocumentsInv
<1>1. UNCHANGED <<projects, minute, asked, listed, lost>>
  BY DEF InsertFails, Unlink
<1>2. /\ DOMAIN files' = DOMAIN files \ {NameOf(Doc(c))}
      /\ \A n \in DOMAIN files' : files'[n] = files[n]
  BY DEF InsertFails, CleansUp, Unlink, Unlinks
<1>3. /\ \A d \in Client \ {c} : phase'[d] = phase[d] /\ work'[d] = work[d]
      /\ \/ phase[c] = "written" /\ phase'[c] = "idle" /\ work'[c] = Nothing
         \/ phase[c] = "found" /\ phase'[c] = "unlinked" /\ work'[c] = work[c]
      /\ begun' = begun \cup {Doc(c)}
      /\ phase' \in [Client -> {"idle", "rendering", "written", "found", "unlinked"}] /\ work' \in [Client -> Work]
  BY DEF InsertFails, Unlink, Continues, DocumentsTyped, Held, Work
<1>4. Doc(c) \in Asked
  BY <1>3 DEF Held
<1>5. DocumentsTyped'
  BY <1>1, <1>2, <1>3, <1>4 DEF DocumentsTyped, Asked
<1>6. Held'
  BY <1>1, <1>3 DEF Held, Asked, Doc
<1>7. ASSUME NEW i \in Asked, HasFile(i)
      PROVE  HasFile(i)'
  <2>1. NameOf(i)' = NameOf(i)
    BY <1>1 DEF NameOf
  <2>2. CASE NameOf(i) # NameOf(Doc(c))
    <3>1. FileOf(NameOf(i))' = FileOf(NameOf(i))
      BY <1>2, <2>1, <2>2 DEF FileOf
    <3>2. QED
      BY <1>1, <1>3, <1>7, <3>1, FileStays DEF Asked
  <2>3. CASE NameOf(i) = NameOf(Doc(c))
    <3>1. asked[Doc(c)] = asked[i] /\ FileOf(NameOf(i))' = Nothing
      BY <1>2, <1>4, <2>1, <2>3, NamesApart DEF FileOf
    <3>2. QED
      BY <1>1, <1>3, <1>4, <1>7, <3>1, FileStays DEF Asked
  <2>4. QED
    BY <2>2, <2>3
<1>9. BeingWritten'
  <2> SUFFICES ASSUME NEW d \in Client, phase'[d] = "written"
               PROVE  /\ work'[d].doc \notin listed
                      /\ \A e \in Client \ {d} : phase'[e] \in {"written", "found", "unlinked"} => work'[e].doc # work'[d].doc
                      /\ HasFile(work[d].doc)'
    BY <1>1, <1>3 DEF BeingWritten, Doc
  <2>1. d # c /\ phase[d] = "written" /\ work'[d] = work[d] /\ Doc(d) # Doc(c) /\ Doc(d) \in Asked
    BY <1>3 DEF BeingWritten, Held
  <2>2. HasFile(Doc(d)) => HasFile(work[d].doc)'
    BY <1>7, <2>1 DEF Doc
  <2>3. QED
    BY <1>3, <2>1, <2>2 DEF BeingWritten, Doc
<1>10. Named'
  <2>1. \A n \in DOMAIN files' : n = FileName(asked[files'[n]]) /\ files'[n] # Doc(c)
    BY <1>2 DEF Named, NameOf
  <2>2. QED
    BY <1>1, <1>2, <1>3, <2>1 DEF Named, NameOf, Doc
<1>11. ListedHaveFiles'
  <2>1. \A i \in listed : HasFile(i)'
    BY <1>7 DEF ListedHaveFiles, DocumentsTyped
  <2>2. QED
    BY <1>1, <2>1 DEF ListedHaveFiles
<1>12. NoOrphans'
  <2> SUFFICES ASSUME NEW n \in DOMAIN files'
               PROVE  \/ files[n] \in listed \cup lost \/ asked[files[n]].project \notin projects
                      \/ \E d \in Client : phase'[d] = "written" /\ work'[d].doc = files[n]
    BY <1>1, <1>2 DEF NoOrphans, Doc
  <2>1. n \in DOMAIN files /\ files[n] # Doc(c)
    BY <1>2 DEF Named
  <2>2. QED
    BY <1>3, <2>1 DEF NoOrphans, Doc
<1>13. QED
  BY <1>5, <1>6, <1>9, <1>10, <1>11, <1>12

----------------------------------------------------------------------------
LEMMA ElsewhereStep ==
  ASSUME DocumentsInv, (\E p \in ProjectId : DeleteProject(p)) \/ Tick
  PROVE  DocumentsInv'
<1> USE DEF DocumentsInv
<1>1. UNCHANGED <<asked, files, phase, work, lost, begun>>
  BY DEF DeleteProject, Tick
<1>2. /\ projects' \subseteq projects /\ listed' \subseteq listed /\ minute' \in Minute
      /\ \A i \in listed \ listed' : asked[i].project \notin projects'
  BY DocumentAssumption DEF DeleteProject, Tick, DocumentsTyped, Minute
<1>3. DocumentsTyped'
  BY <1>1, <1>2 DEF DocumentsTyped, Asked
<1>4. Held' /\ Named'
  BY <1>1 DEF Held, Named, Asked, Doc, NameOf
<1>5. BeingWritten' /\ ListedHaveFiles'
  <2>1. \A i : HasFile(i)' <=> HasFile(i)
    BY <1>1 DEF HasFile, FileOf, NameOf, SameRequest, Asked
  <2>2. QED
    BY <1>1, <1>2, <2>1 DEF BeingWritten, ListedHaveFiles, Doc
<1>6. NoOrphans'
  BY <1>1, <1>2 DEF NoOrphans, Doc
<1>7. QED
  BY <1>3, <1>4, <1>5, <1>6

(* What was being written is lost.                                         *)
LEMMA CrashStep ==
  ASSUME DocumentsInv, Crash
  PROVE  DocumentsInv'
<1> USE DEF DocumentsInv
<1>1. UNCHANGED <<projects, minute, asked, listed, files, begun>>
  BY DEF Crash
<1>2. /\ phase' = [c \in Client |-> "idle"] /\ work' = [c \in Client |-> Nothing]
      /\ lost' = lost \cup {Doc(c) : c \in {c \in Client : phase[c] = "written"}}
  BY DEF Crash
<1>3. lost' \subseteq Asked
  BY <1>2 DEF DocumentsTyped, Held
<1>4. DocumentsTyped'
  BY <1>1, <1>2, <1>3 DEF DocumentsTyped, Asked
<1>5. Held'
  BY <1>1, <1>2 DEF Held, Work, Asked
<1>6. BeingWritten' /\ Named'
  BY <1>1, <1>2 DEF BeingWritten, Named, NameOf
<1>7. ListedHaveFiles'
  BY <1>1 DEF ListedHaveFiles, HasFile, SameRequest, FileOf, NameOf, Asked
<1>8. NoOrphans'
  BY <1>1, <1>2 DEF NoOrphans
<1>9. QED
  BY <1>4, <1>5, <1>6, <1>7, <1>8

----------------------------------------------------------------------------
LEMMA DocumentsStepInv == DocumentsInv /\ [DocumentsNext]_documentVars => DocumentsInv'
<1> SUFFICES ASSUME DocumentsInv, [DocumentsNext]_documentVars PROVE DocumentsInv'
  OBVIOUS
<1>1. CASE DocumentsNext
  BY <1>1, QuietStep, WriteStep, RowStep, FileStep, ElsewhereStep, CrashStep DEF DocumentsNext
<1>2. CASE UNCHANGED documentVars
  BY <1>2 DEF documentVars, DocumentsInv, DocumentsTyped, Held, BeingWritten, Named, ListedHaveFiles, NoOrphans, HasFile, SameRequest,
              FileOf, NameOf, Asked, Doc
<1>3. QED
  BY <1>1, <1>2

(* A listed document has its file, or that of a later request for the very  *)
(* same, unless one of these was removed; and no file stays that nobody can *)
(* find, except after a crash, a file operation that failed or the deletion *)
(* of a project (routes/documents.ts).                                      *)
THEOREM KeptDocuments == DocumentsSpec => []DocumentsKept
<1>1. DocumentsInv => DocumentsKept
  BY DEF DocumentsInv, DocumentsKept
<1>2. QED
  BY <1>1, DocumentsInitInv, DocumentsStepInv, PTL DEF DocumentsSpec
=============================================================================
