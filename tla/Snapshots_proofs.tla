-------------------------- MODULE Snapshots_proofs --------------------------
(***************************************************************************)
(* Proofs about the snapshots, rollbacks and clones of a project.          *)
(***************************************************************************)
EXTENDS Snapshots, FiniteSetTheorems, WellFoundedInduction, TLAPS

(* Every item of the project does the work of a role there is.             *)
RolesExist(p) == \A i \in Item : p.does[i] \in RoleIds(p) \cup {None}

(* A restorable record with Keep newer ones beside it.                     *)
Outlived(S, x) ==
  /\ x \in Record /\ Classify(x) = "restorable"
  /\ Cardinality(NewerIn(Restorable(S), x)) >= Keep

(* The records are finitely many, none is newer than the last one taken,   *)
(* and what is not retired or malformed has a payload.                     *)
RecordsSound(S, last) ==
  /\ S \subseteq Record /\ IsFiniteSet(S)
  /\ \A x \in S : x.at <= last /\ (x.kind \in {"v4", "v5"} => x.data \in Snapshot)

(* What a request holds at each point of its handler.                      *)
TreeHeld(w) == w \in [does : [Item -> Name \cup {None}], ids : Generation]

LoadedHeld(w, last) ==
  /\ w.target \in Snapshot
  /\ w.undo \in Record /\ w.undo.at <= last
  /\ w.undo.kind = "v5" /\ w.undo.data \in Snapshot /\ Valid(w.undo.data)
  /\ w.kept = [r \in RoleIds(w.undo.data) \ RoleIds(w.target) |-> w.undo.data.role[r].cap]
  /\ \A r \in DOMAIN w.kept : w.kept[r] \in Capacity

CloneHeld(w) ==
  /\ w.from \in Project /\ RolesExist(w.from)
  /\ w = [from |-> w.from, copy |-> ClonedRows(w.from)]

Holding(at, w, S, last) ==
  /\ at = "tree" => TreeHeld(w)
  /\ at = "built" => w \in Snapshot /\ Valid(w)
  /\ at = "listed" => \A x \in w.delete : Outlived(S, x)
  /\ at = "opened" => w.target \in Snapshot
  /\ at \in {"loaded", "owners"} => LoadedHeld(w, last)
  /\ at = "cloning" => CloneHeld(w)
  /\ at = "cloned" => w.copy = w.from

IInv ==
  /\ TypeOK /\ RolesExist(live) /\ RecordsSound(stored, taken)
  /\ work = [c \in Client |-> work[c]]
  /\ \A c \in Client : Holding(pc[c], work[c], stored, taken)

(* Whom the rollback has not listed is new to it, and works in a role that *)
(* its snapshot does not know.                                             *)
Newcomers(p, w) ==
  \A q \in PersonIds(p) \ PersonIds(w.target) :
    q \notin w.orphans => /\ q \notin PersonIds(w.undo.data)
                        /\ p.person[q].of \notin RoleIds(w.target)

(* One rollback at a time rewrites; whoever comes meanwhile is a newcomer. *)
InTurn ==
  /\ \A c, d \in Client : Rewrites(c) /\ Rewrites(d) => c = d
  /\ \A c \in Client : Rewrites(c) => Newcomers(live, work[c])

----------------------------------------------------------------------------
(* Retention.                                                              *)

LEMMA LeastElement ==
  ASSUME NEW T, T \subseteq Nat, T # {}
  PROVE  \E x \in T : \A y \in T : x <= y
<1> DEFINE L == OpToRel(<, Nat)
<1>1. IsWellFoundedOn(L, Nat)
  BY NatLessThanWellFounded
<1>2. \A a \in Nat, b \in Nat : <<a, b>> \in L <=> a < b
  BY DEF OpToRel
<1> HIDE DEF L
<1>3. PICK x \in T : \A y \in T : ~ (<<y, x>> \in L)
  BY <1>1, WFMin
<1>4. ASSUME NEW y \in T  PROVE x <= y
  <2>1. x \in Nat /\ y \in Nat /\ ~ (y < x)
    BY <1>2, <1>3
  <2> QED  BY <2>1
<1> QED  BY <1>4

LEMMA RecordAt ==
  ASSUME NEW x \in Record
  PROVE  x.at \in Nat /\ x.at <= MaxRecord
BY SnapshotAssumption DEF Record

(* Of a finite set of records, those are deleted that have Keep newer ones *)
(* in it: whatever had Keep newer ones still has.                          *)
LEMMA NewestStay ==
  ASSUME NEW R \in SUBSET Record, IsFiniteSet(R),
         NEW D \in SUBSET R, \A y \in D : Cardinality(NewerIn(R, y)) >= Keep,
         NEW x \in Record, Cardinality(NewerIn(R, x)) >= Keep
  PROVE  Cardinality(NewerIn(R \ D, x)) >= Keep
<1> DEFINE G == NewerIn(R, x)
           H == NewerIn(R \ D, x)
<1>1. H = G \ D /\ G \subseteq R
  BY DEF NewerIn
<1>2. IsFiniteSet(G) /\ IsFiniteSet(H) /\ Cardinality(H) \in Nat
  BY <1>1, FS_Subset, FS_CardinalityType
<1>3. CASE G \cap D = {}
  <2>1. H = G
    BY <1>1, <1>3
  <2> QED  BY <2>1
<1>4. CASE G \cap D # {}
  <2> DEFINE T == {MaxRecord - y.at : y \in G \cap D}
  <2>1. \A y \in R : y.at \in Nat /\ y.at <= MaxRecord
    BY RecordAt
  <2>2. T \subseteq Nat /\ T # {}
    BY <1>1, <1>4, <2>1, SnapshotAssumption
  <2>3. PICK m \in T : \A n \in T : m <= n
    BY <2>2, LeastElement
  <2>4. PICK y \in G \cap D : m = MaxRecord - y.at
    BY <2>3
  <2>5. \A z \in G \cap D : z.at <= y.at
    <3> TAKE z \in G \cap D
    <3>1. MaxRecord - y.at <= MaxRecord - z.at
      BY <2>3, <2>4
    <3> QED  BY <1>1, <2>1, <3>1, SnapshotAssumption
  <2>6. x.at \in Nat /\ y.at > x.at
    BY RecordAt DEF NewerIn
  <2>7. NewerIn(R, y) \subseteq H
    <3> SUFFICES ASSUME NEW z \in R, z.at > y.at  PROVE z \in H
      BY DEF NewerIn
    <3>1. z \in G
      BY <1>1, <2>1, <2>6 DEF NewerIn
    <3>2. z \notin D
      BY <1>1, <2>1, <2>5, <3>1
    <3> QED  BY <1>1, <3>1, <3>2
  <2>8. Cardinality(NewerIn(R, y)) <= Cardinality(H) /\ Cardinality(NewerIn(R, y)) \in Nat
    BY <1>2, <2>7, FS_Subset, FS_CardinalityType
  <2>9. Cardinality(NewerIn(R, y)) >= Keep
    BY <2>4
  <2> QED  BY <1>2, <2>8, <2>9, SnapshotAssumption
<1> QED  BY <1>3, <1>4

LEMMA OutlivedMore ==
  ASSUME NEW S, NEW T \in SUBSET Record, IsFiniteSet(T), S \subseteq T,
         NEW x, Outlived(S, x)
  PROVE  Outlived(T, x)
<1> DEFINE A == NewerIn(Restorable(S), x)
           B == NewerIn(Restorable(T), x)
<1>1. A \subseteq B /\ B \subseteq T
  BY DEF NewerIn, Restorable
<1>2. IsFiniteSet(B)
  BY <1>1, FS_Subset
<1>3. Cardinality(A) <= Cardinality(B) /\ Cardinality(A) \in Nat /\ Cardinality(B) \in Nat
  BY <1>1, <1>2, FS_Subset, FS_CardinalityType
<1> QED  BY <1>3, SnapshotAssumption DEF Outlived

(* A deletion of outlived records leaves every outlived one outlived.      *)
LEMMA OutlivedStay ==
  ASSUME NEW S \in SUBSET Record, IsFiniteSet(S),
         NEW D, \A y \in D : Outlived(S, y),
         NEW x, Outlived(S, x)
  PROVE  Outlived(S \ D, x)
<1> DEFINE R == Restorable(S)
           E == D \cap R
<1>1. R \in SUBSET Record /\ IsFiniteSet(R)
  BY FS_Subset DEF Restorable
<1>2. \A y \in E : Cardinality(NewerIn(R, y)) >= Keep
  BY DEF Outlived
<1>3. x \in Record /\ Cardinality(NewerIn(R, x)) >= Keep
  BY DEF Outlived
<1>4. Restorable(S \ D) = R \ E
  BY DEF Restorable
<1> HIDE DEF R, E
<1>5. E \in SUBSET R
  BY DEF E
<1>6. Cardinality(NewerIn(R \ E, x)) >= Keep
  BY <1>1, <1>2, <1>3, <1>5, NewestStay
<1> QED  BY <1>4, <1>6 DEF Outlived

(* What pruneSnapshots lists is outlived.                                  *)
LEMMA BeyondOutlived ==
  ASSUME NEW S \in SUBSET Record, NEW x \in BeyondKeep(S)
  PROVE  x \in S /\ Outlived(S, x)
BY DEF BeyondKeep, Restorable, Outlived

(* The newest record is never beyond the retention.                        *)
LEMMA NewestStays ==
  ASSUME NEW S \in SUBSET Record, NEW x \in S, \A y \in S : y.at <= x.at
  PROVE  x \notin BeyondKeep(S)
<1>1. NewerIn(Restorable(S), x) = {}
  BY RecordAt DEF NewerIn, Restorable
<1>2. Cardinality(NewerIn(Restorable(S), x)) = 0
  BY <1>1, FS_EmptySet
<1> QED  BY <1>2, SnapshotAssumption DEF BeyondKeep

----------------------------------------------------------------------------
(* What is captured, cloned and restored.                                  *)

RoleRow == [name : Name, cap : Profile \cup {None}]
PersonRow == [of : Role, cap : Profile \cup {None}]

LEMMA ProjectTyped ==
  ASSUME NEW p \in Project
  PROVE  /\ p = [role |-> p.role, person |-> p.person, does |-> p.does, row |-> p.row,
                 ids |-> p.ids, plan |-> p.plan, state |-> p.state]
         /\ p.role \in [Role -> RoleRow \cup {None}]
         /\ p.person \in [Person -> PersonRow \cup {None}]
         /\ p.does \in [Item -> Role \cup {None}] /\ p.row \in [Item -> Row \cup {None}]
         /\ p.ids \in Generation /\ p.plan \in Plan \cup {None} /\ p.state \in Planning
         /\ \A r \in RoleIds(p) : p.role[r] \in RoleRow
BY DEF Project, RoleRow, PersonRow, RoleIds

LEMMA SnapshotTyped ==
  ASSUME NEW s \in Snapshot
  PROVE  /\ s.role \in [Role -> RoleRow \cup {None}]
         /\ s.person \in [Person -> PersonRow \cup {None}]
         /\ s.does \in [Item -> Name \cup {None}] /\ s.row \in [Item -> Row \cup {None}]
         /\ s.ids \in Generation /\ s.rowIds \in Generation
         /\ s.plan # {} => \E p \in Plan \cup {None} : s.plan = {p}
         /\ s.state # {} => \E p \in Planning : s.state = {p}
         /\ \A r \in RoleIds(s) : s.role[r] \in RoleRow
<1> USE DEF RoleRow, PersonRow
<1>1. /\ s.role \in [Role -> RoleRow \cup {None}]
      /\ s.person \in [Person -> PersonRow \cup {None}]
      /\ s.does \in [Item -> Name \cup {None}] /\ s.row \in [Item -> Row \cup {None}]
      /\ s.ids \in Generation /\ s.rowIds \in Generation
      /\ s.plan \in {{}} \cup {{p} : p \in Plan \cup {None}}
      /\ s.state \in {{}} \cup {{p} : p \in Planning}
  BY DEF Snapshot
<1> QED  BY <1>1 DEF RoleIds

LEMMA MakeProject ==
  ASSUME NEW role \in [Role -> RoleRow \cup {None}],
         NEW person \in [Person -> PersonRow \cup {None}],
         NEW does \in [Item -> Role \cup {None}], NEW row \in [Item -> Row \cup {None}],
         NEW ids \in Generation, NEW plan \in Plan \cup {None}, NEW state \in Planning
  PROVE  [role |-> role, person |-> person, does |-> does, row |-> row,
          ids |-> ids, plan |-> plan, state |-> state] \in Project
BY DEF Project, RoleRow, PersonRow

LEMMA NoneIsNoRow == None \notin RoleRow /\ None \notin PersonRow
BY SnapshotAssumption DEF RoleRow, PersonRow

(* An item's role is there by name.                                        *)
LEMMA TreeTyped ==
  ASSUME NEW p \in Project, RolesExist(p)
  PROVE  TreeHeld(Tree(p))
<1>1. ASSUME NEW i \in Item  PROVE NameOf(p, i) \in Name \cup {None}
  <2>1. CASE p.does[i] = None
    BY <2>1 DEF NameOf
  <2>2. CASE p.does[i] # None
    <3>1. p.does[i] \in RoleIds(p)
      BY <2>2 DEF RolesExist
    <3>2. p.role[p.does[i]] \in RoleRow
      BY <3>1, ProjectTyped
    <3> QED  BY <2>2, <3>2 DEF NameOf, RoleRow
  <2> QED  BY <2>1, <2>2
<1>2. p.ids \in Generation
  BY ProjectTyped
<1> QED  BY <1>1, <1>2 DEF TreeHeld, Tree

LEMMA RestTyped ==
  ASSUME NEW p \in Project, NEW tree, TreeHeld(tree)
  PROVE  Rest(tree, p) \in Snapshot
<1>1. tree.does \in [Item -> Name \cup {None}] /\ tree.ids \in Generation
  BY DEF TreeHeld
<1>2. /\ p.role \in [Role -> RoleRow \cup {None}]
      /\ p.person \in [Person -> PersonRow \cup {None}]
      /\ p.row \in [Item -> Row \cup {None}]
      /\ p.ids \in Generation /\ p.plan \in Plan \cup {None} /\ p.state \in Planning
  BY ProjectTyped
<1>3. {p.plan} \in {{}} \cup {{x} : x \in Plan \cup {None}}
      /\ {p.state} \in {{}} \cup {{x} : x \in Planning}
  BY <1>2
<1> QED  BY <1>1, <1>2, <1>3 DEF Rest, Snapshot, RoleRow, PersonRow

LEMMA CaptureTyped ==
  ASSUME NEW p \in Project, RolesExist(p)
  PROVE  Capture(p) \in Snapshot /\ Capture(p).role = p.role
<1>1. Capture(p) \in Snapshot
  BY TreeTyped, RestTyped DEF Capture
<1> QED  BY <1>1 DEF Capture, Rest

(* Rows that come back with their profiles are the rows they were.         *)
LEMMA ProfilesComeBack ==
  ASSUME NEW Rows, NEW X, NEW rows \in [X -> Rows \cup {None}],
         \A w \in Rows : [[w EXCEPT !.cap = None] EXCEPT !.cap = w.cap] = w
                    /\ (w.cap = None => [w EXCEPT !.cap = None] = w)
  PROVE  WithProfile(ClonedOwners(rows), rows) = rows
<1>1. ASSUME NEW x \in X
      PROVE  WithProfile(ClonedOwners(rows), rows)[x] = rows[x]
  <2>1. ClonedOwners(rows)[x] = IF rows[x] = None THEN None ELSE [rows[x] EXCEPT !.cap = None]
    BY DEF ClonedOwners
  <2>2. DOMAIN ClonedOwners(rows) = X
    BY DEF ClonedOwners
  <2>3. WithProfile(ClonedOwners(rows), rows)[x] =
          IF x \in Owners(rows) THEN [ClonedOwners(rows)[x] EXCEPT !.cap = rows[x].cap]
          ELSE ClonedOwners(rows)[x]
    BY <2>2 DEF WithProfile
  <2>4. x \in Owners(rows) <=> rows[x] # None /\ rows[x].cap # None
    BY DEF Owners
  <2>5. CASE rows[x] = None
    <3>1. x \notin Owners(rows) /\ ClonedOwners(rows)[x] = None
      BY <2>1, <2>4, <2>5
    <3>2. WithProfile(ClonedOwners(rows), rows)[x] = ClonedOwners(rows)[x]
      BY <2>3, <3>1
    <3> QED  BY <2>5, <3>1, <3>2
  <2>6. CASE rows[x] # None
    <3>1. rows[x] \in Rows
      BY <2>6
    <3> QED  BY <2>1, <2>3, <2>4, <2>6, <3>1
  <2> QED  BY <2>5, <2>6
<1>2. WithProfile(ClonedOwners(rows), rows) = [x \in X |-> WithProfile(ClonedOwners(rows), rows)[x]]
  BY DEF WithProfile, ClonedOwners
<1> QED  BY <1>1, <1>2

(* A clone with its profiles is what it was cloned from.                   *)
LEMMA CloneIsSource ==
  ASSUME NEW p \in Project, RolesExist(p)
  PROVE  LET copy == ClonedRows(p)
         IN  [role |-> WithProfile(copy.role, p.role),
              person |-> WithProfile(copy.person, p.person),
              does |-> copy.does, row |-> copy.row, ids |-> copy.ids,
              plan |-> copy.plan, state |-> copy.state] = p
<1> DEFINE copy == ClonedRows(p)
<1>1. p.role \in [Role -> RoleRow \cup {None}] /\ p.person \in [Person -> PersonRow \cup {None}]
      /\ p.does \in [Item -> Role \cup {None}]
  BY ProjectTyped
<1>2. WithProfile(ClonedOwners(p.role), p.role) = p.role
  <2>1. \A w \in RoleRow : [[w EXCEPT !.cap = None] EXCEPT !.cap = w.cap] = w
                    /\ (w.cap = None => [w EXCEPT !.cap = None] = w)
    BY DEF RoleRow
  <2> QED  BY <1>1, <2>1, ProfilesComeBack
<1>3. WithProfile(ClonedOwners(p.person), p.person) = p.person
  <2>1. \A w \in PersonRow : [[w EXCEPT !.cap = None] EXCEPT !.cap = w.cap] = w
                    /\ (w.cap = None => [w EXCEPT !.cap = None] = w)
    BY DEF PersonRow
  <2> QED  BY <1>1, <2>1, ProfilesComeBack
<1>4. ClonedDoes(p, RoleIds(p)) = p.does
  <2>1. \A i \in Item : p.does[i] \in RoleIds(p) \/ p.does[i] = None
    BY DEF RolesExist
  <2> QED  BY <1>1, <2>1 DEF ClonedDoes
<1>5. /\ copy.role = ClonedOwners(p.role) /\ copy.person = ClonedOwners(p.person)
      /\ copy.does = p.does /\ copy.row = p.row /\ copy.ids = p.ids
      /\ copy.plan = p.plan /\ copy.state = p.state
  BY <1>4 DEF ClonedRows
<1>6. p = [role |-> p.role, person |-> p.person, does |-> p.does, row |-> p.row,
           ids |-> p.ids, plan |-> p.plan, state |-> p.state]
  BY ProjectTyped
<1> HIDE DEF copy
<1>7. [role |-> WithProfile(copy.role, p.role), person |-> WithProfile(copy.person, p.person),
       does |-> copy.does, row |-> copy.row, ids |-> copy.ids,
       plan |-> copy.plan, state |-> copy.state] = p
  BY <1>2, <1>3, <1>5, <1>6
<1> QED  BY <1>7 DEF copy

(* What a rollback writes: the rows of the snapshot, the survivors with    *)
(* the profiles that were read, each item a role whose name is that of the *)
(* role it had.                                                            *)
LEMMA RestoredTyped ==
  ASSUME live \in Project, NEW s \in Snapshot,
         NEW kept, \A r \in DOMAIN kept : kept[r] \in Capacity, NEW orphans,
         NEW m \in Lookups(s), NEW ids \in Generation
  PROVE  LET p == Restored(s, kept, orphans, m, ids)
         IN  /\ p \in Project /\ RolesExist(p)
             /\ p.role = RestoredRoles(s, kept) /\ p.person = RestoredPeople(s, orphans)
             /\ p.does = RestoredDoes(s, m)
             /\ p.plan = RestoredPlan(s) /\ p.state = RestoredState(s)
<1> DEFINE p == Restored(s, kept, orphans, m, ids)
           row == IF s.rowIds = s.ids THEN s.row ELSE [i \in Item |-> None]
<1>1. /\ live.role \in [Role -> RoleRow \cup {None}]
      /\ live.person \in [Person -> PersonRow \cup {None}]
      /\ live.plan \in Plan \cup {None} /\ live.state \in Planning
  BY ProjectTyped
<1>2. /\ s.role \in [Role -> RoleRow \cup {None}]
      /\ s.person \in [Person -> PersonRow \cup {None}]
      /\ s.does \in [Item -> Name \cup {None}] /\ s.row \in [Item -> Row \cup {None}]
      /\ s.plan # {} => \E x \in Plan \cup {None} : s.plan = {x}
      /\ s.state # {} => \E x \in Planning : s.state = {x}
      /\ \A r \in RoleIds(s) : s.role[r] \in RoleRow
  BY SnapshotTyped
<1>3. RestoredRoles(s, kept) \in [Role -> RoleRow \cup {None}]
  <2>1. ASSUME NEW r \in RoleIds(live), NEW cap \in Capacity \cup {None}
        PROVE  [live.role[r] EXCEPT !.cap = cap] \in RoleRow
    <3>1. live.role[r] \in RoleRow
      BY ProjectTyped
    <3> QED  BY <3>1 DEF RoleRow, Profile
  <2>2. ASSUME NEW r \in Role
        PROVE  (IF r \in RoleIds(s) THEN s.role[r]
                ELSE IF r \in RoleIds(live)
                     THEN [live.role[r] EXCEPT !.cap = IF r \in DOMAIN kept THEN kept[r] ELSE None]
                     ELSE None) \in RoleRow \cup {None}
    BY <1>2, <2>1
  <2> QED  BY <2>2 DEF RestoredRoles
<1>4. \A r \in RoleIds(s) : RestoredRoles(s, kept)[r] = s.role[r] /\ s.role[r] # None /\ r \in Role
  BY DEF RestoredRoles, RoleIds
<1>5. ASSUME NEW i \in Item  PROVE RestoredDoes(s, m)[i] \in RoleIds(s) \cup {None}
  BY DEF RestoredDoes, Lookups
<1>6. RestoredDoes(s, m) \in [Item -> RoleIds(s) \cup {None}]
  BY <1>5 DEF RestoredDoes
<1>7. row \in [Item -> Row \cup {None}]
  BY <1>2
<1>8. RestoredPlan(s) \in Plan \cup {None} /\ RestoredState(s) \in Planning
  BY <1>1, <1>2 DEF RestoredPlan, RestoredState
<1>13. RestoredPeople(s, orphans) \in [Person -> PersonRow \cup {None}]
  <2>1. ASSUME NEW q \in PersonIds(live)
        PROVE  [live.person[q] EXCEPT !.cap = None] \in PersonRow
    <3>1. live.person[q] \in PersonRow
      BY <1>1 DEF PersonIds
    <3> QED  BY <3>1 DEF PersonRow
  <2>2. ASSUME NEW q \in Person
        PROVE  (IF q \in PersonIds(s) THEN s.person[q]
                ELSE IF q \in PersonIds(live) \ orphans
                     THEN [live.person[q] EXCEPT !.cap = None]
                     ELSE None) \in PersonRow \cup {None}
    BY <1>2, <2>1
  <2> QED  BY <2>2 DEF RestoredPeople
<1>9. p = [role |-> RestoredRoles(s, kept), person |-> RestoredPeople(s, orphans),
           does |-> RestoredDoes(s, m),
           row |-> row, ids |-> ids, plan |-> RestoredPlan(s), state |-> RestoredState(s)]
  BY DEF Restored
<1> HIDE DEF p, row
<1>10. RestoredDoes(s, m) \in [Item -> Role \cup {None}]
  BY <1>6 DEF RoleIds
<1>11. p \in Project
  BY <1>3, <1>7, <1>8, <1>9, <1>10, <1>13, MakeProject
<1>12. RolesExist(p)
  BY <1>4, <1>6, <1>9 DEF RolesExist, RoleIds
<1> QED  BY <1>9, <1>11, <1>12 DEF p

----------------------------------------------------------------------------
(* The other routes.                                                       *)

LEMMA RoleWritten ==
  ASSUME NEW p \in Project, RolesExist(p), NEW r \in Role, NEW row \in RoleRow
  PROVE  [p EXCEPT !.role[r] = row] \in Project /\ RolesExist([p EXCEPT !.role[r] = row])
<1> DEFINE role == [p.role EXCEPT ![r] = row]
           q == [p EXCEPT !.role = role]
<1>1. p.role \in [Role -> RoleRow \cup {None}]
  BY ProjectTyped
<1>2. role \in [Role -> RoleRow \cup {None}] /\ role[r] # None /\ \A x \in Role \ {r} : role[x] = p.role[x]
  BY <1>1, NoneIsNoRow
<1> HIDE DEF role
<1>3. q \in Project /\ q.role = role /\ q.does = p.does
  BY <1>2 DEF Project, RoleRow
<1>4. RoleIds(p) \subseteq RoleIds(q)
  BY <1>2, <1>3 DEF RoleIds
<1>5. RolesExist(q)
  BY <1>3, <1>4 DEF RolesExist
<1> QED  BY <1>3, <1>5 DEF role

LEMMA OthersWritten ==
  ASSUME NEW p \in Project, RolesExist(p), NEW q \in Project, q.role = p.role, q.does = p.does
  PROVE  RolesExist(q)
BY DEF RolesExist, RoleIds

LEMMA EditTyped ==
  ASSUME live \in Project, RolesExist(live), Edit
  PROVE  /\ live' \in Project /\ RolesExist(live')
         /\ edits < MaxEdit /\ edits' = edits + 1
         /\ UNCHANGED <<stored, taken, pc, work>>
<1>0. /\ live.role \in [Role -> RoleRow \cup {None}]
      /\ live.person \in [Person -> PersonRow \cup {None}]
      /\ live.does \in [Item -> Role \cup {None}] /\ live.row \in [Item -> Row \cup {None}]
      /\ \A r \in RoleIds(live) : r \in Role /\ live.role[r] \in RoleRow
  BY ProjectTyped DEF RoleIds
<1> SUFFICES \E p \in Project : RolesExist(p) /\ Edited(p)
  BY DEF Edited
<1>1. ASSUME NEW r \in Role, NEW n \in Name, CreateRole(r, n)
      PROVE  \E p \in Project : RolesExist(p) /\ Edited(p)
  <2>1. PICK cap \in Capacity, q \in Person :
          Edited([live EXCEPT !.role[r] = [name |-> n, cap |-> cap],
                              !.person[q] = [of |-> r, cap |-> cap]])
    BY <1>1 DEF CreateRole
  <2> DEFINE p == [live EXCEPT !.role[r] = [name |-> n, cap |-> cap]]
             person == [live.person EXCEPT ![q] = [of |-> r, cap |-> cap]]
             both == [p EXCEPT !.person = person]
  <2>2. [name |-> n, cap |-> cap] \in RoleRow
    BY DEF RoleRow, Profile
  <2>3. p \in Project /\ RolesExist(p)
    BY <2>2, RoleWritten
  <2>4. person \in [Person -> PersonRow \cup {None}]
    BY <1>0 DEF PersonRow, Profile
  <2>5. Edited(both)
    <3>1. p.person = live.person
      BY DEF Project
    <3>2. both = [live EXCEPT !.role[r] = [name |-> n, cap |-> cap],
                              !.person[q] = [of |-> r, cap |-> cap]]
      BY <3>1
    <3> QED  BY <2>1, <3>2
  <2> HIDE DEF person, p
  <2>6. both \in Project /\ both.role = p.role /\ both.does = p.does
    BY <2>3, <2>4 DEF Project, PersonRow
  <2> HIDE DEF both
  <2> QED  BY <2>3, <2>5, <2>6, OthersWritten
<1>2. ASSUME NEW r \in Role, NEW n \in Name, RenameRole(r, n)
      PROVE  \E p \in Project : RolesExist(p) /\ Edited(p)
  <2> DEFINE row == [live.role[r] EXCEPT !.name = n]
  <2>1. row \in RoleRow
    <3>1. live.role[r] \in RoleRow
      BY <1>0, <1>2 DEF RenameRole
    <3> QED  BY <3>1 DEF RoleRow
  <2>2. Edited([live EXCEPT !.role[r] = row])
    BY <1>2 DEF RenameRole
  <2> HIDE DEF row
  <2> QED  BY <2>1, <2>2, RoleWritten
<1>3. ASSUME NEW r \in Role, NEW cap \in Capacity, SetProfile(r, cap)
      PROVE  \E p \in Project : RolesExist(p) /\ Edited(p)
  <2> DEFINE row == [live.role[r] EXCEPT !.cap = cap]
  <2>1. row \in RoleRow
    <3>1. live.role[r] \in RoleRow
      BY <1>0, <1>3 DEF SetProfile
    <3> QED  BY <3>1 DEF RoleRow, Profile
  <2>2. Edited([live EXCEPT !.role[r] = row])
    BY <1>3 DEF SetProfile
  <2> HIDE DEF row
  <2> QED  BY <2>1, <2>2, RoleWritten
<1>4. ASSUME NEW r \in Role, DeleteRole(r)
      PROVE  \E p \in Project : RolesExist(p) /\ Edited(p)
  <2> DEFINE role == [live.role EXCEPT ![r] = None]
             person == [q \in Person |->
                          IF q \in PersonIds(live) /\ live.person[q].of = r
                          THEN None ELSE live.person[q]]
             does == [i \in Item |-> IF live.does[i] = r THEN None ELSE live.does[i]]
             p == [live EXCEPT !.role = role, !.person = person, !.does = does]
  <2>1. Edited(p)
    BY <1>4 DEF DeleteRole
  <2>2. /\ role \in [Role -> RoleRow \cup {None}]
        /\ \A x \in Role \ {r} : role[x] = live.role[x]
        /\ person \in [Person -> PersonRow \cup {None}]
        /\ does \in [Item -> Role \cup {None}]
        /\ \A i \in Item : does[i] # r \/ r = None
        /\ \A i \in Item : does[i] = live.does[i] \/ does[i] = None
    BY <1>0
  <2> HIDE DEF role, person, does
  <2>3. p \in Project /\ p.role = role /\ p.does = does
    BY <2>2 DEF Project, RoleRow, PersonRow
  <2>4. r # None
    BY SnapshotAssumption
  <2>5. ASSUME NEW i \in Item  PROVE p.does[i] \in RoleIds(p) \cup {None}
    BY <2>2, <2>3, <2>4 DEF RolesExist, RoleIds
  <2> HIDE DEF p
  <2> QED  BY <2>1, <2>3, <2>5 DEF RolesExist
<1>5. ASSUME NEW q \in Person, NEW r \in Role, AddPerson(q, r)
      PROVE  \E p \in Project : RolesExist(p) /\ Edited(p)
  <2> DEFINE cap == live.role[r].cap
  <2>1. cap \in Capacity /\ Edited([live EXCEPT !.person[q] = [of |-> r, cap |-> cap]])
    BY <1>5 DEF AddPerson
  <2> DEFINE person == [live.person EXCEPT ![q] = [of |-> r, cap |-> cap]]
             p == [live EXCEPT !.person = person]
  <2>2. Edited(p)
    BY <2>1
  <2>3. person \in [Person -> PersonRow \cup {None}]
    BY <1>0, <2>1 DEF PersonRow, Profile
  <2> HIDE DEF person
  <2>4. p \in Project /\ p.role = live.role /\ p.does = live.does
    BY <2>3 DEF Project, PersonRow
  <2> HIDE DEF p
  <2> QED  BY <2>2, <2>4, OthersWritten
<1>6. ASSUME NEW i \in Item, NEW r \in Role, Assign(i, r)
      PROVE  \E p \in Project : RolesExist(p) /\ Edited(p)
  <2> DEFINE does == [live.does EXCEPT ![i] = r]
             p == [live EXCEPT !.does = does]
  <2>1. Edited(p) /\ r \in RoleIds(live)
    BY <1>6 DEF Assign
  <2>2. /\ does \in [Item -> Role \cup {None}]
        /\ \A j \in Item : does[j] = r \/ does[j] = live.does[j]
    BY <1>0
  <2> HIDE DEF does
  <2>3. p \in Project /\ p.role = live.role /\ p.does = does
    BY <2>2 DEF Project
  <2>4. RolesExist(p)
    BY <2>1, <2>2, <2>3 DEF RolesExist, RoleIds
  <2> HIDE DEF p
  <2> QED  BY <2>1, <2>3, <2>4
<1>7. ASSUME NEW i \in Item, NEW row \in Row, Schedule(i, row)
      PROVE  \E p \in Project : RolesExist(p) /\ Edited(p)
  <2> DEFINE rows == [live.row EXCEPT ![i] = row]
             p == [live EXCEPT !.row = rows]
  <2>1. Edited(p)
    BY <1>7 DEF Schedule
  <2>2. rows \in [Item -> Row \cup {None}]
    BY <1>0
  <2> HIDE DEF rows
  <2>3. p \in Project /\ p.role = live.role /\ p.does = live.does
    BY <2>2 DEF Project
  <2> HIDE DEF p
  <2> QED  BY <2>1, <2>3, OthersWritten
<1>8. ASSUME NEW plan \in Plan, Activate(plan)
      PROVE  \E p \in Project : RolesExist(p) /\ Edited(p)
  <2> DEFINE p == [live EXCEPT !.plan = plan]
  <2>1. Edited(p)
    BY <1>8 DEF Activate
  <2>2. p \in Project /\ p.role = live.role /\ p.does = live.does
    BY DEF Project
  <2> HIDE DEF p
  <2> QED  BY <2>1, <2>2, OthersWritten
<1>9. CASE Reset
  <2> DEFINE rows == [i \in Item |-> None]
             p == [live EXCEPT !.plan = None, !.row = rows, !.state = "NEEDS_REPLAN"]
  <2>1. Edited(p)
    BY <1>9 DEF Reset
  <2>2. rows \in [Item -> Row \cup {None}]
    OBVIOUS
  <2> HIDE DEF rows
  <2>3. p \in Project /\ p.role = live.role /\ p.does = live.does
    BY <2>2 DEF Project, Planning
  <2> HIDE DEF p
  <2> QED  BY <2>1, <2>3, OthersWritten
<1>10. CASE Replanned
  <2> DEFINE p == [live EXCEPT !.state = "CURRENT"]
  <2>1. Edited(p)
    BY <1>10 DEF Replanned
  <2>2. p \in Project /\ p.role = live.role /\ p.does = live.does
    BY DEF Project, Planning
  <2> HIDE DEF p
  <2> QED  BY <2>1, <2>2, OthersWritten
<1> QED
  BY <1>1, <1>2, <1>3, <1>4, <1>5, <1>6, <1>7, <1>8, <1>9, <1>10 DEF Edit

----------------------------------------------------------------------------
(* The requests.                                                           *)

Points == {"idle", "tree", "built", "stored", "listed", "opened", "loaded", "owners",
           "cloning", "cloned"}

(* What one request holds does not hang on what the others do, but for the *)
(* records that a list was made of.                                        *)
LEMMA OthersHold ==
  ASSUME NEW at, NEW w, NEW S, NEW last \in Nat, Holding(at, w, S, last),
         NEW T, NEW next \in Nat, last <= next, \A x : Outlived(S, x) => Outlived(T, x)
  PROVE  Holding(at, w, T, next)
<1>1. at \in {"loaded", "owners"} => LoadedHeld(w, next)
  <2>1. ASSUME LoadedHeld(w, last)  PROVE LoadedHeld(w, next)
    <3>1. w.undo.at \in Nat
      BY <2>1, RecordAt DEF LoadedHeld
    <3>2. w.undo.at <= next
      BY <2>1, <3>1 DEF LoadedHeld
    <3> QED  BY <2>1, <3>2 DEF LoadedHeld
  <2> QED  BY <2>1 DEF Holding
<1> QED  BY <1>1 DEF Holding

LEMMA TakenTyped ==
  ASSUME TypeOK
  PROVE  taken \in Nat /\ taken <= MaxRecord /\ edits \in Nat /\ edits <= MaxEdit
         /\ stored \in SUBSET Record /\ live \in Project
         /\ pc \in [Client -> Points]
BY SnapshotAssumption DEF TypeOK, Points

(* A step of one request.                                                  *)
LEMMA RequestKeeps ==
  ASSUME IInv, NEW c \in Client, NEW to \in Points, NEW w, Goes(c, to, w),
         live' \in Project, RolesExist(live'), edits' = edits,
         RecordsSound(stored', taken'),
         taken' = taken \/ (taken < MaxRecord /\ taken' = taken + 1),
         \A x : Outlived(stored, x) => Outlived(stored', x),
         Holding(to, w, stored', taken')
  PROVE  IInv'
<1>1. /\ taken \in Nat /\ taken <= MaxRecord /\ edits \in 0 .. MaxEdit
      /\ pc \in [Client -> Points] /\ work = [d \in Client |-> work[d]]
  BY TakenTyped DEF IInv, TypeOK
<1>2. taken' \in 0 .. MaxRecord /\ taken' \in Nat /\ taken <= taken'
  BY <1>1, SnapshotAssumption
<1>3. /\ pc' \in [Client -> Points] /\ pc'[c] = to /\ work'[c] = w
      /\ \A d \in Client \ {c} : pc'[d] = pc[d] /\ work'[d] = work[d]
      /\ work' = [d \in Client |-> work'[d]]
  BY <1>1 DEF Goes
<1>4. TypeOK'
  BY <1>1, <1>2, <1>3 DEF TypeOK, Points, RecordsSound
<1>5. ASSUME NEW d \in Client  PROVE Holding(pc'[d], work'[d], stored', taken')
  <2>1. CASE d = c
    BY <1>3, <2>1
  <2>2. CASE d # c
    <3>1. Holding(pc[d], work[d], stored, taken)
      BY DEF IInv
    <3>2. Holding(pc[d], work[d], stored', taken')
      BY <1>1, <1>2, <3>1, OthersHold
    <3> QED  BY <1>3, <2>2, <3>2
  <2> QED  BY <2>1, <2>2
<1> QED  BY <1>3, <1>4, <1>5 DEF IInv

(* A step of one request that writes nothing.                              *)
LEMMA RequestReads ==
  ASSUME IInv, NEW c \in Client, NEW to \in Points, NEW w, Goes(c, to, w),
         UNCHANGED <<live, stored, taken, edits>>, Holding(to, w, stored, taken)
  PROVE  IInv'
<1>1. RecordsSound(stored, taken) /\ RolesExist(live) /\ live \in Project
  BY DEF IInv, TypeOK
<1> QED  BY <1>1, RequestKeeps

(* Nothing is held by a request that is over, or at these points.          *)
LEMMA NothingHeld ==
  ASSUME NEW w, NEW S, NEW last
  PROVE  Holding("idle", w, S, last) /\ Holding("stored", w, S, last)
BY DEF Holding

LEMMA SnapshotStep ==
  ASSUME IInv, NEW c \in Client,
         ReadTree(c) \/ ReadRest(c) \/ Create(c) \/ ListForPrune(c) \/ Prune(c) \/ Fail(c)
  PROVE  IInv'
<1>0. /\ taken \in Nat /\ taken <= MaxRecord /\ stored \in SUBSET Record /\ live \in Project
      /\ IsFiniteSet(stored) /\ RolesExist(live) /\ RecordsSound(stored, taken)
      /\ Holding(pc[c], work[c], stored, taken)
  BY TakenTyped DEF IInv, RecordsSound
<1>1. CASE ReadTree(c)
  <2>1. Goes(c, "tree", Tree(live)) /\ UNCHANGED <<live, stored, taken, edits>>
    BY <1>1 DEF ReadTree
  <2>2. Holding("tree", Tree(live), stored, taken)
    BY <1>0, TreeTyped DEF Holding
  <2> QED  BY <2>1, <2>2, RequestReads DEF Points
<1>2. CASE ReadRest(c)
  <2> DEFINE s == Rest(work[c], live)
  <2>1. pc[c] = "tree" /\ UNCHANGED <<live, stored, taken, edits>>
        /\ ((Valid(s) /\ Goes(c, "built", s)) \/ Ends(c))
    BY <1>2 DEF ReadRest
  <2>2. s \in Snapshot
    BY <1>0, <2>1, RestTyped DEF Holding
  <2> HIDE DEF s
  <2>3. CASE Valid(s) /\ Goes(c, "built", s)
    <3>1. Holding("built", s, stored, taken)
      BY <2>2, <2>3 DEF Holding
    <3> QED  BY <2>1, <2>3, <3>1, RequestReads DEF Points
  <2>4. CASE Ends(c)
    BY <2>1, <2>4, NothingHeld, RequestReads DEF Ends, Points
  <2> QED  BY <2>1, <2>3, <2>4
<1>3. CASE Create(c)
  <2> DEFINE x == Taken(work[c])
  <2>1. /\ pc[c] = "built" /\ taken < MaxRecord /\ taken' = taken + 1
        /\ stored' = stored \cup {x} /\ Goes(c, "stored", None) /\ UNCHANGED <<live, edits>>
    BY <1>3 DEF Create
  <2>2. work[c] \in Snapshot
    BY <1>0, <2>1 DEF Holding
  <2>3. x \in Record /\ x.at = taken + 1 /\ x.data \in Snapshot
    BY <1>0, <2>1, <2>2, SnapshotAssumption DEF Taken, Record
  <2> HIDE DEF x
  <2>4. IsFiniteSet(stored')
    BY <1>0, <2>1, FS_AddElement
  <2>5. RecordsSound(stored', taken')
    <3>1. \A y \in stored : y.at \in Nat
      BY <1>0, RecordAt
    <3> QED  BY <1>0, <2>1, <2>3, <2>4, <3>1 DEF RecordsSound
  <2>6. \A y : Outlived(stored, y) => Outlived(stored', y)
    BY <2>1, <2>5, OutlivedMore DEF RecordsSound
  <2> QED  BY <1>0, <2>1, <2>5, <2>6, NothingHeld, RequestKeeps DEF Points
<1>4. CASE ListForPrune(c)
  <2> DEFINE w == [delete |-> BeyondKeep(stored)]
  <2>1. Goes(c, "listed", w) /\ UNCHANGED <<live, stored, taken, edits>>
    BY <1>4 DEF ListForPrune
  <2>2. \A x \in w.delete : Outlived(stored, x)
    BY <1>0, BeyondOutlived
  <2>3. Holding("listed", w, stored, taken)
    BY <2>2 DEF Holding
  <2> QED  BY <2>1, <2>3, RequestReads DEF Points
<1>5. CASE Prune(c)
  <2>1. /\ pc[c] = "listed" /\ stored' = stored \ work[c].delete
        /\ Goes(c, "idle", None) /\ UNCHANGED <<live, taken, edits>>
    BY <1>5 DEF Prune, Ends
  <2>2. \A x \in work[c].delete : Outlived(stored, x)
    BY <1>0, <2>1 DEF Holding
  <2>3. \A x : Outlived(stored, x) => Outlived(stored', x)
    BY <1>0, <2>1, <2>2, OutlivedStay
  <2>4. RecordsSound(stored', taken')
    BY <1>0, <2>1, FS_Subset DEF RecordsSound
  <2> QED  BY <1>0, <2>1, <2>3, <2>4, NothingHeld, RequestKeeps DEF Points
<1>6. CASE Fail(c)
  BY <1>6, NothingHeld, RequestReads DEF Fail, Ends, Points
<1> QED  BY <1>1, <1>2, <1>3, <1>4, <1>5, <1>6

LEMMA CloneStep ==
  ASSUME IInv, NEW c \in Client, OpenClone(c) \/ CloneProfiles(c) \/ CommitClone(c)
  PROVE  IInv'
<1>0. live \in Project /\ RolesExist(live) /\ Holding(pc[c], work[c], stored, taken)
  BY DEF IInv, TypeOK
<1>1. CASE OpenClone(c)
  <2> DEFINE w == [from |-> live, copy |-> ClonedRows(live)]
  <2>1. Goes(c, "cloning", w) /\ UNCHANGED <<live, stored, taken, edits>>
    BY <1>1 DEF OpenClone
  <2>2. Holding("cloning", w, stored, taken)
    BY <1>0 DEF Holding, CloneHeld
  <2> HIDE DEF w
  <2> QED  BY <2>1, <2>2, RequestReads DEF Points
<1>2. CASE CloneProfiles(c)
  <2> DEFINE from == work[c].from
             copy == ClonedRows(from)
             full == [from |-> from,
                      copy |-> [work[c].copy EXCEPT
                                  !.role = WithProfile(@, from.role),
                                  !.person = WithProfile(@, from.person)]]
  <2>1. pc[c] = "cloning" /\ UNCHANGED <<live, stored, taken, edits>>
        /\ (Goes(c, "cloned", full) \/ Ends(c))
    BY <1>2 DEF CloneProfiles, Sees
  <2>2. from \in Project /\ RolesExist(from) /\ work[c] = [from |-> from, copy |-> copy]
    BY <1>0, <2>1 DEF Holding, CloneHeld
  <2>3. full.from = from /\
        full.copy = [role |-> WithProfile(copy.role, from.role),
                     person |-> WithProfile(copy.person, from.person),
                     does |-> copy.does, row |-> copy.row, ids |-> copy.ids,
                     plan |-> copy.plan, state |-> copy.state]
    <3>1. copy = [role |-> copy.role, person |-> copy.person,
                  does |-> copy.does, row |-> copy.row, ids |-> copy.ids,
                  plan |-> copy.plan, state |-> copy.state]
      BY DEF ClonedRows
    <3> HIDE DEF copy, from
    <3>2. work[c].copy = copy
      BY <2>2
    <3> QED  BY <3>1, <3>2
  <2>4. full.copy = full.from
    BY <2>2, <2>3, CloneIsSource
  <2>5. Holding("cloned", full, stored, taken)
    BY <2>4 DEF Holding
  <2> HIDE DEF full
  <2>6. CASE Goes(c, "cloned", full)
    BY <2>1, <2>5, <2>6, RequestReads DEF Points
  <2>7. CASE Ends(c)
    BY <2>1, <2>7, NothingHeld, RequestReads DEF Ends, Points
  <2> QED  BY <2>1, <2>6, <2>7
<1>3. CASE CommitClone(c)
  BY <1>3, NothingHeld, RequestReads DEF CommitClone, Ends, Points
<1> QED  BY <1>1, <1>2, <1>3

LEMMA OpenStep ==
  ASSUME IInv, NEW c \in Client, (\E x \in stored : OpenRollback(c, x)) \/ LoadRollback(c)
  PROVE  IInv'
<1>0. /\ taken \in Nat /\ taken <= MaxRecord /\ stored \in SUBSET Record /\ live \in Project
      /\ RolesExist(live) /\ RecordsSound(stored, taken)
      /\ Holding(pc[c], work[c], stored, taken)
  BY TakenTyped DEF IInv
<1>1. ASSUME NEW x \in stored, OpenRollback(c, x)
      PROVE  IInv'
  <2> DEFINE w == [target |-> x.data]
  <2>1. x \in Restorable(stored) /\ Goes(c, "opened", w) /\ UNCHANGED <<live, stored, taken, edits>>
    BY <1>1 DEF OpenRollback
  <2>2. x.kind \in {"v4", "v5"}
    <3>1. x.kind \in {"v1", "v2", "v3", "v4", "v5", "malformed"}
      BY <1>0 DEF Record
    <3>2. Classify(x) = "restorable"
      BY <2>1 DEF Restorable
    <3> QED  BY <3>1, <3>2 DEF Classify
  <2>3. w.target \in Snapshot
    BY <1>0, <2>2 DEF RecordsSound
  <2>4. Holding("opened", w, stored, taken)
    BY <2>3 DEF Holding
  <2> HIDE DEF w
  <2> QED  BY <2>1, <2>4, RequestReads DEF Points
<1>2. CASE LoadRollback(c)
  <2> DEFINE s == work[c].target
             undo == Taken(Capture(live))
             kept == [r \in Retained(s) |-> live.role[r].cap]
             w == [target |-> s, undo |-> undo, kept |-> kept]
  <2>1. /\ pc[c] = "opened" /\ taken < MaxRecord /\ UNCHANGED <<live, stored, edits>>
        /\ \/ /\ Valid(Capture(live)) /\ RetainedSound(s)
              /\ Goes(c, "loaded", w) /\ taken' = taken + 1
           \/ Ends(c) /\ taken' = taken
    BY <1>2 DEF LoadRollback
  <2>2. CASE Ends(c) /\ taken' = taken
    BY <2>1, <2>2, NothingHeld, RequestReads DEF Ends, Points
  <2>3. CASE /\ Valid(Capture(live)) /\ RetainedSound(s)
             /\ Goes(c, "loaded", w) /\ taken' = taken + 1
    <3>1. s \in Snapshot
      BY <1>0, <2>1 DEF Holding
    <3>2. Capture(live) \in Snapshot /\ Capture(live).role = live.role
      BY <1>0, CaptureTyped
    <3>3. undo \in Record /\ undo.at = taken + 1 /\ undo.kind = "v5" /\ undo.data = Capture(live)
      BY <1>0, <2>1, <3>2, SnapshotAssumption DEF Taken, Record
    <3>4. RoleIds(Capture(live)) = RoleIds(live)
      BY <3>2 DEF RoleIds
    <3>5. kept = [r \in RoleIds(undo.data) \ RoleIds(s) |-> undo.data.role[r].cap]
      BY <3>2, <3>3, <3>4 DEF Retained
    <3>6. \A r \in DOMAIN kept : kept[r] \in Capacity
      BY <2>3 DEF RetainedSound
    <3> HIDE DEF s, undo, kept
    <3>7. LoadedHeld(w, taken')
      BY <1>0, <2>3, <3>1, <3>2, <3>3, <3>5, <3>6 DEF LoadedHeld
    <3> HIDE DEF w
    <3>8. Holding("loaded", w, stored', taken')
      BY <3>7 DEF Holding
    <3>9. RecordsSound(stored', taken')
      <4>1. \A y \in stored : y.at \in Nat
        BY <1>0, RecordAt
      <4> QED  BY <1>0, <2>1, <2>3, <4>1 DEF RecordsSound
    <3> QED  BY <1>0, <2>1, <2>3, <3>8, <3>9, RequestKeeps DEF Points
  <2> QED  BY <2>1, <2>2, <2>3
<1> QED  BY <1>1, <1>2

LEMMA RestoreStep ==
  ASSUME IInv, NEW c \in Client, RestoreOwners(c)
  PROVE  IInv'
<1> DEFINE old == work[c]
           w == [target |-> old.target, undo |-> old.undo, kept |-> old.kept,
                 orphans |-> PersonIds(live) \ PersonIds(old.target)]
<1>1. pc[c] = "loaded" /\ Goes(c, "owners", w) /\ UNCHANGED <<live, stored, taken, edits>>
  BY DEF RestoreOwners
<1>2. LoadedHeld(old, taken)
  BY <1>1 DEF IInv, Holding
<1> HIDE DEF old
<1>3. LoadedHeld(w, taken)
  BY <1>2 DEF LoadedHeld
<1> HIDE DEF w
<1>4. Holding("owners", w, stored, taken)
  BY <1>3 DEF Holding
<1> QED  BY <1>1, <1>4, RequestReads DEF Points

(* The rest of a rollback, if the survivors are still there.               *)
LEMMA CommitWrites ==
  ASSUME IInv, NEW c \in Client, CommitRollback(c), ~ UNCHANGED <<live, stored>>
  PROVE  /\ LoadedHeld(work[c], taken)
         /\ \E m \in Lookups(work[c].target) :
              live' = Restored(work[c].target, work[c].kept, work[c].orphans, m, work[c].undo.at)
         /\ stored' = LET S == stored \cup {work[c].undo} IN S \ BeyondKeep(S)
BY DEF CommitRollback, IInv, Holding

LEMMA CommitStep ==
  ASSUME IInv, NEW c \in Client, CommitRollback(c)
  PROVE  IInv'
<1>0. /\ taken \in Nat /\ taken <= MaxRecord /\ stored \in SUBSET Record /\ live \in Project
      /\ IsFiniteSet(stored) /\ RolesExist(live) /\ RecordsSound(stored, taken)
      /\ Holding(pc[c], work[c], stored, taken)
  BY TakenTyped DEF IInv, RecordsSound
<1>1. Goes(c, "idle", None) /\ UNCHANGED <<taken, edits>>
  BY DEF CommitRollback, Ends
<1>2. CASE UNCHANGED <<live, stored>>
  BY <1>1, <1>2, NothingHeld, RequestReads DEF Points
<1>3. CASE ~ UNCHANGED <<live, stored>>
  <2> DEFINE w == work[c]
             S == stored \cup {w.undo}
  <2>1. /\ LoadedHeld(w, taken)
        /\ \E m \in Lookups(w.target) :
             live' = Restored(w.target, w.kept, w.orphans, m, w.undo.at)
        /\ stored' = S \ BeyondKeep(S)
    BY <1>3, CommitWrites
  <2> HIDE DEF w
  <2>2. live' \in Project /\ RolesExist(live')
    <3>1. w.undo.at \in Generation
      BY <2>1 DEF LoadedHeld, Record, Generation
    <3>2. w.target \in Snapshot /\ \A r \in DOMAIN w.kept : w.kept[r] \in Capacity
      BY <2>1 DEF LoadedHeld
    <3>3. PICK m \in Lookups(w.target) :
            live' = Restored(w.target, w.kept, w.orphans, m, w.undo.at)
      BY <2>1
    <3> QED  BY <1>0, <3>1, <3>2, <3>3, RestoredTyped
  <2>3. RecordsSound(S, taken)
    <3>1. IsFiniteSet(S)
      BY <1>0, FS_AddElement
    <3> QED  BY <1>0, <2>1, <3>1 DEF RecordsSound, LoadedHeld
  <2>4. \A x : Outlived(stored, x) => Outlived(S, x)
    BY <2>3, OutlivedMore DEF RecordsSound
  <2> HIDE DEF S
  <2>5. \A x : Outlived(S, x) => Outlived(stored', x)
    <3>1. \A y \in BeyondKeep(S) : Outlived(S, y)
      BY <2>3, BeyondOutlived DEF RecordsSound
    <3> QED  BY <2>1, <2>3, <3>1, OutlivedStay DEF RecordsSound
  <2>6. RecordsSound(stored', taken')
    BY <1>1, <2>1, <2>3, FS_Subset DEF RecordsSound
  <2> QED  BY <1>1, <2>2, <2>4, <2>5, <2>6, NothingHeld, RequestKeeps DEF Points
<1> QED  BY <1>2, <1>3

----------------------------------------------------------------------------
(* The invariant.                                                          *)

LEMMA InvInit ==
  ASSUME Init
  PROVE  IInv
<1>1. PICK r \in Role, n \in Name, cap \in Profile :
        live = [role |-> [x \in Role |->
                  IF x = r THEN [name |-> n, cap |-> cap] ELSE None],
                person |-> [q \in Person |-> None],
                does |-> [i \in Item |-> r], row |-> [i \in Item |-> None],
                ids |-> 0, plan |-> None, state |-> "CURRENT"]
  BY DEF Init
<1>2. live \in Project /\ RolesExist(live)
  <2> DEFINE role == [x \in Role |-> IF x = r THEN [name |-> n, cap |-> cap] ELSE None]
             person == [q \in Person |-> None]
             does == [i \in Item |-> r]
             row == [i \in Item |-> None]
  <2>1. [name |-> n, cap |-> cap] \in RoleRow
    BY DEF RoleRow
  <2>2. /\ role \in [Role -> RoleRow \cup {None}] /\ role[r] # None
        /\ person \in [Person -> PersonRow \cup {None}]
        /\ does \in [Item -> Role \cup {None}] /\ \A i \in Item : does[i] = r
        /\ row \in [Item -> Row \cup {None}]
    BY <2>1, NoneIsNoRow
  <2>3. 0 \in Generation
    BY SnapshotAssumption DEF Generation
  <2>4. live = [role |-> role, person |-> person, does |-> does, row |-> row,
                ids |-> 0, plan |-> None, state |-> "CURRENT"]
    BY <1>1
  <2> HIDE DEF role, person, does, row
  <2>5. live \in Project
    BY <2>2, <2>3, <2>4, MakeProject DEF Planning
  <2>6. RolesExist(live)
    BY <2>2, <2>4 DEF RolesExist, RoleIds
  <2> QED  BY <2>5, <2>6
<1>3. RecordsSound(stored, taken)
  <2> DEFINE old == Capture(live)
             v4 == [old EXCEPT !.plan = {}, !.state = {}]
             a == [at |-> 0, kind |-> "v2", data |-> None]
             b == [at |-> 0, kind |-> "malformed", data |-> None]
             d == [at |-> 0, kind |-> "v4", data |-> v4]
  <2>1. stored = {a, b, d} /\ taken = 0
    BY DEF Init
  <2>2. old \in Snapshot
    BY <1>2, CaptureTyped
  <2> HIDE DEF old
  <2>3. v4 \in Snapshot
    BY <2>2 DEF Snapshot
  <2> HIDE DEF v4
  <2>4. /\ a \in Record /\ b \in Record /\ d \in Record
        /\ a.at = 0 /\ b.at = 0 /\ d.at = 0
        /\ a.kind = "v2" /\ b.kind = "malformed" /\ d.data \in Snapshot
    BY <2>3, SnapshotAssumption DEF Record
  <2> HIDE DEF a, b, d
  <2>5. stored = (({} \cup {a}) \cup {b}) \cup {d}
    BY <2>1
  <2>6. IsFiniteSet(stored)
    BY <2>5, FS_EmptySet, FS_AddElement
  <2>7. \A x \in stored : x.at <= taken /\ (x.kind \in {"v4", "v5"} => x.data \in Snapshot)
    BY <2>1, <2>4
  <2> QED  BY <2>1, <2>4, <2>6, <2>7 DEF RecordsSound
<1>4. /\ taken = 0 /\ edits = 0 /\ pc = [c \in Client |-> "idle"] /\ work = [c \in Client |-> None]
  BY DEF Init
<1>5. TypeOK
  BY <1>2, <1>3, <1>4, SnapshotAssumption DEF TypeOK, RecordsSound
<1>6. \A c \in Client : Holding(pc[c], work[c], stored, taken)
  BY <1>4, NothingHeld
<1> QED  BY <1>2, <1>3, <1>4, <1>5, <1>6 DEF IInv

LEMMA InvStep ==
  ASSUME IInv, [Next]_vars
  PROVE  IInv'
<1>1. ASSUME NEW c \in Client, Request(c)  PROVE IInv'
  BY <1>1, SnapshotStep, OpenStep, RestoreStep, CommitStep, CloneStep DEF Request
<1>2. CASE Edit
  <2>1. /\ live' \in Project /\ RolesExist(live')
        /\ edits < MaxEdit /\ edits' = edits + 1
        /\ UNCHANGED <<stored, taken, pc, work>>
    BY <1>2, EditTyped DEF IInv, TypeOK
  <2>2. edits' \in 0 .. MaxEdit
    BY <2>1, TakenTyped, SnapshotAssumption DEF IInv
  <2>3. TypeOK'
    BY <2>1, <2>2 DEF IInv, TypeOK
  <2> QED  BY <2>1, <2>3 DEF IInv
<1>3. CASE UNCHANGED vars
  <2>1. UNCHANGED <<live, stored, taken, edits, pc, work>>
    BY <1>3 DEF vars
  <2>2. TypeOK'
    BY <2>1 DEF IInv, TypeOK
  <2> QED  BY <2>1, <2>2 DEF IInv, RolesExist, RoleIds
<1> QED  BY <1>1, <1>2, <1>3 DEF Next

(* Whatever requests and edits interleave, the project and the records are *)
(* well formed, and what every handler holds is what it read or built.     *)
THEOREM SnapshotsInvariant == Spec => []IInv
<1>1. Init => IInv
  BY InvInit
<1>2. IInv /\ [Next]_vars => IInv'
  BY InvStep
<1> QED  BY <1>1, <1>2, PTL DEF Spec

(* A clone is the project as it was at one moment (POST /:id/clone), for   *)
(* every number of requests that commit while it is copied.                *)
THEOREM ClonesOneMoment == Spec => []CloneIsOneMoment
<1>1. IInv => CloneIsOneMoment
  BY DEF IInv, Holding, CloneIsOneMoment
<1> QED  BY <1>1, SnapshotsInvariant, PTL

----------------------------------------------------------------------------
(* Rolling back.                                                           *)

(* A request moves nobody but its own client.                              *)
LEMMA OthersStay ==
  ASSUME IInv, NEW d \in Client, Request(d), NEW c \in Client, c # d
  PROVE  pc'[c] = pc[c]
<1>1. pc \in [Client -> Points]
  BY TakenTyped DEF IInv
<1>2. \E to, w : Goes(d, to, w)
  BY DEF Request, ReadTree, ReadRest, Create, ListForPrune, Prune, OpenRollback, LoadRollback,
         RestoreOwners, CommitRollback, OpenClone, CloneProfiles, CommitClone, Fail, Ends
<1> QED  BY <1>1, <1>2 DEF Goes

(* Only the end of its transaction takes a rollback out of "owners" with   *)
(* something written.                                                      *)
LEMMA OnlyCommits ==
  ASSUME IInv, [Next]_vars, NEW c \in Client, RollsBack(c)
  PROVE  CommitRollback(c)
<1>0. pc[c] = "owners" /\ pc'[c] = "idle" /\ ~ UNCHANGED <<live, stored>>
  BY DEF RollsBack
<1>1. ASSUME NEW d \in Client, Request(d)  PROVE CommitRollback(c)
  <2>1. d = c
    BY <1>0, <1>1, OthersStay
  <2> QED
    BY <1>0, <1>1, <2>1
    DEF Request, ReadTree, ReadRest, Create, ListForPrune, Prune, OpenRollback, LoadRollback,
        RestoreOwners, OpenClone, CloneProfiles, CommitClone, Fail
<1>2. CASE Edit
  BY <1>0, <1>2, EditTyped DEF IInv, TypeOK
<1>3. CASE UNCHANGED vars
  BY <1>0, <1>3 DEF vars
<1> QED  BY <1>1, <1>2, <1>3 DEF Next

(* A person that an edit adds is a newcomer to the rollback under way.     *)
LEMMA EditsKeepTurns ==
  ASSUME IInv, InTurn, Edit, NEW c \in Client, Rewrites(c)
  PROVE  Newcomers(live', work[c])
<1> DEFINE w == work[c]
<1>0. /\ Newcomers(live, w) /\ live \in Project
      /\ live.person \in [Person -> PersonRow \cup {None}]
  BY ProjectTyped DEF InTurn, IInv, TypeOK
<1>1. ASSUME NEW q \in Person, NEW r \in Role, NEW cap, NewPerson(q), RoleFree(r),
             live'.person = [live.person EXCEPT ![q] = [of |-> r, cap |-> cap]]
      PROVE  Newcomers(live', w)
  <2>1. /\ q \notin PersonIds(w.target) \cup PersonIds(w.undo.data) \cup w.orphans
        /\ r \notin RoleIds(w.target)
    BY <1>1 DEF NewPerson, RoleFree
  <2>2. live'.person[q].of = r /\ \A p \in Person \ {q} : live'.person[p] = live.person[p]
    BY <1>0, <1>1
  <2> HIDE DEF w
  <2> QED  BY <1>0, <2>1, <2>2 DEF Newcomers, PersonIds
<1>2. ASSUME \A q \in Person : live'.person[q] \in {live.person[q], None}
      PROVE  Newcomers(live', w)
  <2> HIDE DEF w
  <2> QED  BY <1>0, <1>2 DEF Newcomers, PersonIds
<1> HIDE DEF w
<1>3. ASSUME NEW r \in Role, NEW n \in Name, CreateRole(r, n)
      PROVE  Newcomers(live', w)
  BY <1>0, <1>1, <1>3 DEF CreateRole, Edited, Project
<1>4. ASSUME NEW r \in Role, NEW q \in Person, AddPerson(q, r)
      PROVE  Newcomers(live', w)
  BY <1>0, <1>1, <1>4 DEF AddPerson, Edited, Project
<1>5. ASSUME NEW r \in Role, DeleteRole(r)
      PROVE  Newcomers(live', w)
  BY <1>0, <1>2, <1>5 DEF DeleteRole, Edited, Project
<1>6. ASSUME live'.person = live.person
      PROVE  Newcomers(live', w)
  BY <1>2, <1>6
<1>7. ASSUME NEW r \in Role, NEW n \in Name, RenameRole(r, n)
      PROVE  Newcomers(live', w)
  BY <1>0, <1>6, <1>7 DEF RenameRole, Edited, Project
<1>8. ASSUME NEW r \in Role, NEW cap \in Capacity, SetProfile(r, cap)
      PROVE  Newcomers(live', w)
  BY <1>0, <1>6, <1>8 DEF SetProfile, Edited, Project
<1>9. ASSUME NEW i \in Item, NEW r \in Role, Assign(i, r)
      PROVE  Newcomers(live', w)
  BY <1>0, <1>6, <1>9 DEF Assign, Edited, Project
<1>10. ASSUME NEW i \in Item, NEW row \in Row, Schedule(i, row)
       PROVE  Newcomers(live', w)
  BY <1>0, <1>6, <1>10 DEF Schedule, Edited, Project
<1>11. ASSUME NEW p \in Plan, Activate(p)
       PROVE  Newcomers(live', w)
  BY <1>0, <1>6, <1>11 DEF Activate, Edited, Project
<1>12. ASSUME Reset \/ Replanned
       PROVE  Newcomers(live', w)
  BY <1>0, <1>6, <1>12 DEF Reset, Replanned, Edited, Project
<1>13. Newcomers(live', w)
  BY <1>3, <1>4, <1>5, <1>7, <1>8, <1>9, <1>10, <1>11, <1>12 DEF Edit
<1> QED  BY <1>13 DEF w

(* One rollback at a time gets past the rows that they share, and the last *)
(* step of one ends the only one there is.                                 *)
LEMMA TurnStep ==
  ASSUME IInv, InTurn, [Next]_vars
  PROVE  InTurn'
<1>1. CASE Edit
  <2>1. UNCHANGED <<pc, work>>
    BY <1>1, EditTyped DEF IInv, TypeOK
  <2>2. \A c \in Client : Rewrites(c) => Newcomers(live', work[c])
    BY <1>1, EditsKeepTurns
  <2> QED  BY <2>1, <2>2 DEF InTurn, Rewrites
<1>2. CASE UNCHANGED vars
  BY <1>2 DEF vars, InTurn, Rewrites, Newcomers, PersonIds, RoleIds
<1>3. ASSUME NEW d \in Client, Request(d)
      PROVE  InTurn'
  <2>1. /\ \A c \in Client \ {d} : pc'[c] = pc[c] /\ work'[c] = work[c]
        /\ \E to, w : pc'[d] = to /\ work'[d] = w
    <3>1. \E to, w : Goes(d, to, w)
      BY <1>3 DEF Request, ReadTree, ReadRest, Create, ListForPrune, Prune, OpenRollback,
         LoadRollback, RestoreOwners, CommitRollback, OpenClone, CloneProfiles, CommitClone,
         Fail, Ends
    <3>2. pc \in [Client -> Points] /\ work = [c \in Client |-> work[c]]
      BY TakenTyped DEF IInv
    <3> QED  BY <3>1, <3>2 DEF Goes
  <2>2. CASE RestoreOwners(d)
    <3>1. /\ \A c \in Client : ~ Rewrites(c)
          /\ live' = live
          /\ Goes(d, "owners", [target |-> work[d].target, undo |-> work[d].undo,
                                kept |-> work[d].kept,
                                orphans |-> PersonIds(live) \ PersonIds(work[d].target)])
      BY <2>2 DEF RestoreOwners, ItemsFree
    <3>2. /\ work'[d].target = work[d].target
          /\ work'[d].orphans = PersonIds(live) \ PersonIds(work[d].target)
      <4>1. work = [c \in Client |-> work[c]]
        BY DEF IInv
      <4> QED  BY <3>1, <4>1 DEF Goes
    <3>3. Newcomers(live, work'[d])
      BY <3>2 DEF Newcomers
    <3> QED  BY <2>1, <3>1, <3>3 DEF InTurn, Rewrites
  <2>3. CASE CommitRollback(d)
    <3>1. pc[d] = "owners" /\ Goes(d, "idle", None)
      BY <2>3 DEF CommitRollback, Ends
    <3>2. pc'[d] = "idle"
      BY <3>1, TakenTyped DEF Goes, IInv
    <3>3. \A c \in Client : pc'[c] # "owners"
      BY <2>1, <3>1, <3>2 DEF InTurn, Rewrites
    <3> QED  BY <3>3 DEF InTurn, Rewrites
  <2>4. CASE ~ RestoreOwners(d) /\ ~ CommitRollback(d)
    <3>1. live' = live /\ \E to \in Points \ {"owners"} : \E w : Goes(d, to, w)
      BY <1>3, <2>4
      DEF Request, ReadTree, ReadRest, Create, ListForPrune, Prune, OpenRollback, LoadRollback,
          OpenClone, CloneProfiles, CommitClone, Fail, Ends, Points
    <3>2. pc'[d] # "owners"
      BY <3>1, TakenTyped DEF Goes, IInv
    <3> QED  BY <2>1, <3>1, <3>2 DEF InTurn, Rewrites
  <2> QED  BY <2>2, <2>3, <2>4
<1> QED  BY <1>1, <1>2, <1>3 DEF Next

(* The rollbacks of a project take turns at rewriting it                   *)
(* (restoreSnapshotCommonState), and whoever is added during one is not in *)
(* a role that it restores.                                                *)
THEOREM RewritersInTurn == Spec => []InTurn
<1>1. Init => InTurn
  BY DEF Init, InTurn, Rewrites
<1> QED  BY <1>1, TurnStep, SnapshotsInvariant, PTL DEF Spec

(* Each item gets a role whose name is, in lower case, the one it had.     *)
LEMMA RolesFoundAgain ==
  ASSUME NEW s, NEW m \in Lookups(s), NEW i \in Item,
         NEW now, now = RestoredDoes(s, m)[i]
  PROVE  IF s.does[i] = None \/ \A r \in RoleIds(s) : s.role[r].name # s.does[i]
         THEN now # None => Lower[s.role[now].name] = Lower[s.does[i]]
         ELSE now \in RoleIds(s) /\ Lower[s.role[now].name] = Lower[s.does[i]]
<1>1. /\ DOMAIN m = {Lower[s.role[r].name] : r \in RoleIds(s)}
      /\ \A n \in DOMAIN m : m[n] \in RoleIds(s) /\ Lower[s.role[m[n]].name] = n
  BY DEF Lookups
<1>2. now = IF s.does[i] # None /\ Lower[s.does[i]] \in DOMAIN m
            THEN m[Lower[s.does[i]]] ELSE None
  BY DEF RestoredDoes
<1> QED  BY <1>1, <1>2

(* The survivors of a rollback nobody disturbed are the rows they were.    *)
LEMMA SurvivorsStay ==
  ASSUME live \in Project, RolesExist(live), NEW s, NEW undo, undo = Capture(live),
         NEW kept, kept = [r \in RoleIds(undo) \ RoleIds(s) |-> undo.role[r].cap],
         NEW r \in RoleIds(live) \ RoleIds(s)
  PROVE  RestoredRoles(s, kept)[r] = live.role[r]
<1>1. undo.role = live.role /\ RoleIds(undo) = RoleIds(live)
  BY CaptureTyped DEF RoleIds
<1>2. live.role[r] \in RoleRow /\ r \in Role
  BY ProjectTyped DEF RoleIds
<1>3. r \in DOMAIN kept /\ kept[r] = live.role[r].cap
  BY <1>1
<1>4. RestoredRoles(s, kept)[r] = [live.role[r] EXCEPT !.cap = live.role[r].cap]
  BY <1>2, <1>3 DEF RestoredRoles
<1> QED  BY <1>2, <1>4 DEF RoleRow

(* A rollback gives back what the snapshot has, leaves alone what its      *)
(* payload does not speak of, and keeps the roles made since               *)
(* (rollbackToSnapshot), for every number of clients and of other edits.   *)
THEOREM RollbacksRestore == Spec => RollbackRestores
<1> DEFINE Gives(c) ==
  LET s == work[c].target IN
  /\ \A r \in RoleIds(s) : live'.role[r] = s.role[r]
  /\ \A q \in PersonIds(s) : live'.person[q] = s.person[q]
  /\ \A q \in PersonIds(live') \ PersonIds(s) :
       /\ q \notin PersonIds(work[c].undo.data)
       /\ live'.person[q].of \notin RoleIds(s)
  /\ s.plan # {} => live'.plan \in s.plan
  /\ IF s.state = {} THEN live'.state = live.state ELSE live'.state \in s.state
  /\ \A i \in Item :
       IF s.does[i] = None \/ \A r \in RoleIds(s) : s.role[r].name # s.does[i]
       THEN live'.does[i] # None => Lower[s.role[live'.does[i]].name] = Lower[s.does[i]]
       ELSE /\ live'.does[i] \in RoleIds(s)
            /\ Lower[s.role[live'.does[i]].name] = Lower[s.does[i]]
  /\ Undisturbed(c) =>
       \A r \in RoleIds(live) \ RoleIds(s) : live'.role[r] = live.role[r]
<1>1. ASSUME IInv, InTurn, [Next]_vars, NEW c \in Client, RollsBack(c)
      PROVE  Gives(c)
  <2> DEFINE w == work[c]
             s == w.target
  <2>0. live \in Project /\ RolesExist(live)
    BY <1>1 DEF IInv, TypeOK
  <2>1. /\ LoadedHeld(w, taken)
        /\ \E m \in Lookups(s) : live' = Restored(s, w.kept, w.orphans, m, w.undo.at)
    BY <1>1, OnlyCommits, CommitWrites DEF RollsBack
  <2>2. PICK m \in Lookups(s) : live' = Restored(s, w.kept, w.orphans, m, w.undo.at)
    BY <2>1
  <2>3. /\ s \in Snapshot /\ w.undo.at \in Generation
        /\ \A r \in DOMAIN w.kept : w.kept[r] \in Capacity
        /\ w.kept = [r \in RoleIds(w.undo.data) \ RoleIds(s) |-> w.undo.data.role[r].cap]
    BY <2>1 DEF LoadedHeld, Record, Generation
  <2>10. Newcomers(live, w)
    BY <1>1 DEF InTurn, RollsBack, Rewrites
  <2>11. w.target = s
    OBVIOUS
  <2> HIDE DEF w, s
  <2>4. /\ live'.role = RestoredRoles(s, w.kept) /\ live'.person = RestoredPeople(s, w.orphans)
        /\ live'.does = RestoredDoes(s, m)
        /\ live'.plan = RestoredPlan(s) /\ live'.state = RestoredState(s)
    <3> DEFINE kept == w.kept
               orphans == w.orphans
               ids == w.undo.at
    <3>1. live' = Restored(s, kept, orphans, m, ids)
      BY <2>2
    <3> HIDE DEF kept, orphans, ids
    <3>2. live' = [role |-> RestoredRoles(s, kept), person |-> RestoredPeople(s, orphans),
                   does |-> RestoredDoes(s, m),
                   row |-> IF s.rowIds = s.ids THEN s.row ELSE [i \in Item |-> None],
                   ids |-> ids, plan |-> RestoredPlan(s), state |-> RestoredState(s)]
      BY <3>1 DEF Restored
    <3> QED  BY <3>2 DEF kept, orphans
  <2>5. \A r \in RoleIds(s) : live'.role[r] = s.role[r]
    BY <2>4 DEF RestoredRoles, RoleIds
  <2>6. s.plan # {} => live'.plan \in s.plan
    BY <2>4 DEF RestoredPlan
  <2>7. IF s.state = {} THEN live'.state = live.state ELSE live'.state \in s.state
    BY <2>4 DEF RestoredState
  <2>8. \A i \in Item :
          IF s.does[i] = None \/ \A r \in RoleIds(s) : s.role[r].name # s.does[i]
          THEN live'.does[i] # None => Lower[s.role[live'.does[i]].name] = Lower[s.does[i]]
          ELSE /\ live'.does[i] \in RoleIds(s)
               /\ Lower[s.role[live'.does[i]].name] = Lower[s.does[i]]
    BY <2>4, RolesFoundAgain
  <2>9. w.undo.data = Capture(live) =>
          \A r \in RoleIds(live) \ RoleIds(s) : live'.role[r] = live.role[r]
    BY <2>0, <2>3, <2>4, SurvivorsStay
  <2>12. \A q \in PersonIds(s) : live'.person[q] = s.person[q]
    BY <2>4 DEF RestoredPeople, PersonIds
  <2>13. ASSUME NEW q \in PersonIds(live'), q \notin PersonIds(s)
         PROVE  q \notin PersonIds(w.undo.data) /\ live'.person[q].of \notin RoleIds(s)
    <3>1. q \in Person /\ live'.person[q] # None
      BY <2>13 DEF PersonIds
    <3>2. q \in PersonIds(live) /\ q \notin w.orphans
          /\ live'.person[q] = [live.person[q] EXCEPT !.cap = None]
      BY <2>4, <2>13, <3>1 DEF RestoredPeople
    <3>3. live.person[q] \in PersonRow
      BY <2>0, <3>2, ProjectTyped DEF PersonIds
    <3>4. live'.person[q].of = live.person[q].of
      BY <3>2, <3>3 DEF PersonRow
    <3> QED  BY <2>10, <2>11, <2>13, <3>2, <3>4 DEF Newcomers
  <2> QED  BY <2>5, <2>6, <2>7, <2>8, <2>9, <2>12, <2>13 DEF Undisturbed, w, s
<1>2. IInv /\ InTurn /\ [Next]_vars => [\A c \in Client : RollsBack(c) => Gives(c)]_vars
  BY <1>1
<1> QED  BY <1>2, SnapshotsInvariant, RewritersInTurn, PTL DEF Spec, RollbackRestores

(* What is deleted still has Keep newer restorable records beside it.      *)
LEMMA DeletedOutlived ==
  ASSUME IInv, [Next]_vars, NEW x \in stored, x \notin stored'
  PROVE  Outlived(stored', x)
<1>0. RecordsSound(stored, taken) /\ \A c \in Client : Holding(pc[c], work[c], stored, taken)
  BY DEF IInv
<1>1. ASSUME NEW c \in Client, Prune(c)  PROVE Outlived(stored', x)
  <2>1. pc[c] = "listed" /\ stored' = stored \ work[c].delete
    BY <1>1 DEF Prune
  <2>2. \A y \in work[c].delete : Outlived(stored, y)
    BY <1>0, <2>1 DEF Holding
  <2> QED  BY <1>0, <2>1, <2>2, OutlivedStay DEF RecordsSound
<1>2. ASSUME NEW c \in Client, CommitRollback(c)  PROVE Outlived(stored', x)
  <2> DEFINE S == stored \cup {work[c].undo}
  <2>1. LoadedHeld(work[c], taken) /\ stored' = S \ BeyondKeep(S)
    BY <1>2, CommitWrites
  <2>2. S \in SUBSET Record /\ IsFiniteSet(S) /\ x \in S
    BY <1>0, <2>1, FS_AddElement DEF RecordsSound, LoadedHeld
  <2> HIDE DEF S
  <2>3. \A y \in BeyondKeep(S) : Outlived(S, y)
    BY <2>2, BeyondOutlived
  <2> QED  BY <2>1, <2>2, <2>3, OutlivedStay
<1>3. CASE Edit
  BY <1>3, EditTyped DEF IInv, TypeOK
<1>4. CASE UNCHANGED vars
  BY <1>4 DEF vars
<1>5. ASSUME NEW c \in Client, Request(c)  PROVE Outlived(stored', x)
  BY <1>1, <1>2, <1>5
  DEF Request, ReadTree, ReadRest, Create, ListForPrune, OpenRollback, LoadRollback,
      RestoreOwners, OpenClone, CloneProfiles, CommitClone, Fail
<1> QED  BY <1>3, <1>4, <1>5 DEF Next

(* The undo record of a rollback nobody overtook is the newest one, and    *)
(* restorable.                                                             *)
LEMMA UndoStays ==
  ASSUME IInv, [Next]_vars, NEW c \in Client, RollsBack(c),
         Undisturbed(c), taken = work[c].undo.at
  PROVE  \E x \in Restorable(stored') : x.data = Capture(live)
<1> DEFINE undo == work[c].undo
           S == stored \cup {undo}
<1>0. RecordsSound(stored, taken)
  BY DEF IInv
<1>1. LoadedHeld(work[c], taken) /\ stored' = S \ BeyondKeep(S)
  BY OnlyCommits, CommitWrites DEF RollsBack
<1>2. undo \in Record /\ undo.kind = "v5" /\ Valid(undo.data) /\ undo.at \in Nat
  BY <1>1, RecordAt DEF LoadedHeld
<1>3. undo \in stored'
  <2>1. \A y \in S : y.at <= undo.at
    BY <1>0, <1>2 DEF RecordsSound
  <2>2. S \in SUBSET Record
    BY <1>0, <1>2 DEF RecordsSound
  <2> QED  BY <1>1, <2>1, <2>2, NewestStays
<1>4. undo \in Restorable(stored')
  BY <1>2, <1>3 DEF Restorable, Classify
<1> QED  BY <1>4 DEF Undisturbed

(* Whatever requests create, prune and roll back at the same time, the way *)
(* back from a rollback is stored, and a record is deleted only while Keep *)
(* newer restorable ones remain (pruneSnapshots).                          *)
THEOREM HistoryIsKept == Spec => HistoryKept
<1>1. IInv /\ [Next]_vars =>
        [\A c \in Client :
           RollsBack(c) /\ Undisturbed(c) /\ taken = work[c].undo.at =>
           \E x \in Restorable(stored') : x.data = Capture(live)]_vars
  BY UndoStays
<1>2. IInv /\ [Next]_vars =>
        [\A x \in stored \ stored' :
           /\ Classify(x) = "restorable"
           /\ Cardinality(NewerIn(Restorable(stored'), x)) >= Keep]_vars
  BY DeletedOutlived DEF Outlived
<1> QED  BY <1>1, <1>2, SnapshotsInvariant, PTL DEF Spec, HistoryKept, UndoIsStored, NewestKept
=============================================================================
