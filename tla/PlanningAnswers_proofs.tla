---- MODULE PlanningAnswers_proofs ----
(***************************************************************************)
(* Proofs about the audit of profile owners, the repair of duplicates and  *)
(* the readiness check, for any tables of profiles; and about the weekly   *)
(* planner, the epic leveller and the optimiser, for whatever they are     *)
(* asked, and about what people are given and cost, in any project that    *)
(* can be planned.                                                         *)
(***************************************************************************)
EXTENDS PlanningAnswers, FiniteSetTheorems, WellFoundedInduction, SequenceTheorems, TLAPS

Stored == UNION Databases

(* What an audit or a repair answers comes from the tables it was asked of. *)
AuditedRight ==
  /\ question.kind = "audit" => question.rows \in Databases
  /\ answer.kind = "audit" =>
       /\ question.kind = "audit"
       /\ answer.report = Repairable(question.rows)
       /\ answer.ready = {S \in SUBSET Range(Homes) : MigrationReady(question.rows, S)}
  /\ answer.kind = "repaired" =>
       /\ question.kind = "audit" /\ answer.fresh \in Databases
       /\ answer.rows = Repaired(Repairable(question.rows), answer.fresh)

(* An answer keeps its kind from step to step. *)
AnsweredInTurn ==
  /\ question = Nothing => answer = Nothing
  /\ answer.kind = "weeks" => answer = [kind |-> "weeks", plan |-> answer.plan, over |-> answer.over]

----
(* Rows. *)

(* Rows that say the same have the same owner. *)
LEMMA SameFields ==
  ASSUME NEW p, NEW q
  PROVE  SaysSame(p, q) <=> /\ p.project = q.project /\ p.role = q.role /\ p.person = q.person
                            /\ p.kind = q.kind /\ p.source = q.source /\ p.says = q.says
BY DEF SaysSame

(* A row is known by its id and what it says. *)
LEMMA SameRow ==
  ASSUME NEW p \in Stored, NEW q \in Stored, p.id = q.id, SaysSame(p, q)
  PROVE  p = q
<1>1. p.made = q.made BY DatabaseAssumption DEF Stored
<1>2. /\ p = [id |-> p.id, made |-> p.made, project |-> p.project, role |-> p.role, person |-> p.person,
              kind |-> p.kind, source |-> p.source, says |-> p.says]
      /\ q = [id |-> q.id, made |-> q.made, project |-> q.project, role |-> q.role, person |-> q.person,
              kind |-> q.kind, source |-> q.source, says |-> q.says]
  BY DatabaseAssumption DEF Stored
<1> QED BY <1>1, <1>2, SameFields

(* Rows with one owner have it in common if their keys are the same. *)
LEMMA SameOwner ==
  ASSUME NEW p, NEW q, ValidOwner(p), ValidOwner(q), OwnerKey(p) = OwnerKey(q)
  PROVE  p.role = q.role /\ p.person = q.person
BY DEF ValidOwner, OwnerKey

LEMMA LeastNumber ==
  ASSUME NEW T, T \subseteq Nat, T # {}
  PROVE  \E x \in T : \A y \in T : x <= y
<1> DEFINE L == OpToRel(<, Nat)
<1>1. IsWellFoundedOn(L, Nat) BY NatLessThanWellFounded
<1>2. \A a \in Nat, b \in Nat : <<a, b>> \in L <=> a < b BY DEF OpToRel
<1> HIDE DEF L
<1>3. PICK x \in T : \A y \in T : ~ (<<y, x>> \in L) BY <1>1, WFMin
<1>4. ASSUME NEW y \in T  PROVE x <= y
  <2>1. x \in Nat /\ y \in Nat /\ ~ (y < x) BY <1>2, <1>3
  <2> QED BY <2>1
<1> QED BY <1>4

LEMMA LeastFault ==
  ASSUME NEW T, T \subseteq Nat, T # {}
  PROVE  \E n \in T : n \in Nat /\ (n = 0 \/ (n - 1 \in Nat /\ n - 1 \notin T))
<1>1. PICK n \in T : \A m \in T : n <= m BY LeastNumber
<1>2. n \in Nat /\ (n = 0 \/ (n - 1 \in Nat /\ ~ (n <= n - 1))) BY <1>1
<1> QED BY <1>1, <1>2

(* selectSurvivor selects. *)
LEMMA SurvivorThere ==
  ASSUME NEW G \in SUBSET Stored, G # {}
  PROVE  Survivor(G) \in G
<1>1. \A p \in G : p.id \in Nat /\ p.made \in Nat BY DatabaseAssumption DEF Stored
<1>2. PICK m \in {p.made : p \in G} : \A n \in {p.made : p \in G} : m <= n
  <2> DEFINE T == {p.made : p \in G}
  <2>1. T \subseteq Nat /\ T # {} BY <1>1
  <2> HIDE DEF T
  <2>2. \E x \in T : \A y \in T : x <= y BY <2>1, LeastNumber
  <2> QED BY <2>2 DEF T
<1> DEFINE F == {p \in G : p.made = m}
<1>3. PICK i \in {p.id : p \in F} : \A n \in {p.id : p \in F} : i <= n
  <2> DEFINE T == {p.id : p \in F}
  <2>1. T \subseteq Nat /\ T # {} BY <1>1, <1>2
  <2> HIDE DEF T
  <2>2. \E x \in T : \A y \in T : x <= y BY <2>1, LeastNumber
  <2> QED BY <2>2 DEF T
<1>4. PICK p \in F : p.id = i BY <1>3
<1>5. ASSUME NEW q \in G  PROVE Older(p, q)
  <2>1. m <= q.made /\ p.made = m /\ m \in Nat /\ q.made \in Nat BY <1>1, <1>2, <1>4
  <2>2. CASE q.made = m
    <3>1. p.id <= q.id BY <1>3, <1>4, <2>2
    <3> QED BY <2>1, <2>2, <3>1 DEF Older
  <2>3. CASE q.made # m BY <2>1, <2>3 DEF Older
  <2> QED BY <2>2, <2>3
<1> QED BY <1>4, <1>5 DEF Survivor

----
(* Groups. *)

OfRole(rows, x) == {p \in rows : p.role = x}
OfPerson(rows, x) == {p \in rows : p.person = x}

LEMMA GroupIs ==
  ASSUME NEW rows, NEW G
  PROVE  G \in Groups(rows) <=>
           /\ Cardinality(G) > 1
           /\ \E x : /\ \E p \in rows : x \in Owners(p)
                     /\ G = OfRole(rows, x) \/ G = OfPerson(rows, x)
<1>1. G \in Groups(rows) <=>
        /\ Cardinality(G) > 1
        /\ \E x \in UNION {Owners(p) : p \in rows} : G \in {OfRole(rows, x), OfPerson(rows, x)}
  BY DEF Groups, OfRole, OfPerson
<1> QED BY <1>1

(* The group of a row with one owner is all that have this owner. *)
LEMMA GroupOfRow ==
  ASSUME NEW rows, NEW G \in Groups(rows), NEW s \in G, ValidOwner(s)
  PROVE  /\ G \subseteq rows
         /\ s.role # None => G = OfRole(rows, s.role)
         /\ s.role = None => G = OfPerson(rows, s.person)
<1>1. PICK x : /\ \E p \in rows : x \in Owners(p)
               /\ G = OfRole(rows, x) \/ G = OfPerson(rows, x)
  BY GroupIs
<1>2. x # None BY <1>1 DEF Owners
<1> QED BY <1>1, <1>2 DEF OfRole, OfPerson, ValidOwner

LEMMA NotEmpty ==
  ASSUME NEW G, Cardinality(G) > 1  PROVE G # {}
BY FS_EmptySet

(* At most one row is left of a group whose others are gone. *)
LEMMA OneLeft ==
  ASSUME NEW H, NEW s, H \subseteq {s}  PROVE ~ (Cardinality(H) > 1)
<1>1. CASE H = {}
  <2>1. Cardinality(H) = 0 BY <1>1, FS_EmptySet
  <2> QED BY <2>1
<1>2. CASE H = {s}
  <2>1. Cardinality(H) = 1 BY <1>2, FS_Singleton
  <2> QED BY <2>1
<1> QED BY <1>1, <1>2

(* An owner counts: its row is one of several, or there is no group. *)
LEMMA OwnersGroup ==
  ASSUME NEW rows, NEW p \in rows, NEW x, x \in Owners(p)
  PROVE  /\ Cardinality(OfRole(rows, x)) > 1 => OfRole(rows, x) \in Groups(rows)
         /\ Cardinality(OfPerson(rows, x)) > 1 => OfPerson(rows, x) \in Groups(rows)
BY GroupIs

----
(* The repair. *)

Matching(fresh, G) == {p \in fresh : \E q \in G : OwnerKey(p) = OwnerKey(q)}

Kept(report, fresh) == fresh \ UNION {Matching(fresh, G) \ {Survivor(Matching(fresh, G))} : G \in report}

Unchanged(report, fresh) == \A G \in report : AsAudited(G, Matching(fresh, G))

LEMMA RepairedIs ==
  ASSUME NEW report, NEW fresh
  PROVE  Repaired(report, fresh) =
           IF Unchanged(report, fresh) /\ Clean(Kept(report, fresh)) THEN Kept(report, fresh) ELSE fresh
BY DEF Repaired, Unchanged, Kept, Matching

LEMMA ReportedGroup ==
  ASSUME NEW rows \in Databases, NEW G \in Repairable(rows)
  PROVE  /\ G \in Groups(rows) /\ G \subseteq rows /\ rows \subseteq Stored
         /\ G # {} /\ IsFiniteSet(G) /\ Survivor(G) \in G
         /\ \A p \in G : ValidOwner(p)
         /\ \A p, q \in G : SaysSame(p, q)
<1>1. G \in Groups(rows) /\ Identical(G) BY DEF Repairable
<1>2. G # {} BY <1>1, GroupIs, NotEmpty
<1>3. rows \subseteq Stored BY DEF Stored
<1>4. G \subseteq rows BY <1>1, <1>2, GroupOfRow DEF Identical
<1>5. IsFiniteSet(G) BY <1>4, DatabaseAssumption, FS_Subset
<1>6. Survivor(G) \in G BY <1>2, <1>3, <1>4, SurvivorThere
<1> QED BY <1>1, <1>2, <1>3, <1>4, <1>5, <1>6 DEF Identical

(* Reported groups have no row in common. *)
LEMMA GroupsApart ==
  ASSUME NEW rows \in Databases, NEW G \in Repairable(rows), NEW H \in Repairable(rows),
         NEW s \in G, s \in H
  PROVE  G = H
<1>1. G \in Groups(rows) /\ H \in Groups(rows) /\ ValidOwner(s) BY ReportedGroup
<1> QED BY <1>1, GroupOfRow

(* What matches a group that is as it was audited is that group. *)
LEMMA MatchingIsGroup ==
  ASSUME NEW rows \in Databases, NEW fresh \in Databases,
         NEW G \in Repairable(rows), AsAudited(G, Matching(fresh, G))
  PROVE  Matching(fresh, G) = G
<1> DEFINE M == Matching(fresh, G)
<1>1. G \subseteq Stored /\ IsFiniteSet(G) BY ReportedGroup
<1>2. M \subseteq Stored BY DEF Matching, Stored
<1>3. ASSUME NEW p \in M  PROVE p \in G
  <2>1. PICK q \in G : q.id = p.id BY DEF AsAudited
  <2>2. SaysSame(p, q) BY DEF AsAudited
  <2>3. p = q BY <1>1, <1>2, <2>1, <2>2, SameRow
  <2> QED BY <2>3
<1>4. Cardinality(M) = Cardinality(G) BY DEF AsAudited
<1> HIDE DEF M
<1>5. M \subseteq G BY <1>3
<1>6. M = G BY <1>1, <1>4, <1>5, FS_Subset
<1> QED BY <1>6 DEF M

LEMMA KeptIs ==
  ASSUME NEW rows \in Databases, NEW fresh \in Databases, Unchanged(Repairable(rows), fresh)
  PROVE  /\ \A G \in Repairable(rows) : G \subseteq fresh
         /\ Kept(Repairable(rows), fresh) = fresh \ UNION {G \ {Survivor(G)} : G \in Repairable(rows)}
<1>1. \A G \in Repairable(rows) : Matching(fresh, G) = G BY MatchingIsGroup DEF Unchanged
<1>2. \A G \in Repairable(rows) : G \subseteq fresh BY <1>1 DEF Matching
<1> QED BY <1>1, <1>2 DEF Kept

(* Somebody left says what each row said. *)
LEMMA NothingLost ==
  ASSUME NEW rows \in Databases, NEW fresh \in Databases, Unchanged(Repairable(rows), fresh),
         NEW p \in fresh
  PROVE  \E q \in Kept(Repairable(rows), fresh) : SaysSame(p, q)
<1> DEFINE R == Repairable(rows)
           K == Kept(R, fresh)
<1>1. K = fresh \ UNION {G \ {Survivor(G)} : G \in R} BY KeptIs
<1>2. CASE p \in K BY <1>2, SameFields
<1>3. CASE p \notin K
  <2>1. PICK G \in R : p \in G BY <1>1, <1>3
  <2> DEFINE s == Survivor(G)
  <2>2. s \in G /\ SaysSame(p, s) BY <2>1, ReportedGroup
  <2>3. \A H \in R : s \in H => H = G BY <2>2, GroupsApart
  <2>4. s \in K BY <1>1, <2>2, <2>3, KeptIs
  <2> QED BY <2>2, <2>4
<1> QED BY <1>2, <1>3

(* What goes is as it was audited. *)
LEMMA OnlyAuditedGoes ==
  ASSUME NEW rows \in Databases, NEW fresh \in Databases, Unchanged(Repairable(rows), fresh)
  PROVE  fresh \ Kept(Repairable(rows), fresh) \subseteq rows
BY KeptIs, ReportedGroup

(* With nothing else to repair, the repair succeeds. *)
LEMMA RepairSucceeds ==
  ASSUME NEW rows \in Databases, OnlyIdenticalGroups(rows)
  PROVE  /\ Unchanged(Repairable(rows), rows)
         /\ Clean(Kept(Repairable(rows), rows))
<1> DEFINE R == Repairable(rows)
           K == Kept(R, rows)
<1>1. Groups(rows) = R /\ \A p \in rows : ValidOwner(p) BY DEF OnlyIdenticalGroups
<1>2. ASSUME NEW G \in R  PROVE AsAudited(G, Matching(rows, G))
  <2>1. G \in Groups(rows) /\ G \subseteq rows BY ReportedGroup
  <2>2. ASSUME NEW p \in rows, NEW q \in G, OwnerKey(p) = OwnerKey(q)  PROVE p \in G
    <3>1. p.role = q.role /\ p.person = q.person /\ ValidOwner(q) BY <1>1, <2>1, <2>2, SameOwner
    <3> QED BY <2>1, <3>1, GroupOfRow DEF OfRole, OfPerson
  <2>3. Matching(rows, G) = G BY <2>1, <2>2 DEF Matching
  <2> QED BY <2>3, ReportedGroup DEF AsAudited
<1>3. Unchanged(R, rows) BY <1>2 DEF Unchanged
<1>4. K = rows \ UNION {G \ {Survivor(G)} : G \in R} BY <1>3, KeptIs
<1>5. ASSUME NEW H \in Groups(K)  PROVE FALSE
  <2>1. PICK x : /\ \E p \in K : x \in Owners(p)
                 /\ H = OfRole(K, x) \/ H = OfPerson(K, x)
    BY GroupIs
  <2>2. PICK G : /\ G \in {OfRole(rows, x), OfPerson(rows, x)}
                 /\ H \subseteq G /\ G \subseteq rows /\ H \subseteq K
    BY <1>4, <2>1 DEF OfRole, OfPerson
  <2>3. Cardinality(H) > 1 /\ IsFiniteSet(rows) BY GroupIs, DatabaseAssumption
  <2>4. IsFiniteSet(G) /\ IsFiniteSet(H) /\ Cardinality(H) <= Cardinality(G)
    BY <2>2, <2>3, FS_Subset
  <2>5. Cardinality(G) \in Nat /\ Cardinality(H) \in Nat BY <2>4, FS_CardinalityType
  <2>6. Cardinality(G) > 1 BY <2>3, <2>4, <2>5
  <2>7. G \in R BY <1>1, <1>4, <2>1, <2>2, <2>6, OwnersGroup
  <2>8. H \subseteq {Survivor(G)} BY <1>4, <2>2, <2>7
  <2> QED BY <2>3, <2>8, OneLeft
<1>6. \A p \in K : ValidOwner(p) BY <1>1, <1>4
<1> QED BY <1>3, <1>5, <1>6 DEF Clean

----
(* The readiness check. *)

(* Nobody has two rows in clean tables. *)
LEMMA CleanOwners ==
  ASSUME NEW rows \in Databases, Clean(rows), NEW x
  PROVE  /\ ~ (Cardinality(OfRole(rows, x)) > 1) \/ x = None
         /\ ~ (Cardinality(OfPerson(rows, x)) > 1) \/ x = None
         /\ Cardinality(OfRole(rows, x)) \in Nat /\ Cardinality(OfPerson(rows, x)) \in Nat
         /\ IsFiniteSet(OfRole(rows, x)) /\ IsFiniteSet(OfPerson(rows, x))
<1>1. IsFiniteSet(rows) /\ Groups(rows) = {} BY DatabaseAssumption DEF Clean
<1>2. /\ IsFiniteSet(OfRole(rows, x)) /\ IsFiniteSet(OfPerson(rows, x))
      /\ Cardinality(OfRole(rows, x)) \in Nat /\ Cardinality(OfPerson(rows, x)) \in Nat
  BY <1>1, FS_Subset, FS_CardinalityType DEF OfRole, OfPerson
<1>3. ASSUME Cardinality(OfRole(rows, x)) > 1, x # None  PROVE FALSE
  <2>1. PICK p \in rows : x \in Owners(p) BY <1>3, NotEmpty DEF OfRole, Owners
  <2> QED BY <1>1, <1>3, <2>1, OwnersGroup
<1>4. ASSUME Cardinality(OfPerson(rows, x)) > 1, x # None  PROVE FALSE
  <2>1. PICK p \in rows : x \in Owners(p) BY <1>4, NotEmpty DEF OfPerson, Owners
  <2> QED BY <1>1, <1>4, <2>1, OwnersGroup
<1> QED BY <1>2, <1>3, <1>4

LEMMA ReadyReads ==
  ASSUME NEW rows \in Databases, NEW replanning, MigrationReady(rows, replanning),
         NEW r \in DOMAIN StaffOf, Homes[r] \notin replanning
  PROVE  Resolvable(StoredRole(rows, r))
<1> DEFINE staff == StaffOf[r]
           role == StoredRole(rows, r)
<1>1. Clean(rows) /\ CompleteRole(rows, r) BY DEF MigrationReady
<1>2. staff \in Seq(DOMAIN Homes) /\ r # None /\ None \notin DOMAIN Homes BY StaffAssumption
<1>3. \A i \in DOMAIN staff : staff[i] \in Range(staff) /\ staff[i] # None BY <1>2 DEF Range
<1>4. /\ role.profiles = OfRole(rows, r)
      /\ DOMAIN role.people = DOMAIN staff
      /\ \A i \in DOMAIN staff : role.people[i].profiles = OfPerson(rows, staff[i])
  BY DEF StoredRole, RowsOfRole, RowsOfPerson, OfRole, OfPerson
<1>5. ASSUME NEW i \in DOMAIN staff  PROVE Cardinality(OfPerson(rows, staff[i])) = 1
  <2>1. OfPerson(rows, staff[i]) # {} BY <1>1, <1>3 DEF CompleteRole, RowsOfPerson, OfPerson
  <2>2. /\ ~ (Cardinality(OfPerson(rows, staff[i])) > 1)
        /\ Cardinality(OfPerson(rows, staff[i])) \in Nat /\ IsFiniteSet(OfPerson(rows, staff[i]))
    BY <1>1, <1>3, CleanOwners
  <2>3. Cardinality(OfPerson(rows, staff[i])) # 0 BY <2>1, <2>2, FS_EmptySet
  <2> QED BY <2>2, <2>3
<1>6. Cardinality(OfRole(rows, r)) <= 1 BY <1>1, <1>2, CleanOwners
<1>7. ASSUME OfRole(rows, r) = {}
      PROVE  /\ DOMAIN staff # {}
             /\ \A i \in DOMAIN staff : \A p \in OfPerson(rows, staff[i]) : p.kind = "NAMED_PERSON"
  <2>1. Cardinality({p \in RowsOfRole(rows, r) : p.kind = "ROLE"}) # 1
    <3>1. {p \in RowsOfRole(rows, r) : p.kind = "ROLE"} = {} BY <1>7 DEF OfRole, RowsOfRole
    <3>2. Cardinality({p \in RowsOfRole(rows, r) : p.kind = "ROLE"}) = 0 BY <3>1, FS_EmptySet
    <3> QED BY <3>2
  <2>2. ~ NeedsProfile(rows, r) BY <1>1, <2>1 DEF CompleteRole
  <2>3. staff # <<>> BY <2>2 DEF NeedsProfile
  <2>4. DOMAIN staff # {} BY <1>2, <2>3
  <2>5. ASSUME NEW i \in DOMAIN staff, NEW p \in OfPerson(rows, staff[i])
        PROVE  p.kind = "NAMED_PERSON"
    <3>1. p \in rows /\ p.person = staff[i] /\ p.person # None BY <1>3 DEF OfPerson
    <3>2. p.kind # "PLANNED_RESOURCE" BY <1>3, <2>2, <3>1 DEF NeedsProfile, RowsOfPerson
    <3>3. ValidOwner(p) BY <1>1, <3>1 DEF Clean
    <3>4. p.kind # "ROLE" BY <3>1, <3>3 DEF ValidOwner
    <3>5. p.kind \in ProfileKind BY <3>1, DatabaseAssumption
    <3> QED BY <3>2, <3>4, <3>5 DEF ProfileKind
  <2> QED BY <2>4, <2>5
<1> HIDE DEF staff, role
<1>8. Resolvable(role) BY <1>4, <1>5, <1>6, <1>7 DEF Resolvable
<1> QED BY <1>8 DEF role

----
(* Finite sets and sums. *)

LEMMA CountIs ==
  ASSUME NEW S, IsFiniteSet(S)
  PROVE  /\ Cardinality(S) \in Nat /\ (Cardinality(S) = 0 <=> S = {})
         /\ \A T \in SUBSET S : IsFiniteSet(T) /\ Cardinality(T) \in Nat /\ Cardinality(T) <= Cardinality(S)
         /\ \A x \in S : IsFiniteSet(S \ {x}) /\ Cardinality(S \ {x}) = Cardinality(S) - 1
<1>1. Cardinality(S) \in Nat /\ (Cardinality(S) = 0 <=> S = {}) BY FS_CardinalityType, FS_EmptySet
<1>2. \A T \in SUBSET S : IsFiniteSet(T) /\ Cardinality(T) \in Nat /\ Cardinality(T) <= Cardinality(S)
  BY FS_Subset, FS_CardinalityType
<1>3. \A x \in S : IsFiniteSet(S \ {x}) /\ Cardinality(S \ {x}) = Cardinality(S) - 1
  BY FS_RemoveElement
<1> QED BY <1>1, <1>2, <1>3

(* Sets of a finite set with some fault have one that is smallest. *)
LEMMA Smallest ==
  ASSUME NEW S, IsFiniteSet(S), NEW F, F \subseteq SUBSET S, F # {}
  PROVE  \E s \in F : \A t \in F : Cardinality(s) <= Cardinality(t)
<1> DEFINE N == {Cardinality(s) : s \in F}
<1>1. N \subseteq Nat /\ N # {} BY CountIs
<1> HIDE DEF N
<1>2. PICK n \in N : \A m \in N : n <= m BY <1>1, LeastNumber
<1> QED BY <1>2 DEF N

LEMMA Minimal ==
  ASSUME NEW S, IsFiniteSet(S), NEW F, F \subseteq SUBSET S, F # {}
  PROVE  \E s \in F : s \in SUBSET S /\ \A x \in s : s \ {x} \notin F
<1>1. PICK s \in F : \A t \in F : Cardinality(s) <= Cardinality(t) BY Smallest
<1>2. ASSUME NEW x \in s  PROVE ~ (Cardinality(s) <= Cardinality(s \ {x}))
  <2>1. IsFiniteSet(s) BY CountIs
  <2>2. Cardinality(s) \in Nat /\ Cardinality(s \ {x}) = Cardinality(s) - 1 BY <2>1, CountIs
  <2> QED BY <2>2
<1> QED BY <1>1, <1>2

(* A total order has a foremost element in every finite set. *)
LEMMA FirstOfAll ==
  ASSUME NEW S, IsFiniteSet(S), S # {}, NEW R,
         \A x, y \in S : <<x, y>> \in R \/ <<y, x>> \in R,
         \A x, y, z \in S : <<x, y>> \in R /\ <<y, z>> \in R => <<x, z>> \in R
  PROVE  \E x \in S : \A y \in S : <<x, y>> \in R
<1> DEFINE F == {T \in SUBSET S : T # {} /\ ~ \E x \in T : \A y \in T : <<x, y>> \in R}
<1>1. CASE F = {} BY <1>1
<1>2. CASE F # {}
  <2>1. PICK T \in F : \A t \in F : Cardinality(T) <= Cardinality(t) BY <1>2, Smallest
  <2>2. T \in SUBSET S /\ T # {} /\ ~ \E x \in T : \A y \in T : <<x, y>> \in R BY <2>1
  <2>3. PICK a \in T : TRUE BY <2>2
  <2>4. IsFiniteSet(T) /\ Cardinality(T) \in Nat /\ Cardinality(T \ {a}) = Cardinality(T) - 1
    BY <2>2, <2>3, CountIs
  <2>5. T \ {a} \notin F
    <3>1. ~ (Cardinality(T) <= Cardinality(T \ {a})) BY <2>4
    <3> QED BY <2>1, <3>1
  <2>6. CASE T \ {a} = {}
    <3>1. T = {a} BY <2>3, <2>6
    <3> QED BY <2>2, <3>1
  <2>7. CASE T \ {a} # {}
    <3>1. PICK b \in T \ {a} : \A y \in T \ {a} : <<b, y>> \in R BY <2>2, <2>5, <2>7
    <3>2. CASE <<b, a>> \in R
      <4>1. \A y \in T : <<b, y>> \in R BY <3>1, <3>2
      <4> QED BY <2>2, <3>1, <4>1
    <3>3. CASE <<a, b>> \in R
      <4>1. <<a, a>> \in R BY <2>2, <2>3
      <4>2. \A y \in T : <<a, y>> \in R BY <2>2, <2>3, <3>1, <3>3, <4>1
      <4> QED BY <2>2, <2>3, <4>2
    <3> QED BY <2>2, <2>3, <3>1, <3>2, <3>3, ZenonT(60)
  <2> QED BY <2>6, <2>7
<1> QED BY <1>1, <1>2

LEMMA MaxMin ==
  ASSUME NEW S, IsFiniteSet(S), S # {}, S \subseteq Int
  PROVE  /\ Max(S) \in S /\ \A x \in S : x <= Max(S)
         /\ Min(S) \in S /\ \A x \in S : Min(S) <= x
<1>1. \E x \in S : \A y \in S : x >= y
  <2> DEFINE R == {z \in Int \X Int : z[1] >= z[2]}
  <2>1. \A x, y \in S : <<x, y>> \in R <=> x >= y OBVIOUS
  <2> HIDE DEF R
  <2>2. \A x, y \in S : <<x, y>> \in R \/ <<y, x>> \in R
    <3>1. \A x, y \in S : x >= y \/ y >= x OBVIOUS
    <3> QED BY <2>1, <3>1
  <2>3. \A x, y, z \in S : <<x, y>> \in R /\ <<y, z>> \in R => <<x, z>> \in R
    <3>1. \A x, y, z \in S : x >= y /\ y >= z => x >= z OBVIOUS
    <3> QED BY <2>1, <3>1
  <2>4. \E x \in S : \A y \in S : <<x, y>> \in R BY <2>2, <2>3, FirstOfAll
  <2> QED BY <2>1, <2>4
<1>2. \E x \in S : \A y \in S : x =< y
  <2> DEFINE R == {z \in Int \X Int : z[1] <= z[2]}
  <2>1. \A x, y \in S : <<x, y>> \in R <=> x <= y OBVIOUS
  <2> HIDE DEF R
  <2>2. \A x, y \in S : <<x, y>> \in R \/ <<y, x>> \in R
    <3>1. \A x, y \in S : x <= y \/ y <= x OBVIOUS
    <3> QED BY <2>1, <3>1
  <2>3. \A x, y, z \in S : <<x, y>> \in R /\ <<y, z>> \in R => <<x, z>> \in R
    <3>1. \A x, y, z \in S : x <= y /\ y <= z => x <= z OBVIOUS
    <3> QED BY <2>1, <3>1
  <2>4. \E x \in S : \A y \in S : <<x, y>> \in R BY <2>2, <2>3, FirstOfAll
  <2> QED BY <2>1, <2>4
<1>3. Max(S) \in S /\ \A y \in S : Max(S) >= y BY <1>1 DEF Max
<1>4. Min(S) \in S /\ \A y \in S : Min(S) =< y BY <1>2 DEF Min
<1> QED BY <1>3, <1>4

LEMMA TwoOf ==
  ASSUME NEW a \in Int, NEW b \in Int
  PROVE  /\ Max({a, b}) = IF a >= b THEN a ELSE b
         /\ Min({a, b}) = IF a <= b THEN a ELSE b
<1>1. IsFiniteSet({a, b})
  <2>1. {a, b} = {a} \cup {b} OBVIOUS
  <2>2. IsFiniteSet({a}) /\ IsFiniteSet({b}) BY FS_Singleton
  <2> QED BY <2>1, <2>2, FS_Union
<1>2. /\ Max({a, b}) \in {a, b} /\ \A x \in {a, b} : x <= Max({a, b})
      /\ Min({a, b}) \in {a, b} /\ \A x \in {a, b} : Min({a, b}) <= x
  BY <1>1, MaxMin
<1> QED BY <1>2

(* A running sum g of f, over every part of S. *)
Pick(s) == CHOOSE x \in s : TRUE

SumStep(f, g, s) == IF s = {} THEN 0 ELSE f[Pick(s)] + g[s \ {Pick(s)}]

IsSum(f, S, g) == g = [s \in SUBSET S |-> SumStep(f, g, s)]

LEMMA SumExists ==
  ASSUME NEW f, NEW S, IsFiniteSet(S)
  PROVE  \E g : IsSum(f, S, g)
<1> DEFINE UpTo(g, n) == /\ g = [s \in SUBSET S |-> g[s]]
                         /\ \A s \in SUBSET S : Cardinality(s) <= n => g[s] = SumStep(f, g, s)
           N == {n \in Nat : ~ \E g : UpTo(g, n)}
<1>1. N = {}
  <2> SUFFICES ASSUME N # {}  PROVE FALSE OBVIOUS
  <2>1. PICK n \in N : n \in Nat /\ (n = 0 \/ (n - 1 \in Nat /\ n - 1 \notin N)) BY LeastFault
  <2>2. n # 0
    <3> DEFINE g == [s \in SUBSET S |-> 0]
    <3>1. UpTo(g, 0)
      <4>1. \A s \in SUBSET S : Cardinality(s) <= 0 => s = {} BY CountIs
      <4> QED BY <4>1 DEF SumStep
    <3> QED BY <3>1
  <2>3. n - 1 \in Nat /\ n - 1 \notin N BY <2>1, <2>2
  <2>4. PICK g : UpTo(g, n - 1) BY <2>3
  <2> DEFINE h == [s \in SUBSET S |-> SumStep(f, g, s)]
  <2>5. ASSUME NEW s \in SUBSET S, Cardinality(s) <= n  PROVE h[s] = SumStep(f, h, s)
    <3>1. CASE s = {} BY <3>1 DEF SumStep
    <3>2. CASE s # {}
      <4>1. Pick(s) \in s BY <3>2 DEF Pick
      <4>2. Cardinality(s \ {Pick(s)}) <= n - 1
        <5>1. IsFiniteSet(s) BY CountIs
        <5>2. Cardinality(s) \in Nat /\ Cardinality(s \ {Pick(s)}) = Cardinality(s) - 1
          BY <4>1, <5>1, CountIs
        <5> QED BY <2>3, <2>5, <5>2
      <4>3. g[s \ {Pick(s)}] = SumStep(f, g, s \ {Pick(s)}) BY <2>4, <4>2
      <4>4. h[s \ {Pick(s)}] = g[s \ {Pick(s)}] BY <4>3
      <4>5. h[s] = SumStep(f, g, s) OBVIOUS
      <4> HIDE DEF h
      <4> QED BY <4>4, <4>5 DEF SumStep
    <3> QED BY <3>1, <3>2
  <2>6. h = [s \in SUBSET S |-> h[s]] OBVIOUS
  <2> HIDE DEF h
  <2>7. UpTo(h, n) BY <2>5, <2>6
  <2> QED BY <2>1, <2>7
<1>2. Cardinality(S) \in Nat /\ \A s \in SUBSET S : Cardinality(s) <= Cardinality(S) BY CountIs
<1>3. PICK g : UpTo(g, Cardinality(S)) BY <1>1, <1>2
<1>4. \A s \in SUBSET S : g[s] = SumStep(f, g, s) BY <1>2, <1>3
<1> QED BY <1>3, <1>4 DEF IsSum

LEMMA SumIs ==
  ASSUME NEW f, IsFiniteSet(DOMAIN f)
  PROVE  \E g : IsSum(f, DOMAIN f, g) /\ SumFunction(f) = g[DOMAIN f]
<1> DEFINE g == CHOOSE g : IsSum(f, DOMAIN f, g)
<1>1. IsSum(f, DOMAIN f, g) BY SumExists
<1>2. SumFunction(f) = g[DOMAIN f]
  BY DEF SumFunction, SumFunctionOnSet, FoldFunctionOnSet, MapThenFoldSet, IsSum, SumStep, Pick
<1> QED BY <1>1, <1>2

(* Numbers add up to a number, in any order. *)
Summed(f, S, g) == IsFiniteSet(S) /\ IsSum(f, S, g) /\ \A x \in S : f[x] \in Int

LEMMA SumAny ==
  ASSUME NEW f, NEW S, NEW g, Summed(f, S, g)
  PROVE  /\ g[{}] = 0
         /\ \A s \in SUBSET S : g[s] \in Int /\ \A x \in s : g[s] = f[x] + g[s \ {x}]
<1>1. IsFiniteSet(S) /\ \A x \in S : f[x] \in Int BY DEF Summed
<1>2. \A s \in SUBSET S : g[s] = SumStep(f, g, s) BY DEF Summed, IsSum
<1>3. ASSUME NEW s \in SUBSET S, s # {}
      PROVE  /\ Pick(s) \in s /\ g[s] = f[Pick(s)] + g[s \ {Pick(s)}]
             /\ \A x \in s : IsFiniteSet(s) /\ ~ (Cardinality(s) <= Cardinality(s \ {x}))
  <2>1. Pick(s) \in s BY <1>3 DEF Pick
  <2>2. g[s] = f[Pick(s)] + g[s \ {Pick(s)}] BY <1>2, <1>3 DEF SumStep
  <2>3. IsFiniteSet(s) /\ Cardinality(s) \in Nat /\ \A x \in s : Cardinality(s \ {x}) = Cardinality(s) - 1
    <3>1. IsFiniteSet(s) BY <1>1, CountIs
    <3> QED BY <3>1, CountIs
  <2>4. \A x \in s : ~ (Cardinality(s) <= Cardinality(s \ {x})) BY <2>3
  <2> QED BY <2>1, <2>2, <2>3, <2>4
<1>4. g[{}] = 0 BY <1>2 DEF SumStep
<1>5. \A s \in SUBSET S : g[s] \in Int
  <2> DEFINE F == {s \in SUBSET S : g[s] \notin Int}
  <2> SUFFICES ASSUME F # {}  PROVE FALSE OBVIOUS
  <2>1. PICK s \in F : \A t \in F : Cardinality(s) <= Cardinality(t) BY <1>1, Smallest
  <2>2. s \in SUBSET S /\ g[s] \notin Int /\ s # {}
    <3>1. s \in SUBSET S /\ g[s] \notin Int BY <2>1
    <3> QED BY <1>4, <3>1
  <2>3. Pick(s) \in s /\ g[s] = f[Pick(s)] + g[s \ {Pick(s)}] /\ s \ {Pick(s)} \notin F
    BY <1>3, <2>1, <2>2
  <2>4. g[s \ {Pick(s)}] \in Int /\ f[Pick(s)] \in Int BY <1>1, <2>2, <2>3
  <2> QED BY <2>2, <2>3, <2>4
<1>6. \A s \in SUBSET S : \A x \in s : g[s] = f[x] + g[s \ {x}]
  <2> DEFINE F == {s \in SUBSET S : \E x \in s : g[s] # f[x] + g[s \ {x}]}
  <2> SUFFICES ASSUME F # {}  PROVE FALSE OBVIOUS
  <2>1. PICK s \in F : \A t \in F : Cardinality(s) <= Cardinality(t) BY <1>1, Smallest
  <2>2. s \in SUBSET S BY <2>1
  <2>3. PICK x \in s : g[s] # f[x] + g[s \ {x}] BY <2>1
  <2> DEFINE y == Pick(s)
  <2>4. y \in s /\ g[s] = f[y] + g[s \ {y}] /\ s \ {y} \notin F /\ s \ {x} \notin F
    BY <1>3, <2>1, <2>2, <2>3
  <2> HIDE DEF y
  <2>5. x # y BY <2>3, <2>4
  <2>6. g[s \ {y}] = f[x] + g[(s \ {y}) \ {x}] /\ g[s \ {x}] = f[y] + g[(s \ {x}) \ {y}]
    BY <2>2, <2>3, <2>4, <2>5
  <2>7. (s \ {y}) \ {x} = (s \ {x}) \ {y} OBVIOUS
  <2>8. f[x] \in Int /\ f[y] \in Int /\ g[(s \ {x}) \ {y}] \in Int BY <1>1, <1>5, <2>2, <2>3, <2>4
  <2> HIDE DEF F
  <2>9. g[s] = f[y] + (f[x] + g[(s \ {x}) \ {y}]) BY <2>4, <2>6, <2>7
  <2>10. g[s] # f[x] + (f[y] + g[(s \ {x}) \ {y}]) BY <2>3, <2>6
  <2> QED BY <2>8, <2>9, <2>10
<1> QED BY <1>4, <1>5, <1>6

(* A sum that is known of every set of terms, taken apart by any of them. *)
TakenApart(f, S, g) ==
  /\ g[{}] = 0
  /\ \A s \in SUBSET S : g[s] \in Int /\ \A x \in s : g[s] = f[x] + g[s \ {x}]

LEMMA SumTaken ==
  ASSUME NEW f, NEW S, NEW g, Summed(f, S, g)
  PROVE  TakenApart(f, S, g)
BY SumAny DEF TakenApart

(* A sum over other names of the same things is the same sum. *)
LEMMA SumRenamed ==
  ASSUME NEW f, NEW S, NEW g, Summed(f, S, g), NEW e, NEW U, NEW k, Summed(e, U, k),
         NEW h, \A x \in S : h[x] \in U /\ e[h[x]] = f[x],
         \A x, y \in S : h[x] = h[y] => x = y
  PROVE  \A s \in SUBSET S : g[s] = k[{h[x] : x \in s}]
<1> DEFINE img(s) == {h[x] : x \in s}
           F == {s \in SUBSET S : g[s] # k[img(s)]}
<1> SUFFICES ASSUME F # {}  PROVE FALSE OBVIOUS
<1>1. IsFiniteSet(S) BY DEF Summed
<1>2. PICK s \in F : \A x \in s : s \ {x} \notin F BY <1>1, Minimal
<1>3. s \in SUBSET S /\ g[s] # k[img(s)] BY <1>2
<1>0. /\ g[{}] = 0 /\ \A t \in SUBSET S : g[t] \in Int /\ \A y \in t : g[t] = f[y] + g[t \ {y}]
      /\ k[{}] = 0 /\ \A t \in SUBSET U : k[t] \in Int /\ \A y \in t : k[t] = e[y] + k[t \ {y}]
  <2> HIDE DEF img, F
  <2>1. TakenApart(f, S, g) BY SumTaken
  <2>2. TakenApart(e, U, k) BY SumTaken
  <2> QED BY <2>1, <2>2 DEF TakenApart
<1>4. s # {}
  <2>1. img({}) = {} OBVIOUS
  <2> HIDE DEF img
  <2> QED BY <1>0, <1>3, <2>1
<1>5. PICK x \in s : TRUE BY <1>4
<1>6. s \ {x} \notin F BY <1>2, <1>5
<1>7. g[s \ {x}] = k[img(s \ {x})] BY <1>3, <1>6
<1>8. img(s \ {x}) = img(s) \ {h[x]} /\ h[x] \in img(s) /\ img(s) \subseteq U BY <1>3, <1>5
<1> HIDE DEF F, img
<1>9. g[s] = f[x] + g[s \ {x}] BY <1>0, <1>3, <1>5
<1>10. k[img(s)] = e[h[x]] + k[img(s) \ {h[x]}] BY <1>0, <1>8
<1> QED BY <1>3, <1>5, <1>7, <1>8, <1>9, <1>10

----
(* SumFunction. *)

Numbers(f) == IsFiniteSet(DOMAIN f) /\ \A x \in DOMAIN f : f[x] \in Int

LEMMA SumSummed ==
  ASSUME NEW f, Numbers(f)
  PROVE  \E g : Summed(f, DOMAIN f, g) /\ SumFunction(f) = g[DOMAIN f]
BY SumIs DEF Numbers, Summed

LEMMA SumInt ==
  ASSUME NEW f, Numbers(f)
  PROVE  SumFunction(f) \in Int
BY SumSummed, SumAny

LEMMA SumNone ==
  ASSUME NEW f, DOMAIN f = {}
  PROVE  SumFunction(f) = 0
<1>1. Numbers(f) BY FS_EmptySet DEF Numbers
<1> QED BY <1>1, SumSummed, SumAny

LEMMA SumMoved ==
  ASSUME NEW f, Numbers(f), NEW e, Numbers(e), NEW h,
         \A x \in DOMAIN f : h[x] \in DOMAIN e /\ e[h[x]] = f[x],
         \A x, y \in DOMAIN f : h[x] = h[y] => x = y,
         \A z \in DOMAIN e : \E x \in DOMAIN f : z = h[x]
  PROVE  SumFunction(f) = SumFunction(e)
<1>1. PICK g : Summed(f, DOMAIN f, g) /\ SumFunction(f) = g[DOMAIN f] BY SumSummed
<1>2. PICK k : Summed(e, DOMAIN e, k) /\ SumFunction(e) = k[DOMAIN e] BY SumSummed
<1>3. DOMAIN e = {h[x] : x \in DOMAIN f} OBVIOUS
<1>4. g[DOMAIN f] = k[{h[x] : x \in DOMAIN f}]
  <2>1. \A s \in SUBSET DOMAIN f : g[s] = k[{h[x] : x \in s}] BY <1>1, <1>2, SumRenamed
  <2> QED BY <2>1
<1> QED BY <1>1, <1>2, <1>3, <1>4

(* One more to add. *)
LEMMA SumAdded ==
  ASSUME NEW f, Numbers(f), NEW x \in DOMAIN f, NEW e, DOMAIN e = DOMAIN f \ {x},
         \A y \in DOMAIN e : e[y] = f[y]
  PROVE  SumFunction(f) = SumFunction(e) + f[x]
<1>1. PICK g : Summed(f, DOMAIN f, g) /\ SumFunction(f) = g[DOMAIN f] BY SumSummed
<1>2. Numbers(e) BY CountIs DEF Numbers
<1>3. PICK k : Summed(e, DOMAIN e, k) /\ SumFunction(e) = k[DOMAIN e] BY <1>2, SumSummed
<1>4. k[DOMAIN e] = g[DOMAIN e]
  <2> DEFINE h == [y \in DOMAIN e |-> y]
  <2>1. \A s \in SUBSET DOMAIN e : k[s] = g[{h[y] : y \in s}]
    <3>1. \A y \in DOMAIN e : h[y] \in DOMAIN f /\ f[h[y]] = e[y] OBVIOUS
    <3>2. \A y, z \in DOMAIN e : h[y] = h[z] => y = z OBVIOUS
    <3> HIDE DEF h
    <3> QED BY <1>1, <1>3, <3>1, <3>2, SumRenamed
  <2>2. DOMAIN e = {h[y] : y \in DOMAIN e} OBVIOUS
  <2> QED BY <2>1, <2>2
<1>5. g[DOMAIN f] = f[x] + g[DOMAIN f \ {x}] /\ g[DOMAIN f \ {x}] \in Int /\ f[x] \in Int
  BY <1>1, SumAny DEF Numbers
<1> QED BY <1>1, <1>3, <1>4, <1>5

----
(* What is asked. *)

LEMMA SeqIs ==
  ASSUME NEW s, InSeq(s)
  PROVE  Len(s) \in Nat /\ DOMAIN s = 1 .. Len(s) /\ IsFiniteSet(DOMAIN s)
<1>1. s \in Seq(Range(s)) BY DEF InSeq
<1>2. Len(s) \in Nat /\ DOMAIN s = 1 .. Len(s) BY <1>1, LenProperties
<1> QED BY <1>2, FS_Interval

LEMMA AskedIs ==
  ASSUME NEW p, IsStaffing(p)
  PROVE  /\ Len(p.roles) \in Nat /\ Roles(p) = 1 .. Len(p.roles) /\ IsFiniteSet(Roles(p))
         /\ Len(p.features) \in Nat /\ Features(p) = 1 .. Len(p.features) /\ IsFiniteSet(Features(p))
         /\ \A r \in Roles(p) : IsStaff(p.roles[r])
         /\ \A i \in Features(p) : IsWork(p, p.features[i])
BY SeqIs DEF IsStaffing, Roles, Features

LEMMA PercentInt ==
  ASSUME NEW x, HasSegments(x), NEW w
  PROVE  PercentAt(x.segments, w) \in Nat
<1> DEFINE I == {i \in 1 .. Len(x.segments) : Covers(x.segments[i], w)}
           i == IF I # {} THEN Min(I) ELSE 0
<1>1. Len(x.segments) \in Nat /\ DOMAIN x.segments = 1 .. Len(x.segments)
      /\ \A k \in DOMAIN x.segments : x.segments[k].percent \in Nat
  BY SeqIs DEF HasSegments
<1>2. PercentAt(x.segments, w) = IF i = 0 THEN 0 ELSE x.segments[i].percent
  BY DEF PercentAt, SelectInSeq
<1>3. I # {} => i \in 1 .. Len(x.segments)
  <2>1. IsFiniteSet(1 .. Len(x.segments)) /\ I \subseteq 1 .. Len(x.segments) BY <1>1, FS_Interval
  <2>2. IsFiniteSet(I) /\ I \subseteq Int BY <1>1, <2>1, FS_Subset
  <2> HIDE DEF I
  <2> QED BY <2>1, <2>2, MaxMin
<1> HIDE DEF I
<1> QED BY <1>1, <1>2, <1>3

LEMMA PeopleInt ==
  ASSUME NEW p, IsStaffing(p), NEW r \in Roles(p), NEW w
  PROVE  NamedPercent(p.roles[r], w) \in Int /\ PercentIn(p.roles[r], w) \in Int
<1> DEFINE role == p.roles[r]
<1>1. IsStaff(role) BY AskedIs
<1> HIDE DEF role
<1>2. role.count \in Nat /\ InSeq(role.people) /\ (role.segments # None => HasSegments(role))
      /\ \A k \in DOMAIN role.people : HasSegments(role.people[k])
  BY <1>1 DEF IsStaff
<1>3. NamedPercent(role, w) \in Int
  <2> DEFINE f == [i \in DOMAIN role.people |-> PercentAt(role.people[i].segments, w)]
  <2>3. IsFiniteSet(DOMAIN role.people) BY <1>2, SeqIs
  <2>4. \A i \in DOMAIN role.people : PercentAt(role.people[i].segments, w) \in Int
    BY <1>2, PercentInt
  <2>1. IsFiniteSet(DOMAIN f) /\ \A x \in DOMAIN f : f[x] \in Int BY <2>3, <2>4
  <2>2. NamedPercent(role, w) = SumFunction(f) BY DEF NamedPercent, SumOver
  <2> HIDE DEF f
  <2> QED BY <2>1, <2>2, SumInt DEF Numbers
<1>4. PercentIn(role, w) \in Int
  <2>1. CASE role.segments = None
    <3>1. Max({0, role.count - 100 * Len(role.people)}) \in Int BY <1>2, SeqIs, TwoOf
    <3> QED BY <1>3, <2>1, <3>1 DEF PercentIn
  <2>2. CASE role.segments # None BY <1>2, <1>3, <2>2, PercentInt DEF PercentIn
  <2> QED BY <2>1, <2>2
<1> QED BY <1>3, <1>4 DEF role

LEMMA CapacityInt ==
  ASSUME NEW p, IsStaffing(p), NEW r \in Roles(p), NEW w
  PROVE  /\ NamedPercent(p.roles[r], w) \in Int /\ CapacityOf(p, r, w) \in Int
         /\ FeatureCap(p, r) \in Int /\ People(p, r) \in Nat
<1> DEFINE role == p.roles[r]
           cap == Point * PercentIn(role, w)
<1>2. role.count \in Nat BY AskedIs DEF IsStaff
<1>3. NamedPercent(role, w) \in Int /\ PercentIn(role, w) \in Int BY PeopleInt
<1> HIDE DEF role
<1>5. cap \in Int /\ Point \in Int
  <2>1. Point = 6 BY DEF Point, Day
  <2> QED BY <1>3, <2>1
<1>6. \A x \in DOMAIN p.caps : p.caps[x] \in Nat BY DEF IsStaffing
<1>7. p.parallelism \in Nat BY DEF IsStaffing
<1> HIDE DEF cap
<1>8. CapacityOf(p, r, w) = IF r \in DOMAIN p.caps /\ p.caps[r] < role.count
                            THEN (cap * p.caps[r]) \div role.count ELSE cap
  BY DEF CapacityOf, Capped, role, cap
<1>9. CapacityOf(p, r, w) \in Int
  <2>1. CASE r \in DOMAIN p.caps /\ p.caps[r] < role.count
    <3>1. p.caps[r] \in Int /\ role.count \in Int /\ role.count > 0 BY <1>2, <1>6, <2>1
    <3>2. cap * p.caps[r] \in Int BY <1>5, <3>1
    <3> QED BY <1>8, <2>1, <3>1, <3>2
  <2> QED BY <1>5, <1>8, <2>1
<1>10. FeatureCap(p, r) \in Int
  <2>1. CASE r \in DOMAIN p.caps
    <3>0. 100 * p.parallelism \in Int /\ p.caps[r] \in Int BY <1>6, <1>7, <2>1
    <3>1. Min({100 * p.parallelism, p.caps[r]}) \in Int BY <3>0, TwoOf
    <3> QED BY <1>5, <2>1, <3>1 DEF FeatureCap
  <2> QED BY <1>5, <1>7, <2>1 DEF FeatureCap
<1>11. People(p, r) \in Nat
  <2>1. CASE r \in DOMAIN p.caps
    <3>1. Min({role.count, p.caps[r]}) \in Nat
      <4> DEFINE a == role.count
                 b == p.caps[r]
      <4>1. a \in Nat /\ b \in Nat BY <1>2, <1>6, <2>1
      <4> HIDE DEF a, b
      <4>2. Min({a, b}) = IF a <= b THEN a ELSE b
        <5>1. a \in Int /\ b \in Int BY <4>1
        <5> QED BY <5>1, TwoOf
      <4>3. Min({a, b}) \in Nat BY <4>1, <4>2
      <4> QED BY <4>3 DEF a, b
    <3> QED BY <2>1, <3>1 DEF People, role
  <2> QED BY <1>2, <2>1 DEF People, role
<1> QED BY <1>3, <1>9, <1>10, <1>11 DEF role

LEMMA OverlapInt ==
  ASSUME NEW from \in Int, NEW to \in Int, NEW w \in Int
  PROVE  /\ OverlapOf(from, to, w) \in Nat
         /\ OverlapOf(from, to, w) > 0 =>
              w * TicksPerWeek < to /\ from < (w + 1) * TicksPerWeek /\ from < to
<1> DEFINE a == (w + 1) * TicksPerWeek
           b == w * TicksPerWeek
<1>1. a \in Int /\ b \in Int BY ViewAssumption
<1> HIDE DEF a, b
<1>2. OverlapOf(from, to, w) = Max({0, Min({a, to}) - Max({b, from})}) BY DEF OverlapOf, a, b
<1>3. /\ Min({a, to}) = IF a <= to THEN a ELSE to
      /\ Max({b, from}) = IF b >= from THEN b ELSE from
  BY <1>1, TwoOf
<1>4. Min({a, to}) - Max({b, from}) \in Int BY <1>1, <1>3
<1>5. OverlapOf(from, to, w) = IF 0 >= Min({a, to}) - Max({b, from}) THEN 0 ELSE Min({a, to}) - Max({b, from})
  BY <1>2, <1>4, TwoOf
<1>6. OverlapOf(from, to, w) \in Nat /\ (OverlapOf(from, to, w) > 0 => b < to /\ from < a /\ from < to)
  BY <1>1, <1>3, <1>4, <1>5
<1> QED BY <1>6 DEF a, b

LEMMA OverlapNat ==
  ASSUME NEW from \in Int, NEW to \in Int, NEW w \in Int
  PROVE  OverlapOf(from, to, w) \in Nat
BY OverlapInt

LEMMA PinnedInt ==
  ASSUME NEW p, IsStaffing(p), NEW r, NEW w \in Int
  PROVE  PinnedDays(p, r, w) \in Int
<1> DEFINE e(i) == [pin \in {q \in Pins(p, i) : q.role = r} |-> PinDays(pin, w)]
           f == [i \in Features(p) |-> SumFunction(e(i))]
<1>1. ASSUME NEW i \in Features(p)  PROVE f[i] \in Int
  <2>1. /\ IsFiniteSet(Pins(p, i))
        /\ \A pin \in Pins(p, i) : pin.from \in Nat /\ pin.to \in Nat /\ pin.days \in Nat /\ pin.from < pin.to
    BY AskedIs DEF IsWork, Pins
  <2>2. ASSUME NEW pin \in Pins(p, i)  PROVE PinDays(pin, w) \in Int
    <3>0. OverlapOf(pin.from, pin.to, w) \in Nat
      <4>1. pin.from \in Int /\ pin.to \in Int BY <2>1
      <4> QED BY <4>1, OverlapNat
    <3>1. pin.days * OverlapOf(pin.from, pin.to, w) \in Int /\ pin.to - pin.from \in Int /\ pin.to - pin.from > 0
      BY <2>1, <3>0
    <3> QED BY <3>1 DEF PinDays
  <2>3. IsFiniteSet({q \in Pins(p, i) : q.role = r}) BY <2>1, FS_Subset
  <2>4. Numbers(e(i)) BY <2>2, <2>3 DEF Numbers
  <2> HIDE DEF e
  <2> QED BY <2>4, SumInt
<1>2. PinnedDays(p, r, w) = SumFunction(f) BY DEF PinnedDays, SumOver
<1>3. DOMAIN f = Features(p) OBVIOUS
<1> HIDE DEF f
<1> QED BY <1>1, <1>2, <1>3, AskedIs, SumInt DEF Numbers

LEMMA WaitsAre ==
  ASSUME NEW p, IsStaffing(p), NEW i \in Features(p)
  PROVE  Predecessors(p, i) \subseteq {0} \cup Features(p)
<1>1. p.features[i].after \subseteq {0} \cup Features(p) BY AskedIs DEF IsWork
<1>2. Earlier(p, i) # {} => Max(Earlier(p, i)) \in Features(p)
  <2>1. Earlier(p, i) \subseteq 1 .. i - 1 /\ 1 .. i - 1 \subseteq Features(p)
    BY AskedIs DEF Earlier
  <2>2. IsFiniteSet(Earlier(p, i)) /\ Earlier(p, i) \subseteq Int BY <2>1, AskedIs, FS_Subset
  <2> QED BY <2>1, <2>2, MaxMin
<1> QED BY <1>1, <1>2 DEF Predecessors

----
(* The weeks a plan may take. *)

LEMMA ImageFinite ==
  ASSUME NEW f, IsFiniteSet(DOMAIN f)
  PROVE  IsFiniteSet({f[x] : x \in DOMAIN f})
<1> DEFINE T == {f[x] : x \in DOMAIN f}
           g == [x \in DOMAIN f |-> f[x]]
<1>1. g \in Surjection(DOMAIN f, T) BY DEF Surjection
<1> HIDE DEF T, g
<1>2. IsFiniteSet(T) BY <1>1, FS_Surjection
<1> QED BY <1>2 DEF T

LEMMA MaxWith ==
  ASSUME NEW a \in Int, NEW f, IsFiniteSet(DOMAIN f), \A x \in DOMAIN f : f[x] \in Int
  PROVE  /\ Max({a} \cup {f[x] : x \in DOMAIN f}) \in Int
         /\ a <= Max({a} \cup {f[x] : x \in DOMAIN f})
         /\ \A x \in DOMAIN f : f[x] <= Max({a} \cup {f[y] : y \in DOMAIN f})
<1> DEFINE T == {f[x] : x \in DOMAIN f}
           U == {a} \cup T
<1>1. IsFiniteSet(T) /\ T \subseteq Int /\ \A x \in DOMAIN f : f[x] \in T BY ImageFinite
<1> HIDE DEF T
<1>2. IsFiniteSet(U) /\ U \subseteq Int /\ U # {}
  <2>1. IsFiniteSet({a}) BY FS_Singleton
  <2>2. IsFiniteSet(U) BY <1>1, <2>1, FS_Union
  <2> QED BY <1>1, <2>2
<1>3. Max(U) \in U /\ \A x \in U : x <= Max(U) BY <1>2, MaxMin
<1>4. Max(U) \in Int /\ a <= Max(U) /\ \A x \in DOMAIN f : f[x] <= Max(U) BY <1>1, <1>2, <1>3
<1> QED BY <1>4 DEF T

LEMMA MaxOfFour ==
  ASSUME NEW a \in Int, NEW b \in Int, NEW c \in Int, NEW d \in Int
  PROVE  Max({a, b, c, d}) \in Int
<1>2. IsFiniteSet({a, b, c, d})
  <2>1. IsFiniteSet({a}) /\ IsFiniteSet({b}) /\ IsFiniteSet({c}) /\ IsFiniteSet({d}) BY FS_Singleton
  <2>2. IsFiniteSet({a} \cup {b}) /\ IsFiniteSet({c} \cup {d}) BY <2>1, FS_Union
  <2>3. IsFiniteSet(({a} \cup {b}) \cup ({c} \cup {d})) BY <2>2, FS_Union
  <2>4. ({a} \cup {b}) \cup ({c} \cup {d}) = {a, b, c, d} OBVIOUS
  <2> QED BY <2>3, <2>4
<1> QED BY <1>2, MaxMin

LEMMA PaceIs ==
  ASSUME NEW p, IsStaffing(p), NEW days, DOMAIN days \subseteq Roles(p),
         \A r \in DOMAIN days : days[r] \in Nat
  PROVE  /\ Pace(p, days)[1] \in Int /\ Pace(p, days)[1] > 0
         /\ Pace(p, days)[2] \in Int /\ Pace(p, days)[2] > 0
<1> DEFINE N == {r \in DOMAIN days : days[r] > 0 /\ FeatureCap(p, r) > 0}
           f == [r \in N |-> <<days[r], FeatureCap(p, r)>>]
           S == {f[r] : r \in DOMAIN f} \cup {<<1, 1>>}
           R == {z \in S \X S : z[1][1] * z[2][2] >= z[2][1] * z[1][2]}
<1>1. IsFiniteSet(S) /\ S # {}
  <2>1. IsFiniteSet(N) BY AskedIs, FS_Subset
  <2>2. DOMAIN f = N OBVIOUS
  <2>3. IsFiniteSet({f[r] : r \in DOMAIN f})
    <3> HIDE DEF f
    <3> QED BY <2>1, <2>2, ImageFinite
  <2>4. IsFiniteSet({<<1, 1>>}) BY FS_Singleton
  <2> HIDE DEF f
  <2> QED BY <2>3, <2>4, FS_Union
<1>2. Pace(p, days) = CHOOSE x \in S : \A y \in S : x[1] * y[2] >= y[1] * x[2]
  <2>1. {f[r] : r \in DOMAIN f} = {<<days[r], FeatureCap(p, r)>> : r \in N} OBVIOUS
  <2> QED BY <2>1 DEF Pace
<1>3. \A x \in S : x[1] \in Int /\ x[1] > 0 /\ x[2] \in Int /\ x[2] > 0
  <2>1. \A r \in N : FeatureCap(p, r) \in Int /\ days[r] \in Int BY CapacityInt
  <2>2. \A r \in N : f[r] = <<days[r], FeatureCap(p, r)>> /\ days[r] > 0 /\ FeatureCap(p, r) > 0
    OBVIOUS
  <2>3. S = {f[r] : r \in N} \cup {<<1, 1>>} OBVIOUS
  <2> HIDE DEF f, N, S
  <2>4. ASSUME NEW x \in S, x # <<1, 1>>  PROVE x[1] \in Int /\ x[1] > 0 /\ x[2] \in Int /\ x[2] > 0
    <3>1. PICK r \in N : x = f[r] BY <2>3, <2>4
    <3> QED BY <2>1, <2>2, <3>1
  <2> QED BY <2>4
<1> HIDE DEF S, f, N
<1>4. \A x, y \in S : <<x, y>> \in R <=> x[1] * y[2] >= y[1] * x[2] OBVIOUS
<1> HIDE DEF R
<1>5. \A x, y \in S : <<x, y>> \in R \/ <<y, x>> \in R
  <2>1. \A x, y \in S : x[1] * y[2] \in Int /\ y[1] * x[2] \in Int BY <1>3
  <2>2. \A x, y \in S : x[1] * y[2] >= y[1] * x[2] \/ y[1] * x[2] >= x[1] * y[2] BY <2>1
  <2> QED BY <1>4, <2>2
<1>6. ASSUME NEW x \in S, NEW y \in S, NEW z \in S, <<x, y>> \in R, <<y, z>> \in R
      PROVE  <<x, z>> \in R
  <2>1. x[1] * y[2] >= y[1] * x[2] /\ y[1] * z[2] >= z[1] * y[2] BY <1>4, <1>6
  <2> DEFINE a == x[1]
             b == x[2]
             c == y[1]
             d == y[2]
             e == z[1]
             g == z[2]
  <2>2. a \in Int /\ b \in Int /\ c \in Int /\ d \in Int /\ e \in Int /\ g \in Int
        /\ b > 0 /\ d > 0 /\ g > 0
    BY <1>3
  <2>3. a * d >= c * b /\ c * g >= e * d BY <2>1
  <2> HIDE DEF a, b, c, d, e, g
  <2>4. (a * d) * g >= (c * b) * g BY <2>2, <2>3
  <2>5. (c * g) * b >= (e * d) * b BY <2>2, <2>3
  <2>6. d * (a * g) >= d * (e * b) BY <2>2, <2>4, <2>5
  <2>7. a * g >= e * b
    <3> DEFINE u == a * g
               v == e * b
    <3>1. u \in Int /\ v \in Int BY <2>2
    <3>2. d * u >= d * v BY <2>6
    <3> HIDE DEF u, v
    <3>3. u >= v BY <2>2, <3>1, <3>2
    <3> QED BY <3>3 DEF u, v
  <2>8. x[1] * z[2] >= z[1] * x[2] BY <2>7 DEF a, b, e, g
  <2> QED BY <1>4, <2>8
<1>7. \E x \in S : \A y \in S : <<x, y>> \in R BY <1>1, <1>5, <1>6, FirstOfAll
<1>8. \E x \in S : \A y \in S : x[1] * y[2] >= y[1] * x[2] BY <1>4, <1>7
<1>9. Pace(p, days) \in S BY <1>2, <1>8
<1> QED BY <1>3, <1>9

LEMMA CeilInt ==
  ASSUME NEW a \in Int, NEW b \in Int, b > 0
  PROVE  CeilDiv(a, b) \in Int
<1>1. a + b - 1 \in Int OBVIOUS
<1> QED BY <1>1 DEF CeilDiv

LEMMA WorkIs ==
  ASSUME NEW p, IsStaffing(p), NEW i \in Features(p)
  PROVE  /\ DOMAIN p.features[i].days \subseteq Roles(p)
         /\ \A r \in DOMAIN p.features[i].days : p.features[i].days[r] \in Nat
         /\ p.features[i].lock = None \/ p.features[i].lock \in Nat \X Nat
         /\ IsFiniteSet(Pins(p, i))
         /\ \A pin \in Pins(p, i) : pin.role \in Roles(p) /\ pin.from \in Nat /\ pin.to \in Nat
                                    /\ pin.days \in Nat /\ pin.from < pin.to
BY AskedIs DEF IsWork, Pins

LEMMA AloneInt ==
  ASSUME NEW p, IsStaffing(p), NEW i \in Features(p)
  PROVE  Alone(p, i) \in Int
<1> DEFINE x == Pace(p, p.features[i].days)
<1>1. x[1] \in Int /\ x[2] \in Int /\ x[2] > 0 BY WorkIs, PaceIs
<1>2. Alone(p, i) = CeilDiv(Fine * x[1], x[2]) BY DEF Alone
<1>3. Fine * x[1] \in Int BY <1>1 DEF Fine
<1> HIDE DEF x
<1> QED BY <1>1, <1>2, <1>3, CeilInt

LEMMA SizesInt ==
  ASSUME NEW p, IsStaffing(p)
  PROVE  /\ Serial(p) \in Int /\ Longest(p) \in Int
         /\ \A r : WorkOfRole(p, r) \in Int
         /\ \A r \in Needed(p) : DemandWeeks(p, r) \in Int
<1>1. IsFiniteSet(Demanding(p)) /\ Demanding(p) \subseteq Features(p)
  BY AskedIs, FS_Subset DEF Demanding
<1>2. Serial(p) \in Int
  <2> DEFINE f == [i \in Demanding(p) |-> Alone(p, i)]
  <2>1. Numbers(f) BY <1>1, AloneInt DEF Numbers
  <2>2. Serial(p) = SumFunction(f) BY DEF Serial, SumOver
  <2> HIDE DEF f
  <2> QED BY <2>1, <2>2, SumInt
<1>3. Longest(p) \in Int
  <2> DEFINE f == [i \in Demanding(p) |-> Alone(p, i)]
  <2>1. DOMAIN f = Demanding(p) /\ \A i \in DOMAIN f : f[i] \in Int BY <1>1, AloneInt
  <2>2. Longest(p) = Max({0} \cup {f[i] : i \in DOMAIN f})
    <3>1. {f[i] : i \in DOMAIN f} = {Alone(p, i) : i \in Demanding(p)} OBVIOUS
    <3> QED BY <3>1 DEF Longest
  <2>3. IsFiniteSet(DOMAIN f) /\ 0 \in Int BY <1>1, <2>1
  <2> HIDE DEF f
  <2>4. Max({0} \cup {f[i] : i \in DOMAIN f}) \in Int BY ONLY <2>1, <2>3, MaxWith
  <2> QED BY <2>2, <2>4
<1>4. ASSUME NEW r  PROVE WorkOfRole(p, r) \in Int
  <2> DEFINE S == {i \in Features(p) : r \in DOMAIN p.features[i].days}
             f == [i \in S |-> p.features[i].days[r]]
  <2>1. Numbers(f)
    <3>1. IsFiniteSet(S) BY AskedIs, FS_Subset
    <3>2. \A i \in S : f[i] \in Int BY WorkIs
    <3> QED BY <3>1, <3>2 DEF Numbers
  <2>2. WorkOfRole(p, r) = SumFunction(f) BY DEF WorkOfRole, SumOver
  <2> HIDE DEF f
  <2> QED BY <2>1, <2>2, SumInt
<1>5. ASSUME NEW r \in Needed(p)  PROVE DemandWeeks(p, r) \in Int
  <2> DEFINE a == Fine * WorkOfRole(p, r)
             b == Point * People(p, r)
  <2>1. r \in Roles(p) /\ People(p, r) > 0 BY DEF Needed
  <2>2. People(p, r) \in Nat BY <2>1, CapacityInt
  <2>3. a \in Int /\ b \in Int /\ b > 0 BY <1>4, <2>1, <2>2 DEF Fine, Point, Day
  <2>4. DemandWeeks(p, r) = CeilDiv(a, b) BY DEF DemandWeeks
  <2> HIDE DEF a, b
  <2> QED BY <2>3, <2>4, CeilInt
<1> QED BY <1>2, <1>3, <1>4, <1>5

LEMMA ProbeInt ==
  ASSUME NEW p, IsStaffing(p), NEW r \in Needed(p)
  PROVE  ProbeWeeks(p, r) \in Int
<1> DEFINE ends(q) == {Or(q.display.from, 0), Or(q.display.to, 0)}
           ppl == p.roles[r].people
           E == {0} \cup UNION {ends(ppl[k]) : k \in DOMAIN ppl}
           latest == Max(E)
           longest == Max({DemandWeeks(p, r), Longest(p), Serial(p)})
<1>1. r \in Roles(p) BY DEF Needed
<1>2. InSeq(ppl) /\ \A k \in DOMAIN ppl : {ppl[k].display.from, ppl[k].display.to} \subseteq Nat \cup {None}
  BY <1>1, AskedIs DEF IsStaff
<1>3. latest \in Int
  <2> DEFINE a == [k \in DOMAIN ppl |-> Or(ppl[k].display.from, 0)]
             b == [k \in DOMAIN ppl |-> Or(ppl[k].display.to, 0)]
  <2>1. IsFiniteSet(DOMAIN ppl) BY <1>2, SeqIs
  <2>2. DOMAIN a = DOMAIN ppl /\ DOMAIN b = DOMAIN ppl OBVIOUS
  <2>3. \A k \in DOMAIN ppl : a[k] \in Int /\ b[k] \in Int BY <1>2 DEF Or
  <2>4. UNION {ends(ppl[k]) : k \in DOMAIN ppl} = {a[k] : k \in DOMAIN a} \cup {b[k] : k \in DOMAIN b}
    <3>1. \A k \in DOMAIN ppl : ends(ppl[k]) = {a[k], b[k]} OBVIOUS
    <3> HIDE DEF a, b, ends
    <3> QED BY <2>2, <3>1
  <2>5. IsFiniteSet({a[k] : k \in DOMAIN a}) /\ IsFiniteSet({b[k] : k \in DOMAIN b})
    <3> HIDE DEF a, b
    <3> QED BY <2>1, <2>2, ImageFinite
  <2>6. E = ({0} \cup {a[k] : k \in DOMAIN a}) \cup {b[k] : k \in DOMAIN b} BY <2>4
  <2>7. IsFiniteSet({0}) BY FS_Singleton
  <2> HIDE DEF a, b, ends
  <2>8. IsFiniteSet(E) BY <2>5, <2>6, <2>7, FS_Union
  <2>9. E \subseteq Int /\ E # {}
    <3>1. 0 \in E /\ \A x \in E : x = 0 \/ \E k \in DOMAIN ppl : x = a[k] \/ x = b[k] BY <2>2, <2>6
    <3> HIDE DEF E
    <3> QED BY <2>3, <3>1
  <2> HIDE DEF E
  <2> QED BY <2>8, <2>9, MaxMin
<1>4. longest \in Int
  <2>1. DemandWeeks(p, r) \in Int /\ Longest(p) \in Int /\ Serial(p) \in Int BY SizesInt
  <2>2. Max({DemandWeeks(p, r), Longest(p), Serial(p), Serial(p)}) \in Int BY <2>1, MaxOfFour
  <2>3. {DemandWeeks(p, r), Longest(p), Serial(p), Serial(p)} = {DemandWeeks(p, r), Longest(p), Serial(p)}
    OBVIOUS
  <2> QED BY <2>2, <2>3
<1> HIDE DEF latest, longest
<1>5. ProbeWeeks(p, r) = Max({LeastWeeks, 3 * p.target, CeilDiv(4 * longest, Fine) + Len(p.features) + 12,
                              latest + 2 * p.target + 12})
  BY DEF ProbeWeeks, latest, longest
<1>6. CeilDiv(4 * longest, Fine) \in Int
  <2>1. 4 * longest \in Int /\ Fine \in Int /\ Fine > 0 BY <1>4 DEF Fine
  <2> QED BY <2>1, CeilInt
<1>7. /\ LeastWeeks \in Int /\ 3 * p.target \in Int
      /\ CeilDiv(4 * longest, Fine) + Len(p.features) + 12 \in Int /\ latest + 2 * p.target + 12 \in Int
  <2>1. p.target \in Nat /\ Len(p.features) \in Nat BY AskedIs DEF IsStaffing
  <2> QED BY <1>3, <1>6, <2>1, PlannerAssumption
<1> DEFINE b == 3 * p.target
           c == CeilDiv(4 * longest, Fine) + Len(p.features) + 12
           d == latest + 2 * p.target + 12
<1>8. LeastWeeks \in Int /\ b \in Int /\ c \in Int /\ d \in Int /\ ProbeWeeks(p, r) = Max({LeastWeeks, b, c, d})
  BY <1>5, <1>7
<1> HIDE DEF b, c, d
<1> QED BY <1>8, MaxOfFour

LEMMA LockEndIs ==
  ASSUME NEW p, IsStaffing(p), NEW i \in Features(p)
  PROVE  LockEnd(p, i) \in Nat /\ \A pin \in Pins(p, i) : pin.to <= LockEnd(p, i)
<1> DEFINE lock == p.features[i].lock
           f == [pin \in Pins(p, i) |-> pin.to]
           A == {0} \cup {f[pin] : pin \in DOMAIN f}
           B == IF lock = None THEN {} ELSE {lock[2]}
<1>1. DOMAIN f = Pins(p, i) /\ \A pin \in DOMAIN f : f[pin] \in Nat /\ f[pin] = pin.to BY WorkIs
<1>2. IsFiniteSet({f[pin] : pin \in DOMAIN f})
  <2>1. IsFiniteSet(DOMAIN f) BY <1>1, WorkIs
  <2> HIDE DEF f
  <2> QED BY <2>1, ImageFinite
<1>3. IsFiniteSet({0}) /\ IsFiniteSet(B) /\ B \subseteq Nat
  <2>1. IsFiniteSet({0}) /\ IsFiniteSet({lock[2]}) /\ IsFiniteSet({}) BY FS_Singleton, FS_EmptySet
  <2>2. lock # None => lock[2] \in Nat BY WorkIs
  <2> HIDE DEF lock
  <2> QED BY <2>1, <2>2
<1>4. LockEnd(p, i) = Max(A \cup B) BY DEF LockEnd
<1>5. A \subseteq Nat /\ 0 \in A /\ \A pin \in Pins(p, i) : pin.to \in A BY <1>1
<1>6. IsFiniteSet(A) BY <1>2, <1>3, FS_Union
<1> HIDE DEF A, B
<1>7. IsFiniteSet(A \cup B) BY <1>3, <1>6, FS_Union
<1> DEFINE U == A \cup B
<1>8. Max(U) \in U /\ \A x \in U : x <= Max(U)
  <2>1. U \subseteq Int /\ U # {} /\ IsFiniteSet(U) BY <1>3, <1>5, <1>7
  <2> HIDE DEF U
  <2> QED BY <2>1, MaxMin
<1>9. Max(U) \in Nat BY <1>3, <1>5, <1>8
<1> QED BY <1>4, <1>5, <1>8, <1>9

LEMMA LimitInt ==
  ASSUME NEW p, IsStaffing(p)
  PROVE  MaxWeeks(p) \in Int
<1>1. ASSUME NEW r \in Needed(p)  PROVE Delay(p, r) \in Int
  <2> DEFINE limit == ProbeWeeks(p, r)
             S == {limit} \cup {w \in 0 .. limit : CapacityOf(p, r, w) > 0}
  <2>1. limit \in Int BY ProbeInt
  <2> HIDE DEF limit
  <2>2. IsFiniteSet(0 .. limit) /\ IsFiniteSet({limit})
    <3>1. 0 \in Int OBVIOUS
    <3> QED BY <2>1, <3>1, FS_Interval, FS_Singleton
  <2>3. IsFiniteSet({w \in 0 .. limit : CapacityOf(p, r, w) > 0}) BY <2>2, FS_Subset
  <2>6. IsFiniteSet(S)
    <3> DEFINE V == {w \in 0 .. limit : CapacityOf(p, r, w) > 0}
    <3>1. IsFiniteSet(V) BY <2>3
    <3> HIDE DEF V
    <3>2. IsFiniteSet({limit} \cup V) BY <2>2, <3>1, FS_Union
    <3> QED BY <3>2 DEF V
  <2>4. IsFiniteSet(S) /\ S # {} /\ S \subseteq Int BY <2>1, <2>6
  <2>5. Delay(p, r) = Min(S) BY DEF Delay, FirstAble, limit
  <2> HIDE DEF S
  <2> QED BY <2>4, <2>5, MaxMin
<1> DEFINE delay == [r \in Needed(p) |-> Delay(p, r)]
           d == Max({0} \cup Range(delay))
           first == Max({Serial(p), Longest(p)}) + Fine * d
           f == [r \in Needed(p) |-> DemandWeeks(p, r) + Fine * delay[r]]
<1>2. IsFiniteSet(Needed(p)) BY AskedIs, FS_Subset DEF Needed
<1>3. d \in Int
  <2>1. DOMAIN delay = Needed(p) /\ \A r \in DOMAIN delay : delay[r] \in Int BY <1>1
  <2>2. Range(delay) = {delay[r] : r \in DOMAIN delay} BY DEF Range
  <2>3. IsFiniteSet(DOMAIN delay) /\ 0 \in Int BY <1>2, <2>1
  <2> HIDE DEF delay
  <2>4. Max({0} \cup {delay[r] : r \in DOMAIN delay}) \in Int BY <2>1, <2>3, MaxWith
  <2> QED BY <2>2, <2>4
<1>4. first \in Int
  <2>1. Max({Serial(p), Longest(p)}) \in Int BY SizesInt, TwoOf
  <2> HIDE DEF d
  <2> QED BY <1>3, <2>1 DEF Fine
<1>5. Aggregate(p) \in Int
  <2>1. DOMAIN f = Needed(p) /\ \A r \in DOMAIN f : f[r] \in Int BY <1>1, SizesInt DEF Fine
  <2>2. Aggregate(p) = Max({first} \cup {f[r] : r \in DOMAIN f})
    <3>1. {f[r] : r \in DOMAIN f} = {DemandWeeks(p, r) + Fine * delay[r] : r \in DOMAIN delay}
      OBVIOUS
    <3> QED BY <3>1 DEF Aggregate, AfterDelays
  <2> HIDE DEF f, first
  <2> QED BY <1>2, <1>4, <2>1, <2>2, MaxWith
<1>6. CeilDiv(4 * Aggregate(p), Fine) \in Int
  <2>1. 4 * Aggregate(p) \in Int /\ Fine \in Int /\ Fine > 0 BY <1>5 DEF Fine
  <2> QED BY <2>1, CeilInt
<1>7. LatestPin(p) \in Int
  <2> DEFINE g == [i \in Features(p) |-> LockEnd(p, i)]
  <2>1. DOMAIN g = Features(p) /\ IsFiniteSet(DOMAIN g) /\ \A i \in DOMAIN g : g[i] \in Int
    BY AskedIs, LockEndIs
  <2>2. LatestPin(p) = Max({0} \cup {g[i] : i \in DOMAIN g})
    <3>1. {g[i] : i \in DOMAIN g} = {LockEnd(p, i) : i \in Features(p)} OBVIOUS
    <3> QED BY <3>1 DEF LatestPin
  <2> HIDE DEF g
  <2>3. Max({0} \cup {g[i] : i \in DOMAIN g}) \in Int
    <3>1. 0 \in Int OBVIOUS
    <3> QED BY <2>1, <3>1, MaxWith
  <2> QED BY <2>2, <2>3
<1>8. CeilDiv(LatestPin(p), TicksPerWeek) \in Int BY <1>7, CeilInt, ViewAssumption
<1>9. /\ LeastWeeks \in Int /\ 3 * p.target \in Int
      /\ CeilDiv(4 * Aggregate(p), Fine) + Len(p.features) + 12 \in Int
      /\ CeilDiv(LatestPin(p), TicksPerWeek) + Len(p.features) + 12 \in Int
  <2>1. p.target \in Nat /\ Len(p.features) \in Nat BY AskedIs DEF IsStaffing
  <2> DEFINE a == CeilDiv(4 * Aggregate(p), Fine)
             b == CeilDiv(LatestPin(p), TicksPerWeek)
  <2>2. a \in Int /\ b \in Int /\ LeastWeeks \in Int BY <1>6, <1>8, PlannerAssumption
  <2> HIDE DEF a, b
  <2>3. 3 * p.target \in Int /\ a + Len(p.features) + 12 \in Int /\ b + Len(p.features) + 12 \in Int
    BY ONLY <2>1, <2>2
  <2> QED BY <2>2, <2>3 DEF a, b
<1> DEFINE y == 3 * p.target
           z == CeilDiv(4 * Aggregate(p), Fine) + Len(p.features) + 12
           v == CeilDiv(LatestPin(p), TicksPerWeek) + Len(p.features) + 12
<1>10. LeastWeeks \in Int /\ y \in Int /\ z \in Int /\ v \in Int /\ MaxWeeks(p) = Max({LeastWeeks, y, z, v})
  BY <1>9 DEF MaxWeeks
<1> HIDE DEF y, z, v
<1> QED BY <1>10, MaxOfFour

----
(* A week of a plan. *)

(* What is left of the work of each feature. *)
LeftTyped(p, s) ==
  /\ s.week \in Nat /\ DOMAIN s.left = Features(p)
  /\ \A i \in Features(p) : /\ DOMAIN s.left[i] = DOMAIN p.features[i].days
                            /\ \A r \in DOMAIN s.left[i] : s.left[i][r] \in Nat

LEMMA PacedIs ==
  ASSUME NEW p, IsStaffing(p), NEW s, LeftTyped(p, s), NEW i \in Features(p)
  PROVE  /\ PacedOver(p, s, i)[1] \in Int /\ PacedOver(p, s, i)[1] > 0
         /\ PacedOver(p, s, i)[2] \in Int
<1> DEFINE lock == p.features[i].lock
           T == TicksPerWeek
<1>1. T \in Nat /\ T > 0 /\ s.week \in Nat /\ p.target \in Nat
  BY ViewAssumption DEF LeftTyped, IsStaffing
<1>2. CASE lock # None
  <2> DEFINE a == lock[2] - T * s.week
             b == Max({T, a})
  <2>1. lock[2] \in Nat BY <1>2, WorkIs
  <2>2. a \in Int /\ T \in Int BY <1>1, <2>1
  <2> HIDE DEF a, lock, T
  <2>3. b \in Int /\ b >= T BY <2>2, TwoOf
  <2>4. PacedOver(p, s, i) = <<b, T>> BY <1>2 DEF PacedOver, lock, T, a
  <2> HIDE DEF b
  <2> QED BY <1>1, <2>3, <2>4
<1>3. CASE lock = None /\ s.week >= p.target BY <1>3 DEF PacedOver
<1>4. CASE lock = None /\ ~ (s.week >= p.target)
  <2> DEFINE pace == Pace(p, s.left[i])
             weeks == p.target - s.week
  <2>1. pace[1] \in Int /\ pace[1] > 0 /\ pace[2] \in Int BY WorkIs, PaceIs DEF LeftTyped
  <2>2. weeks \in Int /\ weeks > 0 BY <1>1, <1>4
  <2>3. PacedOver(p, s, i) = NoLonger(pace, weeks) BY <1>4 DEF PacedOver
  <2> HIDE DEF pace, weeks
  <2> QED BY <2>1, <2>2, <2>3 DEF NoLonger
<1> QED BY <1>2, <1>3, <1>4

LEMMA WantedIs ==
  ASSUME NEW p, IsStaffing(p), NEW s, LeftTyped(p, s), NEW i \in Features(p), NEW r \in DOMAIN s.left[i]
  PROVE  /\ FeatureCap(p, r) \in Int
         /\ Room(p, s, i, r) \in Int /\ Room(p, s, i, r) <= s.left[i][r] /\ Room(p, s, i, r) <= FeatureCap(p, r)
         /\ Wanted(p, s, i, r) \in Int /\ Wanted(p, s, i, r) <= Room(p, s, i, r)
<1> DEFINE left == s.left[i][r]
           over == PacedOver(p, s, i)
           room == Room(p, s, i, r)
           per == PerWeek(left, over)
           win == WindowShare(p, s, i, r)
           cap == FeatureCap(p, r)
<1>1. r \in Roles(p) /\ left \in Nat /\ s.week \in Nat BY WorkIs DEF LeftTyped
<1>2. cap \in Int /\ CapacityOf(p, r, s.week) \in Int BY <1>1, CapacityInt
<1>3. over[1] \in Int /\ over[1] > 0 /\ over[2] \in Int BY PacedIs
<1>4. room = Min({left, cap}) BY DEF Room
<1>5. Wanted(p, s, i, r) = Min({room, per} \cup win) BY DEF Wanted
<1>6. IsFiniteSet(win) /\ win \subseteq Int
  <2> DEFINE lock == p.features[i].lock
             c == CapacityOf(p, r, s.week)
             o == OverlapOf(lock[1], lock[2], s.week)
             T == TicksPerWeek
  <2>1. CASE lock = None BY <2>1, FS_EmptySet DEF WindowShare
  <2>2. CASE lock # None
    <3>1. lock[1] \in Int /\ lock[2] \in Int /\ s.week \in Int BY <1>1, <2>2, WorkIs
    <3>2. o \in Int
      <4> DEFINE from == lock[1]
                 to == lock[2]
                 w == s.week
      <4>1. from \in Int /\ to \in Int /\ w \in Int BY <3>1
      <4> HIDE DEF from, to, w, lock
      <4>2. OverlapOf(from, to, w) \in Nat BY <4>1, OverlapNat
      <4> QED BY <4>2 DEF from, to, w
    <3> HIDE DEF lock
    <3>3. T \in Nat \ {0} BY ViewAssumption
    <3>4. win = {(c * x) \div T : x \in {o} \ {T}} BY <2>2 DEF WindowShare, lock
    <3> HIDE DEF o, c, T, win
    <3>5. c * o \in Int BY <1>2, <3>2 DEF c
    <3>6. (c * o) \div T \in Int BY <3>3, <3>5
    <3>7. win \subseteq {(c * o) \div T} BY <3>4
    <3>8. IsFiniteSet({(c * o) \div T}) BY FS_Singleton
    <3>9. IsFiniteSet(win) BY <3>7, <3>8, FS_Subset
    <3> QED BY <3>6, <3>7, <3>9
  <2> QED BY <2>1, <2>2
<1>7. per \in Int
  <2> DEFINE a == left * over[2]
             b == over[1]
  <2>1. a \in Int /\ b \in Int /\ b > 0 BY <1>1, <1>3
  <2>2. per = CeilDiv(a, b) BY DEF PerWeek
  <2> HIDE DEF a, b
  <2> QED BY <2>1, <2>2, CeilInt
<1> HIDE DEF left, over, room, per, win, cap
<1>8. room \in Int /\ room <= left /\ room <= cap
  <2>1. left \in Int BY <1>1
  <2>2. cap \in Int BY <1>2
  <2>3. Min({left, cap}) = IF left <= cap THEN left ELSE cap BY <2>1, <2>2, TwoOf
  <2> QED BY <1>4, <2>1, <2>2, <2>3
<1>9. Wanted(p, s, i, r) \in Int /\ Wanted(p, s, i, r) <= room
  <2> DEFINE S == {room, per} \cup win
  <2>1. IsFiniteSet({room}) /\ IsFiniteSet({per}) BY FS_Singleton
  <2>2. IsFiniteSet({room} \cup {per}) BY <2>1, FS_Union
  <2>3. IsFiniteSet(({room} \cup {per}) \cup win) BY <1>6, <2>2, FS_Union
  <2>4. S = ({room} \cup {per}) \cup win OBVIOUS
  <2>5. IsFiniteSet(S) /\ S \subseteq Int /\ room \in S BY <1>6, <1>7, <1>8, <2>3, <2>4
  <2> HIDE DEF S
  <2>6. Min(S) \in S /\ \A x \in S : Min(S) <= x BY <2>5, MaxMin
  <2>7. Min(S) \in Int /\ Min(S) <= room BY <2>5, <2>6
  <2> QED BY <1>5, <2>7 DEF S
<1> QED BY <1>2, <1>8, <1>9 DEF left, room, cap

(* compareFeatures, written out. *)
Turned(p, s, i) == IF s.started[i] # None THEN 0 ELSE 1

Sooner(p, s, i, j) ==
  \/ p.features[i].epic < p.features[j].epic
  \/ p.features[i].epic = p.features[j].epic /\ Turned(p, s, i) < Turned(p, s, j)
  \/ p.features[i].epic = p.features[j].epic /\ Turned(p, s, i) = Turned(p, s, j) /\ i < j

LEMMA BeforeIs ==
  ASSUME NEW p, NEW s, NEW i, NEW j
  PROVE  Before(p, s, i, j) <=> Sooner(p, s, i, j)
<1> DEFINE x == <<p.features[i].epic, Turned(p, s, i), i>>
           y == <<p.features[j].epic, Turned(p, s, j), j>>
<1>1. Before(p, s, i, j) <=> \E n \in 1 .. 3 : x[n] < y[n] /\ \A m \in 1 .. n - 1 : x[m] = y[m]
  BY DEF Before, Turned
<1>2. /\ x[1] = p.features[i].epic /\ x[2] = Turned(p, s, i) /\ x[3] = i
      /\ y[1] = p.features[j].epic /\ y[2] = Turned(p, s, j) /\ y[3] = j
  OBVIOUS
<1> HIDE DEF x, y
<1>3. ASSUME NEW n \in 1 .. 3, x[n] < y[n], \A m \in 1 .. n - 1 : x[m] = y[m]  PROVE Sooner(p, s, i, j)
  <2>1. CASE n = 1 BY <1>2, <1>3, <2>1 DEF Sooner
  <2>2. CASE n = 2
    <3>1. x[1] = y[1] BY <1>3, <2>2
    <3> QED BY <1>2, <1>3, <2>2, <3>1 DEF Sooner
  <2>3. CASE n = 3
    <3>1. x[1] = y[1] /\ x[2] = y[2] BY <1>3, <2>3
    <3> QED BY <1>2, <1>3, <2>3, <3>1 DEF Sooner
  <2> QED BY <2>1, <2>2, <2>3
<1>4. ASSUME Sooner(p, s, i, j)  PROVE \E n \in 1 .. 3 : x[n] < y[n] /\ \A m \in 1 .. n - 1 : x[m] = y[m]
  <2>1. CASE x[1] < y[1]
    <3>1. \A m \in 1 .. 1 - 1 : x[m] = y[m] OBVIOUS
    <3> QED BY <2>1, <3>1
  <2>2. CASE x[1] = y[1] /\ x[2] < y[2]
    <3>1. \A m \in 1 .. 2 - 1 : x[m] = y[m] BY <2>2
    <3> QED BY <2>2, <3>1
  <2>3. CASE x[1] = y[1] /\ x[2] = y[2] /\ x[3] < y[3]
    <3>1. \A m \in 1 .. 3 - 1 : m = 1 \/ m = 2 OBVIOUS
    <3> QED BY <2>3, <3>1
  <2> QED BY <1>2, <1>4, <2>1, <2>2, <2>3 DEF Sooner
<1> QED BY <1>1, <1>3, <1>4

(* The order of the candidates is total. *)
LEMMA ForemostIs ==
  ASSUME NEW p, IsStaffing(p), NEW s, NEW S, S \subseteq Features(p), S # {}
  PROVE  Foremost(p, s, S) \in S
<1> DEFINE R == {z \in S \X S : z[1] = z[2] \/ Sooner(p, s, z[1], z[2])}
<1>1. IsFiniteSet(S) /\ \A i \in S : i \in Int /\ p.features[i].epic \in Int /\ Turned(p, s, i) \in Int
  <2>1. \A i \in S : p.features[i].epic \in DOMAIN p.epics /\ i \in Int BY AskedIs DEF IsWork
  <2>2. \A i \in S : p.features[i].epic \in Int BY <2>1, SeqIs DEF IsStaffing
  <2> QED BY <2>1, <2>2, AskedIs, FS_Subset DEF Turned
<1>3. \A i, j \in S : <<i, j>> \in R <=> i = j \/ Sooner(p, s, i, j) OBVIOUS
<1> HIDE DEF R
<1>4. \A i, j \in S : i # j => Sooner(p, s, i, j) \/ Sooner(p, s, j, i) BY <1>1 DEF Sooner
<1>5. \A i, j, k \in S : Sooner(p, s, i, j) /\ Sooner(p, s, j, k) => Sooner(p, s, i, k)
  BY <1>1 DEF Sooner
<1>6. \E i \in S : \A j \in S : <<i, j>> \in R
  <2>1. \A i, j \in S : <<i, j>> \in R \/ <<j, i>> \in R BY <1>3, <1>4
  <2>2. \A i, j, k \in S : <<i, j>> \in R /\ <<j, k>> \in R => <<i, k>> \in R BY <1>3, <1>5
  <2> QED BY <1>1, <2>1, <2>2, FirstOfAll
<1>7. \E i \in S : \A j \in S \ {i} : Before(p, s, i, j) BY <1>3, <1>6, BeforeIs
<1> QED BY <1>7 DEF Foremost

----
(* The shares of a role. *)

TurnNext(p, s, C, r, acc) ==
  LET i == Foremost(p, s, C \ DOMAIN acc.share)
      share == Max({0, Min({acc.left, Wanted(p, s, i, r)})})
  IN  [left |-> acc.left - share,
       share |-> [j \in {i} \cup DOMAIN acc.share |-> IF j = i THEN share ELSE acc.share[j]]]

TurnStep(p, s, C, r, free, g, n) ==
  IF n = 0 THEN [left |-> free, share |-> <<>>] ELSE TurnNext(p, s, C, r, g[n - 1])

IsTurns(p, s, C, r, free, g) == g = [n \in 0 .. Cardinality(C) |-> TurnStep(p, s, C, r, free, g, n)]

LEMMA TurnsExist ==
  ASSUME NEW p, NEW s, NEW C, IsFiniteSet(C), NEW r, NEW free
  PROVE  \E g : IsTurns(p, s, C, r, free, g)
<1> DEFINE N == Cardinality(C)
           UpTo(g, n) == /\ g = [k \in 0 .. N |-> g[k]]
                         /\ \A k \in 0 .. N : k <= n => g[k] = TurnStep(p, s, C, r, free, g, k)
           F == {n \in Nat : ~ \E g : UpTo(g, n)}
<1>1. N \in Nat BY CountIs
<1> HIDE DEF N
<1>2. F = {}
  <2> SUFFICES ASSUME F # {}  PROVE FALSE OBVIOUS
  <2>1. PICK n \in F : n \in Nat /\ (n = 0 \/ (n - 1 \in Nat /\ n - 1 \notin F)) BY LeastFault
  <2>2. n # 0
    <3> DEFINE g == [k \in 0 .. N |-> [left |-> free, share |-> <<>>]]
    <3>1. UpTo(g, 0)
      <4>1. \A k \in 0 .. N : k <= 0 => k = 0 BY <1>1
      <4> QED BY <4>1 DEF TurnStep
    <3> QED BY <3>1
  <2>3. n \in Nat /\ n - 1 \in Nat /\ n - 1 \notin F BY <2>1, <2>2
  <2>4. PICK g : UpTo(g, n - 1) BY <2>3
  <2> DEFINE h == [k \in 0 .. N |-> TurnStep(p, s, C, r, free, g, k)]
  <2>5. ASSUME NEW k \in 0 .. N, k <= n  PROVE h[k] = TurnStep(p, s, C, r, free, h, k)
    <3>1. CASE k = 0 BY <3>1 DEF TurnStep
    <3>2. CASE k # 0
      <4>1. k - 1 \in 0 .. N /\ k - 1 <= n - 1 BY <1>1, <2>3, <2>5, <3>2
      <4>2. g[k - 1] = TurnStep(p, s, C, r, free, g, k - 1) BY <2>4, <4>1
      <4>3. h[k - 1] = g[k - 1] BY <4>1, <4>2
      <4>4. h[k] = TurnStep(p, s, C, r, free, g, k) OBVIOUS
      <4> HIDE DEF h
      <4> QED BY <4>3, <4>4 DEF TurnStep
    <3> QED BY <3>1, <3>2
  <2>6. h = [k \in 0 .. N |-> h[k]] OBVIOUS
  <2> HIDE DEF h
  <2>7. UpTo(h, n) BY <2>5, <2>6
  <2> QED BY <2>1, <2>7
<1>3. PICK g : UpTo(g, N) BY <1>1, <1>2
<1>4. \A k \in 0 .. N : g[k] = TurnStep(p, s, C, r, free, g, k) BY <1>1, <1>3
<1>5. g = [k \in 0 .. N |-> TurnStep(p, s, C, r, free, g, k)] BY <1>3, <1>4
<1> QED BY <1>5 DEF IsTurns, N

LEMMA TurnsAre ==
  ASSUME NEW p, NEW s, NEW C, IsFiniteSet(C), NEW r, NEW free
  PROVE  \E g : IsTurns(p, s, C, r, free, g) /\ InTurn(p, s, C, r, free) = g[Cardinality(C)].share
<1> DEFINE g == CHOOSE g : IsTurns(p, s, C, r, free, g)
<1>1. IsTurns(p, s, C, r, free, g) BY TurnsExist
<1>2. InTurn(p, s, C, r, free) = g[Cardinality(C)].share BY DEF InTurn, IsTurns, TurnStep, TurnNext
<1> QED BY <1>1, <1>2

(* Those who get something. *)
Got(share) == [j \in {k \in DOMAIN share : share[k] > 0} |-> share[j]]

With(share, i, x) == [j \in {i} \cup DOMAIN share |-> IF j = i THEN x ELSE share[j]]

NatsOf(f) == IsFiniteSet(DOMAIN f) /\ \A x \in DOMAIN f : f[x] \in Nat

LEMMA GotNumbers ==
  ASSUME NEW share, NatsOf(share)
  PROVE  Numbers(Got(share))
<1>1. DOMAIN Got(share) \subseteq DOMAIN share /\ \A j \in DOMAIN Got(share) : Got(share)[j] = share[j]
  BY DEF Got
<1>2. IsFiniteSet(DOMAIN Got(share)) BY <1>1, FS_Subset DEF NatsOf
<1> QED BY <1>1, <1>2 DEF Numbers, NatsOf

LEMMA GotMore ==
  ASSUME NEW share, NatsOf(share), NEW i, i \notin DOMAIN share, NEW x \in Nat
  PROVE  NatsOf(With(share, i, x)) /\ SumFunction(Got(With(share, i, x))) = SumFunction(Got(share)) + x
<1> DEFINE more == With(share, i, x)
           e == Got(share)
           f == Got(more)
<1>1. DOMAIN more = {i} \cup DOMAIN share /\ more[i] = x /\ \A j \in DOMAIN share : more[j] = share[j]
  BY DEF With
<1>2. NatsOf(more)
  <2>1. IsFiniteSet({i}) /\ IsFiniteSet(DOMAIN share) BY FS_Singleton DEF NatsOf
  <2>2. IsFiniteSet({i} \cup DOMAIN share) BY <2>1, FS_Union
  <2> HIDE DEF more
  <2> QED BY <1>1, <2>2 DEF NatsOf
<1>3. Numbers(e) /\ Numbers(f) BY <1>2, GotNumbers
<1>4. DOMAIN e = {k \in DOMAIN share : share[k] > 0} /\ DOMAIN f = {k \in DOMAIN more : more[k] > 0}
      /\ (\A k \in DOMAIN e : e[k] = share[k]) /\ (\A k \in DOMAIN f : f[k] = more[k])
  BY DEF Got
<1>5. SumFunction(e) \in Int BY <1>3, SumInt
<1>6. CASE x = 0
  <2>1. f = e
    <3>1. DOMAIN e = DOMAIN f /\ \A k \in DOMAIN e : e[k] = f[k]
      <4> HIDE DEF more, e, f
      <4> QED BY <1>1, <1>4, <1>6
    <3>2. e = [k \in DOMAIN e |-> e[k]] /\ f = [k \in DOMAIN f |-> f[k]] BY DEF Got
    <3> HIDE DEF e, f
    <3> QED BY <3>1, <3>2
  <2> HIDE DEF e, f, more
  <2> QED BY <1>2, <1>5, <1>6, <2>1 DEF e, f, more
<1>7. CASE x > 0
  <2> HIDE DEF e, f, more
  <2>1. i \in DOMAIN f /\ DOMAIN e = DOMAIN f \ {i} /\ f[i] = x /\ \A k \in DOMAIN e : e[k] = f[k]
    BY <1>1, <1>4, <1>7
  <2>2. SumFunction(f) = SumFunction(e) + f[i] BY <1>3, <2>1, SumAdded
  <2> QED BY <1>2, <2>1, <2>2 DEF e, f, more
<1> QED BY <1>6, <1>7

(* A turn leaves what it does not give. *)
MayWork(p, s, i, r) == i \in Features(p) /\ r \in DOMAIN s.left[i]

ShareFits(p, s, i, r, x) == x \in Nat /\ (x > 0 => x <= Room(p, s, i, r))

FairTurn(p, s, C, r, free, acc, n) ==
  /\ acc.left \in Nat
  /\ DOMAIN acc.share \subseteq C /\ Cardinality(DOMAIN acc.share) = n
  /\ \A i \in DOMAIN acc.share : ShareFits(p, s, i, r, acc.share[i])
  /\ acc.left + SumFunction(Got(acc.share)) = free

LEMMA OneTurn ==
  ASSUME NEW p, IsStaffing(p), NEW s, LeftTyped(p, s), NEW C, IsFiniteSet(C), NEW r,
         \A i \in C : MayWork(p, s, i, r), NEW free, NEW acc, NEW n \in Nat, n < Cardinality(C),
         FairTurn(p, s, C, r, free, acc, n)
  PROVE  FairTurn(p, s, C, r, free, TurnNext(p, s, C, r, acc), n + 1)
<1> DEFINE i == Foremost(p, s, C \ DOMAIN acc.share)
           want == Wanted(p, s, i, r)
           x == Max({0, Min({acc.left, want})})
           share == acc.share
           left == acc.left
           next == TurnNext(p, s, C, r, acc)
<1>1. left \in Nat /\ DOMAIN share \subseteq C /\ Cardinality(DOMAIN share) = n
      /\ (\A j \in DOMAIN share : ShareFits(p, s, j, r, share[j]))
      /\ left + SumFunction(Got(share)) = free
  BY DEF FairTurn
<1>2. next.left = left - x /\ next.share = With(share, i, x) BY DEF TurnNext, With
<1>3. i \in C /\ i \notin DOMAIN share
  <2> DEFINE S == C \ DOMAIN acc.share
  <2>1. S # {}
    <3>1. ~ (C \subseteq DOMAIN share)
      <4>1. C # DOMAIN share BY <1>1
      <4> QED BY <1>1, <4>1
    <3> QED BY <3>1
  <2>2. S \subseteq Features(p) BY DEF MayWork
  <2> HIDE DEF S
  <2>3. Foremost(p, s, S) \in S BY <2>1, <2>2, ForemostIs
  <2> QED BY <2>3 DEF S
<1> HIDE DEF i
<1>4. want \in Int /\ want <= Room(p, s, i, r) /\ Room(p, s, i, r) \in Int
  <2>1. i \in Features(p) /\ r \in DOMAIN s.left[i] BY <1>3 DEF MayWork
  <2> QED BY <2>1, WantedIs
<1> DEFINE m == Min({left, want})
<1>5. m = IF left <= want THEN left ELSE want
  <2> HIDE DEF left, want
  <2>1. left \in Int /\ want \in Int BY <1>1, <1>4
  <2> QED BY <2>1, TwoOf
<1>6. x = Max({0, m}) OBVIOUS
<1> HIDE DEF left, want, m, x
<1>7. m \in Int BY <1>1, <1>4, <1>5
<1>8. x = IF 0 >= m THEN 0 ELSE m BY <1>6, <1>7, TwoOf
<1>9. x \in Nat /\ x <= left /\ (x > 0 => x <= Room(p, s, i, r)) BY <1>1, <1>4, <1>5, <1>7, <1>8
<1>10. NatsOf(share)
  <2>1. IsFiniteSet(DOMAIN share) BY <1>1, FS_Subset
  <2> QED BY <1>1, <2>1 DEF NatsOf, ShareFits
<1>11. SumFunction(Got(With(share, i, x))) = SumFunction(Got(share)) + x
  BY <1>3, <1>9, <1>10, GotMore
<1>12. SumFunction(Got(share)) \in Int BY <1>10, GotNumbers, SumInt
<1>13. DOMAIN With(share, i, x) = {i} \cup DOMAIN share BY DEF With
<1>14. Cardinality({i} \cup DOMAIN share) = n + 1
  <2>1. IsFiniteSet(DOMAIN share) BY <1>10 DEF NatsOf
  <2>2. Cardinality(DOMAIN share \cup {i}) = Cardinality(DOMAIN share) + 1
    BY <1>3, <2>1, FS_AddElement
  <2>3. DOMAIN share \cup {i} = {i} \cup DOMAIN share OBVIOUS
  <2> QED BY <1>1, <2>2, <2>3
<1>15. \A j \in {i} \cup DOMAIN share : ShareFits(p, s, j, r, With(share, i, x)[j])
  <2>1. ASSUME NEW j \in {i} \cup DOMAIN share  PROVE ShareFits(p, s, j, r, With(share, i, x)[j])
    <3>1. CASE j = i
      <4>1. With(share, i, x)[j] = x BY <3>1 DEF With
      <4> QED BY <1>9, <3>1, <4>1 DEF ShareFits
    <3>2. CASE j # i
      <4>1. With(share, i, x)[j] = share[j] /\ j \in DOMAIN share BY <3>2 DEF With
      <4> QED BY <1>1, <4>1
    <3> QED BY <3>1, <3>2
  <2> QED BY <2>1
<1>16. left - x \in Nat /\ (left - x) + (SumFunction(Got(share)) + x) = free BY <1>1, <1>9, <1>12
<1> HIDE DEF next, share
<1> QED BY <1>1, <1>2, <1>3, <1>11, <1>13, <1>14, <1>15, <1>16 DEF FairTurn, next

ShareOut(p, s, C, r, free, share) ==
  /\ DOMAIN share = C
  /\ \A i \in C : ShareFits(p, s, i, r, share[i])
  /\ SumFunction(Got(share)) <= free

LEMMA InTurnFits ==
  ASSUME NEW p, IsStaffing(p), NEW s, LeftTyped(p, s), NEW C, IsFiniteSet(C), NEW r,
         \A i \in C : MayWork(p, s, i, r), NEW free \in Nat
  PROVE  ShareOut(p, s, C, r, free, InTurn(p, s, C, r, free))
<1> DEFINE N == Cardinality(C)
<1>1. N \in Nat BY CountIs
<1>2. PICK g : IsTurns(p, s, C, r, free, g) /\ InTurn(p, s, C, r, free) = g[N].share BY TurnsAre
<1> HIDE DEF N
<1>3. \A n \in 0 .. N : g[n] = TurnStep(p, s, C, r, free, g, n) BY <1>2 DEF IsTurns, N
<1> DEFINE F == {n \in 0 .. N : ~ FairTurn(p, s, C, r, free, g[n], n)}
<1>4. F = {}
  <2> SUFFICES ASSUME F # {}  PROVE FALSE OBVIOUS
  <2>0. F \subseteq Nat BY <1>1
  <2>1. PICK n \in F : \A m \in F : n <= m
    <3> HIDE DEF F
    <3> QED BY <2>0, LeastNumber
  <2>2. n \in 0 .. N /\ n \in Nat /\ ~ FairTurn(p, s, C, r, free, g[n], n) BY <1>1, <2>1
  <2>3. n # 0
    <3> DEFINE acc == [left |-> free, share |-> <<>>]
    <3>1. g[0] = acc
      <4>1. 0 \in 0 .. N BY <1>1
      <4> QED BY <1>3, <4>1 DEF TurnStep
    <3>2. acc.left = free /\ acc.share = <<>> OBVIOUS
    <3>3. DOMAIN acc.share = {} OBVIOUS
    <3> HIDE DEF acc
    <3>4. Cardinality(DOMAIN acc.share) = 0 BY <3>3, FS_EmptySet
    <3>5. SumFunction(Got(acc.share)) = 0
      <4>1. DOMAIN Got(acc.share) = {} BY <3>3 DEF Got
      <4> QED BY <4>1, SumNone
    <3>6. FairTurn(p, s, C, r, free, acc, 0) BY <3>2, <3>3, <3>4, <3>5 DEF FairTurn
    <3> QED BY <2>2, <3>1, <3>6
  <2>4. n - 1 \in 0 .. N /\ n - 1 \in Nat /\ n - 1 < N /\ (n - 1) + 1 = n /\ ~ (n <= n - 1)
    BY <1>1, <2>2, <2>3
  <2>5. FairTurn(p, s, C, r, free, g[n - 1], n - 1) BY <2>1, <2>4
  <2>6. g[n] = TurnNext(p, s, C, r, g[n - 1]) BY <1>3, <2>2, <2>3 DEF TurnStep
  <2> DEFINE m == n - 1
  <2>7. m \in Nat /\ m < Cardinality(C) /\ FairTurn(p, s, C, r, free, g[m], m) /\ m + 1 = n
    BY <2>4, <2>5 DEF N
  <2>8. g[n] = TurnNext(p, s, C, r, g[m]) BY <2>6
  <2> HIDE DEF m
  <2>9. FairTurn(p, s, C, r, free, TurnNext(p, s, C, r, g[m]), m + 1) BY <2>7, OneTurn
  <2> QED BY <2>2, <2>7, <2>8, <2>9
<1>5. FairTurn(p, s, C, r, free, g[N], N) BY <1>1, <1>4
<1> DEFINE share == InTurn(p, s, C, r, free)
<1>6. share = g[N].share BY <1>2
<1> HIDE DEF share
<1>7. DOMAIN share \subseteq C /\ Cardinality(DOMAIN share) = Cardinality(C)
      /\ (\A i \in DOMAIN share : ShareFits(p, s, i, r, share[i]))
      /\ g[N].left \in Nat /\ g[N].left + SumFunction(Got(share)) = free
  BY <1>5, <1>6 DEF FairTurn, N
<1>8. DOMAIN share = C
  <2> SUFFICES ASSUME NEW x \in C, x \notin DOMAIN share  PROVE FALSE
    BY <1>7
  <2>1. DOMAIN share \subseteq C \ {x} BY <1>7
  <2>2. IsFiniteSet(C \ {x}) /\ Cardinality(C \ {x}) = Cardinality(C) - 1 BY CountIs
  <2>3. Cardinality(DOMAIN share) <= Cardinality(C \ {x}) BY <2>1, <2>2, CountIs
  <2> QED BY <1>1, <1>7, <2>2, <2>3 DEF N
<1>9. SumFunction(Got(share)) \in Int
  <2>1. NatsOf(share) BY <1>7, <1>8 DEF NatsOf, ShareFits
  <2> QED BY <2>1, GotNumbers, SumInt
<1> QED BY <1>7, <1>8, <1>9 DEF ShareOut, share

LEMMA SharesFit ==
  ASSUME NEW p, IsStaffing(p), NEW s, LeftTyped(p, s), NEW C, IsFiniteSet(C), NEW r,
         \A i \in C : MayWork(p, s, i, r), NEW free \in Nat
  PROVE  ShareOut(p, s, C, r, free, Shares(p, s, C, r, free))
<1>1. CASE ~ \E i \in C : C = {i} /\ p.features[i].lock = None
  <2>1. Shares(p, s, C, r, free) = InTurn(p, s, C, r, free) BY <1>1 DEF Shares
  <2> QED BY <2>1, InTurnFits
<1>2. ASSUME NEW i \in C, C = {i}, p.features[i].lock = None
      PROVE  ShareOut(p, s, C, r, free, Shares(p, s, C, r, free))
  <2> DEFINE room == Room(p, s, i, r)
             m == Min({free, room})
             x == Max({0, m})
             none == [j \in {} |-> 0]
             share == Shares(p, s, C, r, free)
  <2>1. share = [j \in C |-> Max({0, Min({free, Room(p, s, j, r)})})] BY <1>2 DEF Shares
  <2>2. room \in Int
    <3>1. i \in Features(p) /\ r \in DOMAIN s.left[i] BY DEF MayWork
    <3> QED BY <3>1, WantedIs
  <2>3. share = With(none, i, x)
    <3>1. DOMAIN none = {} OBVIOUS
    <3>2. With(none, i, x) = [j \in C |-> x] BY <1>2, <3>1 DEF With
    <3>3. \A j \in C : Max({0, Min({free, Room(p, s, j, r)})}) = x BY <1>2
    <3> HIDE DEF none, share, x
    <3> QED BY <2>1, <3>2, <3>3
  <2>4. m = IF free <= room THEN free ELSE room
    <3> HIDE DEF room
    <3>1. free \in Int OBVIOUS
    <3> QED BY <2>2, <3>1, TwoOf
  <2> HIDE DEF room, m
  <2>5. m \in Int BY <2>2, <2>4
  <2>6. x = IF 0 >= m THEN 0 ELSE m BY <2>5, TwoOf
  <2> HIDE DEF x
  <2>7. x \in Nat /\ x <= free /\ (x > 0 => x <= room) BY <2>2, <2>4, <2>5, <2>6
  <2>8. NatsOf(none) /\ i \notin DOMAIN none /\ SumFunction(Got(none)) = 0
    <3>1. DOMAIN none = {} OBVIOUS
    <3>2. DOMAIN Got(none) = {} BY <3>1 DEF Got
    <3> HIDE DEF none
    <3> QED BY <3>1, <3>2, FS_EmptySet, SumNone DEF NatsOf
  <2> HIDE DEF none, share
  <2>9. SumFunction(Got(share)) = x
    <3>1. SumFunction(Got(With(none, i, x))) = SumFunction(Got(none)) + x BY <2>7, <2>8, GotMore
    <3> QED BY <2>3, <2>7, <2>8, <3>1
  <2>10. DOMAIN share = C /\ \A j \in C : share[j] = x /\ j = i
    <3>1. DOMAIN none = {} BY DEF none
    <3> QED BY <1>2, <2>3, <3>1 DEF With
  <2> QED BY <2>7, <2>9, <2>10 DEF ShareOut, ShareFits, share, room
<1> QED BY <1>1, <1>2

----
(* A plan between two weeks, and within one. *)

PlanShape(s) ==
  s = [week |-> s.week, limit |-> s.limit, refused |-> s.refused, left |-> s.left,
       started |-> s.started, done |-> s.done, given |-> s.given, last |-> s.last]

Entry(i, r, w, x) == [feature |-> i, role |-> r, week |-> w, days |-> x]

GivenTyped(p, s) ==
  /\ IsFiniteSet(s.given)
  /\ \A g \in s.given : /\ g = Entry(g.feature, g.role, g.week, g.days)
                        /\ g.feature \in Features(p) /\ g.role \in DOMAIN p.features[g.feature].days
                        /\ g.week \in Nat /\ g.days \in Nat

PlanTyped(p, s) ==
  /\ PlanShape(s) /\ LeftTyped(p, s) /\ GivenTyped(p, s)
  /\ s.limit \in Int /\ s.refused \in BOOLEAN
  /\ DOMAIN s.started = Features(p) /\ DOMAIN s.done = Features(p)
  /\ \A i \in Features(p) : s.started[i] \in Nat \cup {None} /\ s.done[i] \in Int \cup {None}

(* What a feature waits for was done before some moment. *)
Waited(p, s, i, m) == \A j \in Predecessors(p, i) : j # 0 /\ s.done[j] # None /\ s.done[j] < m

(* A plan with everything worked on before week w, or in that week by the
   first n roles for features that were ready. *)
WorkedUpTo(s, n, ready) ==
  \A g \in s.given : g.week < s.week \/ (g.week = s.week /\ g.role <= n /\ g.feature \in ready)

GivenIn(s, r, w) == {g \in s.given : g.role = r /\ g.week = w}
GivenOf(s, i, r) == {g \in s.given : g.feature = i /\ g.role = r}

Days(S) == SumFunction([g \in S |-> g.days])

StaffedSoFar(p, s) ==
  /\ \A r \in Roles(p), w \in 0 .. s.limit - 1 :
       Days(GivenIn(s, r, w)) + PinnedDays(p, r, w) <= CapacityOf(p, r, w)
  /\ \A g \in s.given : g.week < s.limit /\ g.days <= FeatureCap(p, g.role)

ConservedSoFar(p, s) ==
  \A i \in Features(p) : \A r \in DOMAIN p.features[i].days :
    Days(GivenOf(s, i, r)) + s.left[i][r] = p.features[i].days[r]

(* In its time: after what it waits for, and within its window. *)
Timely(p, s, g) ==
  /\ Waited(p, s, g.feature, Moment(g.week))
  /\ LET lock == p.features[g.feature].lock
     IN  lock # None => OverlapOf(lock[1], lock[2], g.week) > 0 /\ s.started[g.feature] = lock[1]

EndsAfter(p, s, j) ==
  /\ \A g \in s.given : g.feature = j => Moment(g.week) <= s.done[j]
  /\ \A pin \in Pins(p, j) : 2 * pin.to - 1 <= s.done[j]

Seen(p, s, i) == (\E g \in s.given : g.feature = i) \/ (~HasDemand(p, i) /\ s.done[i] # None)

Underway(p, s, i) ==
  PinsWait(p, s, i) /\ (p.features[i].lock # None => s.started[i] = p.features[i].lock[1])

OrderedSoFar(p, s) ==
  /\ \A g \in s.given : Timely(p, s, g)
  /\ \A i \in Features(p) : /\ s.done[i] # None => EndsAfter(p, s, i)
                            /\ Seen(p, s, i) => PinsWait(p, s, i)
                            /\ s.started[i] # None /\ s.done[i] = None => Underway(p, s, i)

ToDo(p, s, ready) ==
  /\ ready \subseteq Features(p)
  /\ \A i \in ready : HasDemand(p, i) \/ s.done[i] # None
  /\ \A i \in ready : HasDemand(p, i) =>
       /\ s.done[i] = None /\ Waited(p, s, i, Moment(s.week))
       /\ LET lock == p.features[i].lock IN lock # None => OverlapOf(lock[1], lock[2], s.week) > 0

SoundSoFar(p, s, n, ready) ==
  WorkedUpTo(s, n, ready) /\ StaffedSoFar(p, s) /\ ConservedSoFar(p, s) /\ OrderedSoFar(p, s)

(* Within a week, after n roles. *)
WeekInv(p, s, n, ready) ==
  /\ PlanTyped(p, s) /\ PinsFit(p, s.limit) /\ s.week < s.limit /\ ToDo(p, s, ready)
  /\ ~ s.refused => SoundSoFar(p, s, n, ready)

(* Between two weeks. *)
PlanInv(p, s) == PlanTyped(p, s) /\ (~ s.refused => PinsFit(p, s.limit) /\ SoundSoFar(p, s, 0, {}))

LEMMA EntryIs ==
  ASSUME NEW i, NEW r, NEW w, NEW x
  PROVE  /\ Entry(i, r, w, x).feature = i /\ Entry(i, r, w, x).role = r
         /\ Entry(i, r, w, x).week = w /\ Entry(i, r, w, x).days = x
BY DEF Entry

LEMMA DaysIs ==
  ASSUME NEW S  PROVE SumOver(S, LAMBDA g : g.days) = Days(S)
BY DEF SumOver, Days

LEMMA DaysInt ==
  ASSUME NEW S, IsFiniteSet(S), \A g \in S : g.days \in Nat
  PROVE  Numbers([g \in S |-> g.days]) /\ Days(S) \in Int
<1> DEFINE f == [g \in S |-> g.days]
<1>1. DOMAIN f = S /\ \A g \in S : f[g] \in Int OBVIOUS
<1> HIDE DEF f
<1>2. Numbers(f) BY <1>1 DEF Numbers
<1>3. SumFunction(f) \in Int BY <1>2, SumInt
<1> QED BY <1>2, <1>3 DEF f, Days

LEMMA DaysAdded ==
  ASSUME NEW S, IsFiniteSet(S), \A g \in S : g.days \in Nat, NEW e, e \notin S, e.days \in Nat
  PROVE  Days(S \cup {e}) = Days(S) + e.days
<1> DEFINE T == S \cup {e}
           f == [g \in T |-> g.days]
           k == [g \in S |-> g.days]
<1>1. IsFiniteSet(T) /\ \A g \in T : g.days \in Nat BY FS_AddElement
<1>2. Numbers(f) BY <1>1, DaysInt
<1>3. DOMAIN k = DOMAIN f \ {e} /\ (\A g \in DOMAIN k : k[g] = f[g]) /\ e \in DOMAIN f /\ f[e] = e.days
  OBVIOUS
<1> HIDE DEF f, k
<1>4. SumFunction(f) = SumFunction(k) + f[e] BY <1>2, <1>3, SumAdded
<1> QED BY <1>3, <1>4 DEF f, k, Days

(* Entries of several features add up to their shares. *)
LEMMA DaysShared ==
  ASSUME NEW share, NatsOf(share), NEW r, NEW w
  PROVE  Days({Entry(i, r, w, share[i]) : i \in DOMAIN Got(share)}) = SumFunction(Got(share))
<1> DEFINE f == Got(share)
           S == {Entry(i, r, w, share[i]) : i \in DOMAIN f}
           e == [g \in S |-> g.days]
           h == [i \in DOMAIN f |-> Entry(i, r, w, share[i])]
<1>1. Numbers(f) BY GotNumbers
<1>2. \A i \in DOMAIN f : f[i] = share[i] /\ share[i] \in Nat BY DEF Got, NatsOf
<1>3. DOMAIN h = DOMAIN f /\ DOMAIN e = S /\ S = {h[i] : i \in DOMAIN h} OBVIOUS
<1>4. \A i \in DOMAIN f : h[i] = Entry(i, r, w, share[i]) /\ h[i] \in S OBVIOUS
<1>5. \A g \in S : e[g] = g.days OBVIOUS
<1> HIDE DEF f, h, S, e
<1>6. \A i \in DOMAIN f : h[i].days = share[i] /\ h[i].feature = i BY <1>4, EntryIs
<1>7. IsFiniteSet(S) BY <1>1, <1>3, ImageFinite DEF Numbers
<1>8. Numbers(e)
  <2>1. \A g \in S : \E i \in DOMAIN f : g = h[i] BY <1>3
  <2>2. \A g \in S : e[g] \in Int BY <1>2, <1>5, <1>6, <2>1
  <2> QED BY <1>3, <1>7, <2>2 DEF Numbers
<1>9. \A i \in DOMAIN f : h[i] \in DOMAIN e /\ e[h[i]] = f[i] BY <1>2, <1>3, <1>4, <1>5, <1>6
<1>10. \A i, j \in DOMAIN f : h[i] = h[j] => i = j BY <1>6
<1>11. \A z \in DOMAIN e : \E i \in DOMAIN f : z = h[i] BY <1>3
<1>12. SumFunction(f) = SumFunction(e) BY <1>1, <1>8, <1>9, <1>10, <1>11, SumMoved
<1> QED BY <1>12 DEF e, S, Days, f

(* What Worked leaves. *)
IsWorked(p, s, r, share, t) ==
  LET of == DOMAIN Got(share)
  IN  /\ PlanShape(t) /\ t.week = s.week /\ t.limit = s.limit /\ t.done = s.done
      /\ t.refused = (s.refused \/ \E i \in of : s.started[i] = None /\ ~PinsWait(p, s, i))
      /\ t.left = [i \in Features(p) |->
                     IF i \in of THEN [s.left[i] EXCEPT ![r] = @ - share[i]] ELSE s.left[i]]
      /\ t.started = [i \in Features(p) |-> IF i \in of /\ s.started[i] = None
                                            THEN LockStart(p, i, TicksPerWeek * s.week) ELSE s.started[i]]
      /\ t.given = s.given \cup {Entry(i, r, s.week, share[i]) : i \in of}

LEMMA WorkedIs ==
  ASSUME NEW p, NEW s, PlanShape(s), NEW r, NEW share
  PROVE  IsWorked(p, s, r, share, Worked(p, s, r, share))
<1> DEFINE t == Worked(p, s, r, share)
           of == {i \in DOMAIN share : share[i] > 0}
           fresh == {i \in of : s.started[i] = None}
           left == [i \in Features(p) |-> IF i \in of THEN [s.left[i] EXCEPT ![r] = @ - share[i]] ELSE s.left[i]]
           started == [i \in Features(p) |-> IF i \in fresh THEN LockStart(p, i, TicksPerWeek * s.week) ELSE s.started[i]]
           given == s.given \cup {Entry(i, r, s.week, share[i]) : i \in of}
           refused == s.refused \/ \E i \in fresh : ~PinsWait(p, s, i)
           last == IF of = {} THEN s.last ELSE Max({s.last, s.week})
<1>1. of = DOMAIN Got(share) BY DEF Got
<1>2. t = [s EXCEPT !.left = left, !.refused = refused, !.started = started, !.given = given, !.last = last]
  BY DEF Worked, Entry
<1> HIDE DEF left, started, given, last, t
<1>3. t = [week |-> s.week, limit |-> s.limit, refused |-> refused, left |-> left,
           started |-> started, done |-> s.done, given |-> given, last |-> last]
  BY <1>2 DEF PlanShape
<1>4. PlanShape(t) /\ t.week = s.week /\ t.limit = s.limit /\ t.done = s.done /\ t.refused = refused
      /\ t.left = left /\ t.started = started /\ t.given = given
  BY <1>3 DEF PlanShape
<1>5. /\ left = [i \in Features(p) |->
                   IF i \in DOMAIN Got(share) THEN [s.left[i] EXCEPT ![r] = @ - share[i]] ELSE s.left[i]]
      /\ started = [i \in Features(p) |-> IF i \in DOMAIN Got(share) /\ s.started[i] = None
                                          THEN LockStart(p, i, TicksPerWeek * s.week) ELSE s.started[i]]
      /\ given = s.given \cup {Entry(i, r, s.week, share[i]) : i \in DOMAIN Got(share)}
  BY <1>1 DEF left, started, given
<1>6. refused = (s.refused \/ \E i \in DOMAIN Got(share) : s.started[i] = None /\ ~PinsWait(p, s, i))
  BY <1>1
<1> HIDE DEF refused
<1> QED BY <1>4, <1>5, <1>6 DEF t, IsWorked

(* What the shares are. *)
Handed(p, s, C, r, free, share) ==
  /\ NatsOf(share) /\ SumFunction(Got(share)) <= free
  /\ \A i \in DOMAIN Got(share) :
       /\ i \in C /\ i \in Features(p) /\ r \in DOMAIN s.left[i]
       /\ share[i] \in Nat /\ share[i] > 0 /\ share[i] <= s.left[i][r] /\ share[i] <= FeatureCap(p, r)

LEMMA SharesHanded ==
  ASSUME NEW p, IsStaffing(p), NEW s, LeftTyped(p, s), NEW C, IsFiniteSet(C), NEW r,
         \A i \in C : MayWork(p, s, i, r), NEW free \in Nat
  PROVE  Handed(p, s, C, r, free, Shares(p, s, C, r, free))
<1> DEFINE share == Shares(p, s, C, r, free)
<1>1. ShareOut(p, s, C, r, free, share) BY SharesFit
<1> HIDE DEF share
<1>2. NatsOf(share) /\ SumFunction(Got(share)) <= free BY <1>1 DEF ShareOut, NatsOf, ShareFits
<1>3. ASSUME NEW i \in DOMAIN Got(share)
      PROVE  /\ i \in C /\ i \in Features(p) /\ r \in DOMAIN s.left[i]
             /\ share[i] \in Nat /\ share[i] > 0 /\ share[i] <= s.left[i][r] /\ share[i] <= FeatureCap(p, r)
  <2>1. i \in C /\ share[i] > 0 BY <1>1 DEF Got, ShareOut
  <2>2. i \in Features(p) /\ r \in DOMAIN s.left[i] /\ share[i] \in Nat /\ share[i] <= Room(p, s, i, r)
    BY <1>1, <2>1 DEF ShareOut, ShareFits, MayWork
  <2>3. /\ FeatureCap(p, r) \in Int /\ Room(p, s, i, r) \in Int
        /\ Room(p, s, i, r) <= s.left[i][r] /\ Room(p, s, i, r) <= FeatureCap(p, r)
    BY <2>2, WantedIs
  <2>4. s.left[i][r] \in Nat BY <2>2 DEF LeftTyped
  <2> QED BY <2>1, <2>2, <2>3, <2>4
<1> QED BY <1>2, <1>3 DEF Handed, share

LEMMA WorkedTyped ==
  ASSUME NEW p, IsStaffing(p), NEW s, PlanTyped(p, s), NEW C, NEW r, NEW free, NEW share,
         Handed(p, s, C, r, free, share), NEW t, IsWorked(p, s, r, share, t)
  PROVE  PlanTyped(p, t)
<1> DEFINE of == DOMAIN Got(share)
<1>1. \A i \in of : /\ i \in Features(p) /\ r \in DOMAIN s.left[i]
                    /\ share[i] \in Nat /\ share[i] > 0 /\ share[i] <= s.left[i][r]
  BY DEF Handed
<1>2. /\ s.week \in Nat /\ DOMAIN s.left = Features(p)
      /\ \A i \in Features(p) : /\ DOMAIN s.left[i] = DOMAIN p.features[i].days
                                /\ \A q \in DOMAIN s.left[i] : s.left[i][q] \in Nat
  BY DEF PlanTyped, LeftTyped
<1>3. IsFiniteSet(of) BY FS_Subset DEF Handed, NatsOf, Got
<1>4. /\ PlanShape(t) /\ t.week = s.week /\ t.limit = s.limit /\ t.done = s.done
      /\ t.refused \in BOOLEAN
      /\ t.left = [i \in Features(p) |->
                     IF i \in of THEN [s.left[i] EXCEPT ![r] = @ - share[i]] ELSE s.left[i]]
      /\ t.started = [i \in Features(p) |-> IF i \in of /\ s.started[i] = None
                                            THEN LockStart(p, i, TicksPerWeek * s.week) ELSE s.started[i]]
      /\ t.given = s.given \cup {Entry(i, r, s.week, share[i]) : i \in of}
  BY DEF IsWorked, PlanTyped
<1> HIDE DEF of
<1>5. LeftTyped(p, t)
  <2>1. ASSUME NEW i \in Features(p)
        PROVE  /\ DOMAIN t.left[i] = DOMAIN p.features[i].days
               /\ \A q \in DOMAIN t.left[i] : t.left[i][q] \in Nat
    <3>1. CASE i \notin of BY <1>2, <1>4, <3>1
    <3>2. CASE i \in of
      <4>1. t.left[i] = [s.left[i] EXCEPT ![r] = @ - share[i]] BY <1>4, <3>2
      <4>2. s.left[i][r] - share[i] \in Nat BY <1>1, <1>2, <3>2
      <4> QED BY <1>2, <4>1, <4>2
    <3> QED BY <3>1, <3>2
  <2> QED BY <1>2, <1>4, <2>1 DEF LeftTyped
<1>6. GivenTyped(p, t)
  <2> DEFINE f == [i \in of |-> Entry(i, r, s.week, share[i])]
             E == {f[i] : i \in DOMAIN f}
  <2>1. IsFiniteSet(E)
    <3>1. IsFiniteSet(DOMAIN f) BY <1>3
    <3> HIDE DEF f
    <3> QED BY <3>1, ImageFinite
  <2>2. t.given = s.given \cup E
    <3>1. E = {Entry(i, r, s.week, share[i]) : i \in of} OBVIOUS
    <3> QED BY <1>4, <3>1
  <2>3. IsFiniteSet(s.given) /\ \A g \in s.given :
          /\ g = Entry(g.feature, g.role, g.week, g.days)
          /\ g.feature \in Features(p) /\ g.role \in DOMAIN p.features[g.feature].days
          /\ g.week \in Nat /\ g.days \in Nat
    BY DEF PlanTyped, GivenTyped
  <2>4. ASSUME NEW i \in of, NEW g, g = Entry(i, r, s.week, share[i])
        PROVE  /\ g = Entry(g.feature, g.role, g.week, g.days)
               /\ g.feature \in Features(p) /\ g.role \in DOMAIN p.features[g.feature].days
               /\ g.week \in Nat /\ g.days \in Nat
    <3>1. g.feature = i /\ g.role = r /\ g.week = s.week /\ g.days = share[i] BY <2>4, EntryIs
    <3>2. i \in Features(p) /\ r \in DOMAIN p.features[i].days BY <1>1, <1>2
    <3> QED BY <1>1, <1>2, <2>4, <3>1, <3>2
  <2>5. \A g \in E : \E i \in of : g = Entry(i, r, s.week, share[i]) OBVIOUS
  <2> HIDE DEF E
  <2>6. IsFiniteSet(t.given)
    <3> DEFINE old == s.given
    <3>1. IsFiniteSet(old) /\ t.given = old \cup E BY <2>2, <2>3
    <3> HIDE DEF old
    <3>2. IsFiniteSet(old \cup E) BY <2>1, <3>1, FS_Union
    <3> QED BY <3>1, <3>2
  <2>7. \A g \in t.given : g \in s.given \/ \E i \in of : g = Entry(i, r, s.week, share[i])
    BY <2>2, <2>5
  <2> QED BY <2>3, <2>4, <2>6, <2>7 DEF GivenTyped
<1>7. ASSUME NEW i \in Features(p)  PROVE t.started[i] \in Nat \cup {None}
  <2>1. s.started[i] \in Nat \cup {None} BY DEF PlanTyped
  <2>2. LockStart(p, i, TicksPerWeek * s.week) \in Nat
    <3>1. CASE p.features[i].lock = None BY <1>2, <3>1, ViewAssumption DEF LockStart
    <3>2. CASE p.features[i].lock # None BY <3>2, WorkIs DEF LockStart
    <3> QED BY <3>1, <3>2
  <2> QED BY <1>4, <2>1, <2>2
<1>8. DOMAIN t.started = Features(p) BY <1>4
<1> QED BY <1>4, <1>5, <1>6, <1>7, <1>8 DEF PlanTyped

(* A role that works keeps the plan sound. *)
RoleTurn(p, s, n, ready, r, C, share, t) ==
  /\ IsStaffing(p) /\ WeekInv(p, s, n, ready) /\ ~ s.refused /\ SoundSoFar(p, s, n, ready)
  /\ n \in Nat /\ r = n + 1 /\ r \in Roles(p) /\ C \subseteq ready
  /\ Handed(p, s, C, r, FreeDays(p, r, s.week), share) /\ IsWorked(p, s, r, share, t)

(* Old work, and the new. *)
LEMMA GivenIs ==
  ASSUME NEW p, NEW s, NEW n, NEW ready, NEW r, NEW C, NEW share, NEW t, RoleTurn(p, s, n, ready, r, C, share, t)
  PROVE  /\ t.week = s.week /\ t.limit = s.limit /\ t.done = s.done /\ s.week \in Nat /\ s.limit \in Int /\ s.week < s.limit
         /\ IsFiniteSet(s.given) /\ s.given \subseteq t.given
         /\ \A g \in s.given : /\ g.feature \in Features(p) /\ g.role \in Roles(p) /\ g.role \in Nat
                               /\ g.week \in Nat /\ g.days \in Nat
                               /\ g.week < s.week \/ (g.week = s.week /\ g.role < r /\ g.feature \in ready)
         /\ \A g \in t.given : g \in s.given \/ \E i \in DOMAIN Got(share) : g = Entry(i, r, s.week, share[i])
         /\ \A i \in DOMAIN Got(share) : Entry(i, r, s.week, share[i]) \in t.given
<1>1. /\ IsFiniteSet(s.given)
      /\ \A g \in s.given : /\ g.feature \in Features(p) /\ g.role \in DOMAIN p.features[g.feature].days
                            /\ g.week \in Nat /\ g.days \in Nat
  BY DEF RoleTurn, WeekInv, PlanTyped, GivenTyped
<1>2. /\ t.week = s.week /\ t.limit = s.limit /\ t.done = s.done
      /\ t.given = s.given \cup {Entry(i, r, s.week, share[i]) : i \in DOMAIN Got(share)}
  BY DEF RoleTurn, IsWorked
<1>3. s.week \in Nat /\ s.limit \in Int /\ s.week < s.limit
  BY DEF RoleTurn, WeekInv, PlanTyped, LeftTyped
<1>4. \A g \in s.given : g.week < s.week \/ (g.week = s.week /\ g.role <= n /\ g.feature \in ready)
  BY DEF RoleTurn, SoundSoFar, WorkedUpTo
<1>5. IsStaffing(p) /\ n \in Nat /\ r = n + 1 BY DEF RoleTurn
<1>6. ASSUME NEW g \in s.given
      PROVE  /\ g.feature \in Features(p) /\ g.role \in Roles(p) /\ g.role \in Nat /\ g.week \in Nat /\ g.days \in Nat
             /\ g.week < s.week \/ (g.week = s.week /\ g.role < r /\ g.feature \in ready)
  <2>1. g.role \in Roles(p) BY <1>1, <1>5, WorkIs
  <2>2. g.role \in Nat
    <3>1. Roles(p) \subseteq Nat
      <4>1. Len(p.roles) \in Nat /\ Roles(p) = 1 .. Len(p.roles) BY <1>5, AskedIs
      <4> QED BY <4>1
    <3> QED BY <2>1, <3>1
  <2>3. g.role <= n => g.role < r BY <1>5, <2>2
  <2> QED BY <1>1, <1>4, <2>1, <2>2, <2>3
<1> QED BY <1>1, <1>2, <1>3, <1>6

LEMMA WorkedUp ==
  ASSUME NEW p, NEW s, NEW n, NEW ready, NEW r, NEW C, NEW share, NEW t, RoleTurn(p, s, n, ready, r, C, share, t)
  PROVE  WorkedUpTo(t, n + 1, ready)
<1>1. ASSUME NEW g \in t.given
      PROVE  g.week < t.week \/ (g.week = t.week /\ g.role <= n + 1 /\ g.feature \in ready)
  <2>1. n \in Nat /\ r = n + 1 /\ C \subseteq ready /\ \A i \in DOMAIN Got(share) : i \in C
    BY DEF RoleTurn, Handed
  <2>2. CASE g \in s.given
    <3>1. g.role \in Nat /\ t.week = s.week
          /\ (g.week < s.week \/ (g.week = s.week /\ g.role < r /\ g.feature \in ready))
      BY <2>2, GivenIs
    <3>2. g.role < r => g.role <= n + 1 BY <2>1, <3>1
    <3> QED BY <3>1, <3>2
  <2>3. ASSUME NEW i \in DOMAIN Got(share), g = Entry(i, r, s.week, share[i])
        PROVE  g.week = t.week /\ g.role <= n + 1 /\ g.feature \in ready
    <3>1. g.feature = i /\ g.role = r /\ g.week = s.week BY <2>3, EntryIs
    <3>2. t.week = s.week BY GivenIs
    <3> QED BY <2>1, <3>1, <3>2
  <2>4. g \in s.given \/ \E i \in DOMAIN Got(share) : g = Entry(i, r, s.week, share[i]) BY GivenIs
  <2> QED BY <2>2, <2>3, <2>4
<1> QED BY <1>1 DEF WorkedUpTo

LEMMA WorkedStaffed ==
  ASSUME NEW p, NEW s, NEW n, NEW ready, NEW r, NEW C, NEW share, NEW t, RoleTurn(p, s, n, ready, r, C, share, t)
  PROVE  StaffedSoFar(p, t)
<1> DEFINE of == DOMAIN Got(share)
           E == {Entry(i, r, s.week, share[i]) : i \in of}
<1>1. /\ \A q \in Roles(p), w \in 0 .. s.limit - 1 :
           Days(GivenIn(s, q, w)) + PinnedDays(p, q, w) <= CapacityOf(p, q, w)
      /\ \A g \in s.given : g.week < s.limit /\ g.days <= FeatureCap(p, g.role)
  BY DEF RoleTurn, SoundSoFar, StaffedSoFar
<1>2. t.week = s.week /\ t.limit = s.limit /\ s.week \in Nat /\ s.week < s.limit BY GivenIs
<1>3. /\ \A g \in t.given : g \in s.given \/ \E i \in of : g = Entry(i, r, s.week, share[i])
      /\ s.given \subseteq t.given /\ \A i \in of : Entry(i, r, s.week, share[i]) \in t.given
  BY GivenIs
<1>4. IsStaffing(p) /\ r \in Roles(p) /\ NatsOf(share) /\ SumFunction(Got(share)) <= FreeDays(p, r, s.week)
      /\ \A i \in of : share[i] <= FeatureCap(p, r)
  BY DEF RoleTurn, Handed
<1> HIDE DEF of
<1>5. ASSUME NEW g \in t.given  PROVE g.week < t.limit /\ g.days <= FeatureCap(p, g.role)
  <2>1. ASSUME NEW i \in of, g = Entry(i, r, s.week, share[i])
        PROVE  g.week < t.limit /\ g.days <= FeatureCap(p, g.role)
    <3>1. g.role = r /\ g.week = s.week /\ g.days = share[i] BY <2>1, EntryIs
    <3> QED BY <1>2, <1>4, <3>1
  <2> QED BY <1>1, <1>2, <1>3, <2>1
<1>6. ASSUME NEW q \in Roles(p), NEW w \in 0 .. t.limit - 1
      PROVE  Days(GivenIn(t, q, w)) + PinnedDays(p, q, w) <= CapacityOf(p, q, w)
  <2>1. CASE ~ (q = r /\ w = s.week)
    <3>1. GivenIn(t, q, w) = GivenIn(s, q, w)
      <4>1. \A i \in of : ~ (Entry(i, r, s.week, share[i]).role = q /\ Entry(i, r, s.week, share[i]).week = w)
        BY <2>1, EntryIs
      <4> QED BY <1>3, <4>1 DEF GivenIn
    <3> QED BY <1>1, <1>2, <3>1
  <2>2. CASE q = r /\ w = s.week
    <3>1. GivenIn(t, q, w) = E
      <4>1. \A g \in s.given : ~ (g.role = r /\ g.week = s.week)
        <5>1. \A g \in s.given : g.role \in Nat /\ g.week \in Nat /\ (g.week < s.week \/ (g.week = s.week /\ g.role < r))
          BY GivenIs
        <5>2. r \in Nat BY DEF RoleTurn
        <5> QED BY <1>2, <5>1, <5>2
      <4>2. \A i \in of : Entry(i, r, s.week, share[i]).role = q /\ Entry(i, r, s.week, share[i]).week = w
        BY <2>2, EntryIs
      <4>3. \A g \in GivenIn(t, q, w) : g \in E BY <1>3, <2>2, <4>1 DEF GivenIn
      <4>4. \A g \in E : g \in GivenIn(t, q, w) BY <1>3, <4>2 DEF GivenIn
      <4> QED BY <4>3, <4>4
    <3>2. Days(E) = SumFunction(Got(share)) BY <1>4, DaysShared DEF of
    <3>3. SumFunction(Got(share)) \in Int BY <1>4, GotNumbers, SumInt
    <3>4. PinnedDays(p, r, s.week) \in Int /\ CapacityOf(p, r, s.week) \in Int
      <4>1. s.week \in Int BY <1>2
      <4> QED BY <1>4, <4>1, PinnedInt, CapacityInt
    <3>5. FreeDays(p, r, s.week) = CapacityOf(p, r, s.week) - PinnedDays(p, r, s.week)
      BY DEF FreeDays
    <3> HIDE DEF E
    <3> QED BY <1>4, <2>2, <3>1, <3>2, <3>3, <3>4, <3>5
  <2> QED BY <2>1, <2>2
<1> QED BY <1>5, <1>6 DEF StaffedSoFar

LEMMA WorkedConserved ==
  ASSUME NEW p, NEW s, NEW n, NEW ready, NEW r, NEW C, NEW share, NEW t, RoleTurn(p, s, n, ready, r, C, share, t)
  PROVE  ConservedSoFar(p, t)
<1> DEFINE of == DOMAIN Got(share)
           e(i) == Entry(i, r, s.week, share[i])
<1>1. \A i \in Features(p) : \A q \in DOMAIN p.features[i].days :
        Days(GivenOf(s, i, q)) + s.left[i][q] = p.features[i].days[q]
  BY DEF RoleTurn, SoundSoFar, ConservedSoFar
<1>2. t.week = s.week /\ s.week \in Nat /\ IsFiniteSet(s.given)
      /\ \A g \in s.given : /\ g.role \in Nat /\ g.week \in Nat /\ g.days \in Nat
                            /\ (g.week < s.week \/ (g.week = s.week /\ g.role < r))
  BY GivenIs
<1>3. /\ \A g \in t.given : g \in s.given \/ \E i \in of : g = e(i)
      /\ s.given \subseteq t.given /\ \A i \in of : e(i) \in t.given
  BY GivenIs
<1>4. IsStaffing(p) /\ r \in Nat
      /\ \A i \in of : i \in Features(p) /\ r \in DOMAIN s.left[i] /\ share[i] \in Nat
  BY DEF RoleTurn, Handed
<1>5. t.left = [i \in Features(p) |->
                  IF i \in of THEN [s.left[i] EXCEPT ![r] = @ - share[i]] ELSE s.left[i]]
  BY DEF RoleTurn, IsWorked
<1>6. \A i : e(i).feature = i /\ e(i).role = r /\ e(i).week = s.week /\ e(i).days = share[i]
  BY EntryIs
<1>7. LeftTyped(p, s) BY DEF RoleTurn, WeekInv, PlanTyped
<1>8. ASSUME NEW i \in Features(p), NEW q \in DOMAIN p.features[i].days
      PROVE  Days(GivenOf(t, i, q)) + t.left[i][q] = p.features[i].days[q]
  <2>1. CASE ~ (i \in of /\ q = r)
    <3>1. GivenOf(t, i, q) = GivenOf(s, i, q)
      <4>1. \A j \in of : ~ (e(j).feature = i /\ e(j).role = q) BY <1>6, <2>1
      <4> HIDE DEF e, of
      <4> QED BY <1>3, <4>1 DEF GivenOf
    <3>2. t.left[i][q] = s.left[i][q]
      <4>1. q \in DOMAIN s.left[i] BY <1>7 DEF LeftTyped
      <4> HIDE DEF of
      <4> QED BY <1>5, <2>1, <4>1
    <3> QED BY <1>1, <3>1, <3>2
  <2>2. CASE i \in of /\ q = r
    <3>1. e(i) \notin GivenOf(s, i, q)
      <4>1. \A g \in s.given : ~ (g.role = r /\ g.week = s.week) BY <1>2, <1>4
      <4> HIDE DEF e
      <4> QED BY <1>6, <4>1 DEF GivenOf
    <3>2. GivenOf(t, i, q) = GivenOf(s, i, q) \cup {e(i)}
      <4>1. \A j \in of : e(j).feature = i => j = i BY <1>6
      <4>2. e(i).feature = i /\ e(i).role = q BY <1>6, <2>2
      <4> HIDE DEF e, of
      <4>3. \A g \in GivenOf(t, i, q) : g \in GivenOf(s, i, q) \/ g = e(i) BY <1>3, <4>1 DEF GivenOf
      <4>4. GivenOf(s, i, q) \subseteq GivenOf(t, i, q) /\ e(i) \in GivenOf(t, i, q)
        BY <1>3, <2>2, <4>2 DEF GivenOf
      <4> QED BY <4>3, <4>4
    <3>3. IsFiniteSet(GivenOf(s, i, q)) /\ \A g \in GivenOf(s, i, q) : g.days \in Nat
      BY <1>2, FS_Subset DEF GivenOf
    <3>4. e(i).days = share[i] /\ share[i] \in Nat BY <1>4, <1>6, <2>2
    <3> DEFINE x == e(i)
               S == GivenOf(s, i, q)
    <3>5. Days(S \cup {x}) = Days(S) + x.days /\ Days(S) \in Int
      <4>1. IsFiniteSet(S) /\ (\A g \in S : g.days \in Nat) /\ x \notin S /\ x.days \in Nat
        BY <3>1, <3>3, <3>4
      <4> HIDE DEF x, S
      <4> QED BY <4>1, DaysAdded, DaysInt
    <3>6. t.left[i][q] = s.left[i][q] - share[i] /\ s.left[i][q] \in Nat
      <4>1. q \in DOMAIN s.left[i] /\ s.left[i][q] \in Nat BY <1>7 DEF LeftTyped
      <4> HIDE DEF of
      <4> QED BY <1>5, <2>2, <4>1
    <3>7. Days(S) + s.left[i][q] = p.features[i].days[q] BY <1>1
    <3>8. GivenOf(t, i, q) = S \cup {x} /\ x.days = share[i] /\ share[i] \in Nat BY <3>2, <3>4
    <3> HIDE DEF S, x
    <3> QED BY <3>5, <3>6, <3>7, <3>8
  <2> QED BY <2>1, <2>2
<1> QED BY <1>8 DEF ConservedSoFar

LEMMA WorkedOrdered ==
  ASSUME NEW p, NEW s, NEW n, NEW ready, NEW r, NEW C, NEW share, NEW t, RoleTurn(p, s, n, ready, r, C, share, t),
         ~ t.refused
  PROVE  OrderedSoFar(p, t)
<1> DEFINE of == DOMAIN Got(share)
           e(i) == Entry(i, r, s.week, share[i])
           lock(i) == p.features[i].lock
<1>1. t.week = s.week /\ t.done = s.done /\ \A g \in s.given : g.feature \in Features(p) BY GivenIs
<1>2. /\ \A g \in t.given : g \in s.given \/ \E i \in of : g = e(i)
      /\ s.given \subseteq t.given
  BY GivenIs
<1>3. \A i \in of : e(i).feature = i /\ e(i).week = s.week BY EntryIs
<1>4. t.started = [i \in Features(p) |-> IF i \in of /\ s.started[i] = None
                                         THEN LockStart(p, i, TicksPerWeek * s.week) ELSE s.started[i]]
  BY DEF RoleTurn, IsWorked
<1>5. \A i \in of : s.started[i] = None => PinsWait(p, s, i) BY DEF RoleTurn, IsWorked
<1>6. ASSUME NEW i \in of
      PROVE  /\ i \in Features(p) /\ s.done[i] = None /\ Waited(p, s, i, Moment(s.week))
             /\ lock(i) # None => OverlapOf(lock(i)[1], lock(i)[2], s.week) > 0
  <2>1. i \in ready /\ i \in Features(p) /\ r \in DOMAIN s.left[i] BY DEF RoleTurn, Handed
  <2>2. LeftTyped(p, s) /\ ToDo(p, s, ready) BY DEF RoleTurn, WeekInv, PlanTyped
  <2>3. HasDemand(p, i) BY <2>1, <2>2 DEF LeftTyped, HasDemand
  <2> HIDE DEF of
  <2> QED BY <2>1, <2>2, <2>3 DEF ToDo
<1>7. /\ \A g \in s.given : Timely(p, s, g)
      /\ \A i \in Features(p) : /\ s.done[i] # None => EndsAfter(p, s, i)
                                /\ Seen(p, s, i) => PinsWait(p, s, i)
                                /\ s.started[i] # None /\ s.done[i] = None => Underway(p, s, i)
  BY DEF RoleTurn, SoundSoFar, OrderedSoFar
<1>8. \A i : PinsWait(p, t, i) <=> PinsWait(p, s, i) BY <1>1 DEF PinsWait
<1>9. \A i, m : Waited(p, t, i, m) <=> Waited(p, s, i, m) BY <1>1 DEF Waited
<1>10. \A i \in Features(p) : lock(i) # None => lock(i)[1] \in Nat /\ lock(i)[1] # None
  <2>1. IsStaffing(p) BY DEF RoleTurn
  <2> QED BY <2>1, WorkIs, ViewAssumption
<1> HIDE DEF of, e, lock
<1>11. ASSUME NEW i \in of  PROVE Underway(p, t, i)
  <2>1. i \in Features(p) /\ s.done[i] = None BY <1>6
  <2>2. CASE s.started[i] = None
    <3>1. PinsWait(p, t, i) BY <1>5, <1>8, <2>2
    <3>2. lock(i) # None => t.started[i] = lock(i)[1] BY <1>4, <2>1, <2>2 DEF LockStart, lock
    <3> QED BY <3>1, <3>2 DEF Underway, lock
  <2>3. CASE s.started[i] # None
    <3>1. Underway(p, s, i) /\ t.started[i] = s.started[i] BY <1>4, <1>7, <2>1, <2>3
    <3> QED BY <1>8, <3>1 DEF Underway
  <2> QED BY <2>2, <2>3
<1>12. ASSUME NEW g \in t.given  PROVE Timely(p, t, g)
  <2>1. CASE g \in s.given
    <3> DEFINE i == g.feature
    <3>1. Timely(p, s, g) /\ i \in Features(p) BY <1>1, <1>7, <2>1
    <3>2. lock(i) # None => s.started[i] # None /\ s.started[i] = lock(i)[1] /\ OverlapOf(lock(i)[1], lock(i)[2], g.week) > 0
      BY <1>10, <3>1 DEF Timely, lock
    <3>3. s.started[i] # None => t.started[i] = s.started[i] BY <1>4, <3>1
    <3> QED BY <1>9, <3>1, <3>2, <3>3 DEF Timely, lock
  <2>2. ASSUME NEW i \in of, g = e(i)  PROVE Timely(p, t, g)
    <3>1. g.feature = i /\ g.week = s.week BY <1>3, <2>2
    <3>2. Waited(p, t, i, Moment(s.week)) /\ (lock(i) # None => OverlapOf(lock(i)[1], lock(i)[2], s.week) > 0)
      BY <1>6, <1>9
    <3>3. lock(i) # None => t.started[i] = lock(i)[1] BY <1>11 DEF Underway, lock
    <3> QED BY <3>1, <3>2, <3>3 DEF Timely, lock
  <2> QED BY <1>2, <2>1, <2>2
<1>13. ASSUME NEW i \in Features(p)
       PROVE  /\ t.done[i] # None => EndsAfter(p, t, i)
              /\ Seen(p, t, i) => PinsWait(p, t, i)
              /\ t.started[i] # None /\ t.done[i] = None => Underway(p, t, i)
  <2>1. CASE i \in of
    <3>1. t.done[i] = None /\ Underway(p, t, i) BY <1>1, <1>6, <1>11, <2>1
    <3> QED BY <3>1 DEF Underway
  <2>2. CASE i \notin of
    <3>1. \A g \in t.given : g.feature = i => g \in s.given BY <1>2, <1>3, <2>2
    <3>2. t.started[i] = s.started[i] /\ t.done[i] = s.done[i] BY <1>1, <1>4, <2>2
    <3>3. t.done[i] # None => EndsAfter(p, t, i) BY <1>7, <3>1, <3>2 DEF EndsAfter
    <3>4. Seen(p, t, i) => PinsWait(p, t, i) BY <1>7, <1>8, <3>1, <3>2 DEF Seen
    <3>5. t.started[i] # None /\ t.done[i] = None => Underway(p, t, i)
      BY <1>7, <1>8, <3>2 DEF Underway
    <3> QED BY <3>3, <3>4, <3>5
  <2> QED BY <2>1, <2>2
<1> QED BY <1>12, <1>13 DEF OrderedSoFar

LEMMA RoleWeekInv ==
  ASSUME NEW p, IsStaffing(p), NEW s, NEW n \in Nat, NEW ready, WeekInv(p, s, n, ready), n + 1 \in Roles(p)
  PROVE  /\ WeekInv(p, RoleWeek(p, s, ready, n + 1), n + 1, ready)
         /\ RoleWeek(p, s, ready, n + 1).week = s.week
<1> DEFINE r == n + 1
           C == Candidates(p, s, ready, r)
           free == FreeDays(p, r, s.week)
           share == Shares(p, s, C, r, free)
           t == RoleWeek(p, s, ready, r)
<1>1. PlanTyped(p, s) /\ LeftTyped(p, s) /\ PinsFit(p, s.limit) /\ s.week < s.limit /\ ToDo(p, s, ready)
      /\ s.week \in Nat /\ s.limit \in Int
  BY DEF WeekInv, PlanTyped, LeftTyped
<1>2. C \subseteq ready /\ ready \subseteq Features(p) /\ \A i \in C : MayWork(p, s, i, r)
  BY <1>1 DEF Candidates, MayWork, ToDo
<1>3. IsFiniteSet(C) BY <1>2, AskedIs, FS_Subset
<1>4. free \in Nat
  <2>1. s.week \in 0 .. s.limit - 1 /\ s.week \in Int BY <1>1
  <2>2. PinnedDays(p, r, s.week) <= CapacityOf(p, r, s.week) BY <1>1, <2>1 DEF PinsFit
  <2>3. PinnedDays(p, r, s.week) \in Int /\ CapacityOf(p, r, s.week) \in Int
    <3> DEFINE w == s.week
    <3>1. w \in Int /\ r \in Roles(p) BY <2>1
    <3> HIDE DEF w, r
    <3>2. PinnedDays(p, r, w) \in Int /\ CapacityOf(p, r, w) \in Int BY <3>1, PinnedInt, CapacityInt
    <3> QED BY <3>2 DEF w
  <2> QED BY <2>2, <2>3 DEF FreeDays
<1> HIDE DEF r, C, free
<1>5. Handed(p, s, C, r, free, share) BY <1>1, <1>2, <1>3, <1>4, SharesHanded
<1>6. t = Worked(p, s, r, share) BY DEF RoleWeek, C, free
<1> HIDE DEF share, t
<1>7. IsWorked(p, s, r, share, t) BY <1>1, <1>6, WorkedIs DEF PlanTyped
<1>8. PlanTyped(p, t) BY <1>1, <1>5, <1>7, WorkedTyped
<1>9. t.week = s.week /\ t.limit = s.limit /\ t.done = s.done /\ (s.refused => t.refused)
  BY <1>7 DEF IsWorked
<1>10. ToDo(p, t, ready) BY <1>1, <1>9 DEF ToDo, Waited
<1>11. ASSUME ~ t.refused  PROVE SoundSoFar(p, t, n + 1, ready)
  <2>1. ~ s.refused /\ SoundSoFar(p, s, n, ready) BY <1>9, <1>11 DEF WeekInv
  <2>2. RoleTurn(p, s, n, ready, r, C, share, t) BY <1>2, <1>5, <1>7, <2>1 DEF RoleTurn, r, free
  <2>3. WorkedUpTo(t, n + 1, ready) /\ StaffedSoFar(p, t) /\ ConservedSoFar(p, t)
    BY <2>2, WorkedUp, WorkedStaffed, WorkedConserved
  <2>4. OrderedSoFar(p, t) BY <1>11, <2>2, WorkedOrdered
  <2> QED BY <2>3, <2>4 DEF SoundSoFar
<1> QED BY <1>1, <1>8, <1>9, <1>10, <1>11 DEF WeekInv, t, r

(* The roles one after the other. *)
RolesStep(p, s, ready, g, n) == IF n = 0 THEN s ELSE RoleWeek(p, g[n - 1], ready, n)

IsRoles(p, s, ready, g) == g = [n \in 0 .. Len(p.roles) |-> RolesStep(p, s, ready, g, n)]

LEMMA RolesExist ==
  ASSUME NEW p, NEW s, NEW ready, Len(p.roles) \in Nat
  PROVE  \E g : IsRoles(p, s, ready, g)
<1> DEFINE N == Len(p.roles)
           UpTo(g, n) == /\ g = [k \in 0 .. N |-> g[k]]
                         /\ \A k \in 0 .. N : k <= n => g[k] = RolesStep(p, s, ready, g, k)
           F == {n \in Nat : ~ \E g : UpTo(g, n)}
<1>1. N \in Nat OBVIOUS
<1> HIDE DEF N
<1>2. F = {}
  <2> SUFFICES ASSUME F # {}  PROVE FALSE OBVIOUS
  <2>1. PICK n \in F : n \in Nat /\ (n = 0 \/ (n - 1 \in Nat /\ n - 1 \notin F)) BY LeastFault
  <2>2. n # 0
    <3> DEFINE g == [k \in 0 .. N |-> s]
    <3>1. UpTo(g, 0)
      <4>1. \A k \in 0 .. N : k <= 0 => k = 0 BY <1>1
      <4> QED BY <4>1 DEF RolesStep
    <3> QED BY <3>1
  <2>3. n \in Nat /\ n - 1 \in Nat /\ n - 1 \notin F BY <2>1, <2>2
  <2>4. PICK g : UpTo(g, n - 1) BY <2>3
  <2> DEFINE h == [k \in 0 .. N |-> RolesStep(p, s, ready, g, k)]
  <2>5. ASSUME NEW k \in 0 .. N, k <= n  PROVE h[k] = RolesStep(p, s, ready, h, k)
    <3>1. CASE k = 0 BY <3>1 DEF RolesStep
    <3>2. CASE k # 0
      <4>1. k - 1 \in 0 .. N /\ k - 1 <= n - 1 BY <1>1, <2>3, <2>5, <3>2
      <4>2. g[k - 1] = RolesStep(p, s, ready, g, k - 1) BY <2>4, <4>1
      <4>3. h[k - 1] = g[k - 1] BY <4>1, <4>2
      <4>4. h[k] = RolesStep(p, s, ready, g, k) OBVIOUS
      <4> HIDE DEF h
      <4> QED BY <4>3, <4>4 DEF RolesStep
    <3> QED BY <3>1, <3>2
  <2>6. h = [k \in 0 .. N |-> h[k]] OBVIOUS
  <2> HIDE DEF h
  <2>7. UpTo(h, n) BY <2>5, <2>6
  <2> QED BY <2>1, <2>7
<1>3. PICK g : UpTo(g, N) BY <1>1, <1>2
<1>4. \A k \in 0 .. N : g[k] = RolesStep(p, s, ready, g, k) BY <1>1, <1>3
<1>5. g = [k \in 0 .. N |-> RolesStep(p, s, ready, g, k)] BY <1>3, <1>4
<1> QED BY <1>5 DEF IsRoles, N

LEMMA AllRolesInv ==
  ASSUME NEW p, IsStaffing(p), NEW s, NEW ready, WeekInv(p, s, 0, ready)
  PROVE  /\ WeekInv(p, AllRoles(p, s, ready), Len(p.roles), ready)
         /\ AllRoles(p, s, ready).week = s.week
<1> DEFINE N == Len(p.roles)
           g == CHOOSE g : IsRoles(p, s, ready, g)
           Good(x, n) == WeekInv(p, x, n, ready) /\ x.week = s.week
           F == {n \in 0 .. N : ~ Good(g[n], n)}
<1>1. N \in Nat /\ Roles(p) = 1 .. N BY AskedIs
<1>2. IsRoles(p, s, ready, g) BY <1>1, RolesExist
<1>3. AllRoles(p, s, ready) = g[N] BY DEF AllRoles, IsRoles, RolesStep
<1> HIDE DEF N, g
<1>4. \A n \in 0 .. N : g[n] = RolesStep(p, s, ready, g, n) BY <1>2 DEF IsRoles, N
<1>5. F = {}
  <2> SUFFICES ASSUME F # {}  PROVE FALSE OBVIOUS
  <2>0. F \subseteq Nat BY <1>1
  <2>1. PICK n \in F : \A m \in F : n <= m
    <3> HIDE DEF F
    <3> QED BY <2>0, LeastNumber
  <2>2. n \in 0 .. N /\ n \in Nat /\ ~ Good(g[n], n) BY <1>1, <2>1
  <2>3. n # 0
    <3>1. g[0] = s
      <4>1. 0 \in 0 .. N BY <1>1
      <4> QED BY <1>4, <4>1 DEF RolesStep
    <3> QED BY <2>2, <3>1
  <2> DEFINE m == n - 1
  <2>4. m \in 0 .. N /\ m \in Nat /\ ~ (n <= m) /\ m + 1 = n /\ n \in Roles(p) BY <1>1, <2>2, <2>3
  <2>5. Good(g[m], m) BY <2>1, <2>4
  <2>6. g[n] = RoleWeek(p, g[m], ready, n) BY <1>4, <2>2, <2>3 DEF RolesStep
  <2> HIDE DEF m
  <2>7. WeekInv(p, RoleWeek(p, g[m], ready, m + 1), m + 1, ready) /\ RoleWeek(p, g[m], ready, m + 1).week = g[m].week
    BY <2>4, <2>5, RoleWeekInv
  <2> QED BY <2>2, <2>4, <2>5, <2>6, <2>7
<1>6. Good(g[N], N) BY <1>1, <1>5
<1> QED BY <1>3, <1>6 DEF N

----
(* The beginning and the end of a week. *)

Empty(p, ready) == {i \in ready : ~HasDemand(p, i)}
EmptyFrom(p, s, i) == LockStart(p, i, IF Pins(p, i) # {} THEN PinnedFrom(p, i) ELSE TicksPerWeek * s.week)
Fixed(p, i) == p.features[i].lock # None \/ Pins(p, i) # {}
FixedTo(p, i) == IF p.features[i].lock # None THEN p.features[i].lock[2] ELSE PinnedTo(p, i)

IsStarted(p, s, ready, t) ==
  /\ PlanShape(t) /\ t.week = s.week /\ t.limit = s.limit /\ t.left = s.left /\ t.given = s.given
  /\ t.refused = \E i \in Empty(p, ready) : ~PinsWait(p, s, i)
  /\ t.started = [i \in Features(p) |-> IF i \in Empty(p, ready) THEN EmptyFrom(p, s, i) ELSE s.started[i]]
  /\ t.done = [i \in Features(p) |-> IF i \notin Empty(p, ready) THEN s.done[i]
                                     ELSE IF Fixed(p, i) THEN 2 * FixedTo(p, i) - 1 ELSE 2 * EmptyFrom(p, s, i)]

LEMMA StartsIs ==
  ASSUME NEW p, NEW s, PlanShape(s), NEW ready
  PROVE  IsStarted(p, s, ready, StartEmpty(p, s, ready))
<1> DEFINE t == StartEmpty(p, s, ready)
           empty == {i \in ready : ~HasDemand(p, i)}
           from(i) == LockStart(p, i, IF Pins(p, i) # {} THEN PinnedFrom(p, i) ELSE TicksPerWeek * s.week)
           locked(i) == p.features[i].lock # None \/ Pins(p, i) # {}
           to(i) == IF p.features[i].lock # None THEN p.features[i].lock[2] ELSE PinnedTo(p, i)
           refused == \E i \in empty : ~PinsWait(p, s, i)
           started == [i \in Features(p) |-> IF i \in empty THEN from(i) ELSE s.started[i]]
           done == [i \in Features(p) |-> IF i \notin empty THEN s.done[i]
                                          ELSE IF locked(i) THEN 2 * to(i) - 1 ELSE 2 * from(i)]
           last == Max({s.last} \cup {IF locked(i) THEN CeilDiv(to(i), TicksPerWeek) - 1 ELSE s.week - 1 : i \in empty})
<1>1. t = [s EXCEPT !.refused = refused, !.started = started, !.done = done, !.last = last]
  BY DEF StartEmpty
<1> HIDE DEF refused, started, done, last, t
<1>2. t = [week |-> s.week, limit |-> s.limit, refused |-> refused, left |-> s.left,
           started |-> started, done |-> done, given |-> s.given, last |-> last]
  BY <1>1 DEF PlanShape
<1>3. PlanShape(t) /\ t.week = s.week /\ t.limit = s.limit /\ t.left = s.left /\ t.given = s.given
      /\ t.refused = refused /\ t.started = started /\ t.done = done
  BY <1>2 DEF PlanShape
<1>4. /\ refused = \E i \in Empty(p, ready) : ~PinsWait(p, s, i)
      /\ started = [i \in Features(p) |-> IF i \in Empty(p, ready) THEN EmptyFrom(p, s, i) ELSE s.started[i]]
      /\ done = [i \in Features(p) |-> IF i \notin Empty(p, ready) THEN s.done[i]
                                       ELSE IF Fixed(p, i) THEN 2 * FixedTo(p, i) - 1 ELSE 2 * EmptyFrom(p, s, i)]
  BY DEF refused, started, done, Empty, EmptyFrom, Fixed, FixedTo
<1> QED BY <1>3, <1>4 DEF t, IsStarted

Ended(s, ready) == {i \in ready : s.done[i] = None /\ \A r \in DOMAIN s.left[i] : s.left[i][r] = 0}

IsEnded(p, s, ready, t) ==
  /\ PlanShape(t) /\ t.week = s.week + 1 /\ t.limit = s.limit /\ t.left = s.left /\ t.given = s.given
  /\ t.refused = s.refused
  /\ t.started = [i \in Features(p) |-> IF i \in Ended(s, ready) /\ s.started[i] = None
                                        THEN TicksPerWeek * s.week ELSE s.started[i]]
  /\ t.done = [i \in Features(p) |-> IF i \in Ended(s, ready) THEN Max({Moment(s.week), 2 * LockEnd(p, i) - 1})
                                     ELSE s.done[i]]

LEMMA CompleteIs ==
  ASSUME NEW p, NEW s, PlanShape(s), NEW ready
  PROVE  IsEnded(p, s, ready, [Complete(p, s, ready) EXCEPT !.week = @ + 1])
<1> DEFINE c == Complete(p, s, ready)
           t == [c EXCEPT !.week = @ + 1]
           ended == {i \in ready : s.done[i] = None /\ \A r \in DOMAIN s.left[i] : s.left[i][r] = 0}
           started == [i \in Features(p) |-> IF i \in ended /\ s.started[i] = None
                                             THEN TicksPerWeek * s.week ELSE s.started[i]]
           done == [i \in Features(p) |-> IF i \in ended THEN Max({Moment(s.week), 2 * LockEnd(p, i) - 1})
                                          ELSE s.done[i]]
<1>1. c = [s EXCEPT !.started = started, !.done = done] BY DEF Complete
<1> HIDE DEF started, done, c
<1>2. c = [week |-> s.week, limit |-> s.limit, refused |-> s.refused, left |-> s.left,
           started |-> started, done |-> done, given |-> s.given, last |-> s.last]
  BY <1>1 DEF PlanShape
<1>3. t = [week |-> s.week + 1, limit |-> s.limit, refused |-> s.refused, left |-> s.left,
           started |-> started, done |-> done, given |-> s.given, last |-> s.last]
  BY <1>2
<1> HIDE DEF t
<1>4. PlanShape(t) /\ t.week = s.week + 1 /\ t.limit = s.limit /\ t.left = s.left /\ t.given = s.given
      /\ t.refused = s.refused /\ t.started = started /\ t.done = done
  BY <1>3 DEF PlanShape
<1>5. /\ started = [i \in Features(p) |-> IF i \in Ended(s, ready) /\ s.started[i] = None
                                          THEN TicksPerWeek * s.week ELSE s.started[i]]
      /\ done = [i \in Features(p) |-> IF i \in Ended(s, ready) THEN Max({Moment(s.week), 2 * LockEnd(p, i) - 1})
                                       ELSE s.done[i]]
  BY DEF started, done, Ended
<1> QED BY <1>4, <1>5 DEF t, c, IsEnded

LEMMA MomentUp ==
  ASSUME NEW v \in Int, NEW w \in Int, v <= w
  PROVE  Moment(v) \in Int /\ Moment(w) \in Int /\ Moment(v) <= Moment(w)
<1> DEFINE T == TicksPerWeek
           d == w - v
<1>1. T \in Nat /\ d \in Nat BY ViewAssumption
<1>2. T * d \in Nat BY <1>1
<1>3. T * w = T * v + T * d /\ T * v \in Int /\ T * w \in Int BY <1>1
<1>4. Moment(v) = 2 * (T * v) /\ Moment(w) = 2 * (T * w)
  <2> HIDE DEF d
  <2> QED BY <1>1 DEF Moment
<1> DEFINE a == T * v
           b == T * w
           c == T * d
<1>5. a \in Int /\ b \in Int /\ c \in Nat /\ b = a + c /\ Moment(v) = 2 * a /\ Moment(w) = 2 * b
  BY <1>2, <1>3, <1>4
<1> HIDE DEF a, b, c
<1> QED BY <1>5

LEMMA PinnedIs ==
  ASSUME NEW p, IsStaffing(p), NEW i \in Features(p), Pins(p, i) # {}
  PROVE  /\ PinnedFrom(p, i) \in Nat /\ PinnedTo(p, i) \in Nat
         /\ \A pin \in Pins(p, i) : PinnedFrom(p, i) <= pin.from /\ pin.to <= PinnedTo(p, i)
<1> DEFINE f == [pin \in Pins(p, i) |-> pin.from]
           e == [pin \in Pins(p, i) |-> pin.to]
           A == {f[pin] : pin \in DOMAIN f}
           B == {e[pin] : pin \in DOMAIN e}
<1>1. IsFiniteSet(Pins(p, i)) /\ \A pin \in Pins(p, i) : pin.from \in Nat /\ pin.to \in Nat
  BY WorkIs
<1>2. IsFiniteSet(A) /\ IsFiniteSet(B)
  <2>1. DOMAIN f = Pins(p, i) /\ DOMAIN e = Pins(p, i) OBVIOUS
  <2> HIDE DEF f, e
  <2> QED BY <1>1, <2>1, ImageFinite
<1>3. A = {pin.from : pin \in Pins(p, i)} /\ B = {pin.to : pin \in Pins(p, i)} OBVIOUS
<1> HIDE DEF A, B
<1>4. A \subseteq Nat /\ A # {} /\ B \subseteq Nat /\ B # {}
      /\ \A pin \in Pins(p, i) : pin.from \in A /\ pin.to \in B
  BY <1>1, <1>3
<1>5. /\ Min(A) \in A /\ \A x \in A : Min(A) <= x
      /\ Max(B) \in B /\ \A x \in B : x <= Max(B)
  <2>1. A \subseteq Int /\ B \subseteq Int BY <1>4
  <2> QED BY <1>2, <1>4, <2>1, MaxMin
<1>6. PinnedFrom(p, i) = Min(A) /\ PinnedTo(p, i) = Max(B) BY <1>3 DEF PinnedFrom, PinnedTo
<1> QED BY <1>4, <1>5, <1>6

(* What is done stays done. *)
LaterDone(p, s, t) == \A j \in Features(p) : s.done[j] # None => t.done[j] = s.done[j]

LEMMA WaitedOn ==
  ASSUME NEW p, IsStaffing(p), NEW s, NEW t, LaterDone(p, s, t), NEW i \in Features(p)
  PROVE  /\ \A m : Waited(p, s, i, m) => Waited(p, t, i, m)
         /\ PinsWait(p, s, i) => PinsWait(p, t, i)
<1>1. Predecessors(p, i) \subseteq {0} \cup Features(p) BY WaitsAre
<1>2. \A m : Waited(p, s, i, m) => Waited(p, t, i, m) BY <1>1 DEF Waited, LaterDone
<1>3. \A x : PinsWait(p, x, i) <=> (Pins(p, i) # {} => Waited(p, x, i, 2 * PinnedFrom(p, i) - 1))
  BY DEF PinsWait, Waited
<1> QED BY <1>2, <1>3

(* A week begins with features that have nothing to move. *)
LEMMA StartTyped ==
  ASSUME NEW p, IsStaffing(p), NEW s, PlanTyped(p, s), NEW ready, ready \subseteq Features(p),
         NEW t, IsStarted(p, s, ready, t)
  PROVE  PlanTyped(p, t) /\ \A i \in Empty(p, ready) : t.done[i] \in Int
<1> DEFINE empty == Empty(p, ready)
<1>1. PlanShape(s) /\ LeftTyped(p, s) /\ GivenTyped(p, s) /\ s.week \in Nat
  BY DEF PlanTyped, LeftTyped
<1>2. /\ PlanShape(t) /\ t.week = s.week /\ t.limit = s.limit /\ t.left = s.left /\ t.given = s.given
      /\ t.refused = \E i \in empty : ~PinsWait(p, s, i)
      /\ t.started = [i \in Features(p) |-> IF i \in empty THEN EmptyFrom(p, s, i) ELSE s.started[i]]
      /\ t.done = [i \in Features(p) |-> IF i \notin empty THEN s.done[i]
                                         ELSE IF Fixed(p, i) THEN 2 * FixedTo(p, i) - 1 ELSE 2 * EmptyFrom(p, s, i)]
  BY DEF IsStarted
<1>3. ASSUME NEW i \in Features(p)
      PROVE  EmptyFrom(p, s, i) \in Nat /\ (Fixed(p, i) => FixedTo(p, i) \in Nat)
  <2>1. p.features[i].lock # None => p.features[i].lock[1] \in Nat /\ p.features[i].lock[2] \in Nat
    BY WorkIs
  <2>2. Pins(p, i) # {} => PinnedFrom(p, i) \in Nat /\ PinnedTo(p, i) \in Nat BY PinnedIs
  <2>3. TicksPerWeek * s.week \in Nat BY <1>1, ViewAssumption
  <2> QED BY <2>1, <2>2, <2>3 DEF LockStart, EmptyFrom, Fixed, FixedTo
<1>4. \A i \in empty : i \in Features(p) /\ t.done[i] \in Int
  <2>1. empty \subseteq Features(p) BY DEF Empty
  <2> HIDE DEF empty
  <2> QED BY <1>2, <1>3, <2>1
<1> HIDE DEF empty
<1>5. \A i \in Features(p) : t.started[i] \in Nat \cup {None} /\ t.done[i] \in Int \cup {None}
  <2>1. \A i \in Features(p) : s.started[i] \in Nat \cup {None} /\ s.done[i] \in Int \cup {None}
    BY DEF PlanTyped
  <2>2. \A i \in Features(p) : i \notin empty => t.done[i] = s.done[i] /\ t.started[i] = s.started[i]
    BY <1>2
  <2>3. \A i \in Features(p) : i \in empty => t.started[i] = EmptyFrom(p, s, i) BY <1>2
  <2> QED BY <1>3, <1>4, <2>1, <2>2, <2>3
<1>6. DOMAIN t.started = Features(p) /\ DOMAIN t.done = Features(p) /\ t.refused \in BOOLEAN BY <1>2
<1>7. LeftTyped(p, t) /\ GivenTyped(p, t) /\ t.limit \in Int
  BY <1>1, <1>2 DEF LeftTyped, GivenTyped, PlanTyped
<1>8. PlanTyped(p, t) BY <1>2, <1>5, <1>6, <1>7 DEF PlanTyped
<1> QED BY <1>4, <1>8 DEF empty

(* The same work, of a plan with other weeks, starts or ends. *)
LEMMA SameWork ==
  ASSUME NEW p, NEW s, NEW t, t.given = s.given, t.left = s.left, t.limit = s.limit
  PROVE  /\ StaffedSoFar(p, s) => StaffedSoFar(p, t)
         /\ ConservedSoFar(p, s) => ConservedSoFar(p, t)
<1>1. \A r, w : GivenIn(t, r, w) = GivenIn(s, r, w) /\ GivenOf(t, r, w) = GivenOf(s, r, w)
  BY DEF GivenIn, GivenOf
<1> QED BY <1>1 DEF StaffedSoFar, ConservedSoFar

LEMMA StartOrdered ==
  ASSUME NEW p, IsStaffing(p), NEW s, PlanTyped(p, s), PinsFit(p, s.limit), OrderedSoFar(p, s),
         NEW ready, ready \subseteq Features(p), \A i \in ready : s.done[i] = None,
         NEW t, IsStarted(p, s, ready, t), ~ t.refused
  PROVE  OrderedSoFar(p, t)
<1> DEFINE empty == Empty(p, ready)
           lock(i) == p.features[i].lock
<1>1. /\ t.week = s.week /\ t.given = s.given
      /\ \A i \in Features(p) : i \notin empty => t.started[i] = s.started[i] /\ t.done[i] = s.done[i]
      /\ \A i \in empty : PinsWait(p, s, i)
  BY DEF IsStarted
<1>2. empty \subseteq Features(p) /\ \A i \in empty : s.done[i] = None /\ ~HasDemand(p, i)
  BY DEF Empty
<1>3. LaterDone(p, s, t)
  <2> HIDE DEF empty
  <2> QED BY <1>1, <1>2 DEF LaterDone
<1>4. \A i \in Features(p) : /\ \A m : Waited(p, s, i, m) => Waited(p, t, i, m)
                             /\ PinsWait(p, s, i) => PinsWait(p, t, i)
  BY <1>3, WaitedOn
<1>5. \A g \in s.given : g.feature \in Features(p) /\ g.feature \notin empty
  <2>1. \A g \in s.given : g.feature \in Features(p) /\ g.role \in DOMAIN p.features[g.feature].days
    BY DEF PlanTyped, GivenTyped
  <2>2. \A g \in s.given : HasDemand(p, g.feature) BY <2>1 DEF HasDemand
  <2> HIDE DEF empty
  <2> QED BY <1>2, <2>1, <2>2
<1>6. /\ \A g \in s.given : Timely(p, s, g)
      /\ \A i \in Features(p) : /\ s.done[i] # None => EndsAfter(p, s, i)
                                /\ Seen(p, s, i) => PinsWait(p, s, i)
                                /\ s.started[i] # None /\ s.done[i] = None => Underway(p, s, i)
  BY DEF OrderedSoFar
<1>7. \A i \in empty : t.done[i] \in Int BY StartTyped
<1>8. ASSUME NEW i \in empty, NEW pin \in Pins(p, i)  PROVE 2 * pin.to - 1 <= t.done[i]
  <2>1. i \in Features(p) /\ Fixed(p, i) BY <1>2 DEF Fixed
  <2>2. t.done[i] = 2 * FixedTo(p, i) - 1 BY <2>1 DEF IsStarted
  <2>3. pin.to \in Nat BY <2>1, WorkIs
  <2>4. FixedTo(p, i) \in Nat /\ pin.to <= FixedTo(p, i)
    <3>1. CASE lock(i) # None
      <4>1. lock(i)[2] \in Nat BY <2>1, <3>1, WorkIs
      <4>2. pin.to <= lock(i)[2] BY <2>1, <3>1 DEF PinsFit
      <4> QED BY <3>1, <4>1, <4>2 DEF FixedTo
    <3>2. CASE lock(i) = None
      <4>1. PinnedTo(p, i) \in Nat /\ pin.to <= PinnedTo(p, i) BY <2>1, PinnedIs
      <4> QED BY <3>2, <4>1 DEF FixedTo
    <3> QED BY <3>1, <3>2
  <2> QED BY <2>2, <2>3, <2>4
<1> HIDE DEF empty, lock
<1>9. ASSUME NEW g \in t.given  PROVE Timely(p, t, g)
  <2>1. g.feature \in Features(p) /\ t.started[g.feature] = s.started[g.feature] /\ Timely(p, s, g)
    BY <1>1, <1>5, <1>6
  <2> QED BY <1>4, <2>1 DEF Timely
<1>10. ASSUME NEW i \in Features(p)
       PROVE  /\ t.done[i] # None => EndsAfter(p, t, i)
              /\ Seen(p, t, i) => PinsWait(p, t, i)
              /\ t.started[i] # None /\ t.done[i] = None => Underway(p, t, i)
  <2>1. CASE i \in empty
    <3>1. PinsWait(p, t, i) BY <1>1, <1>4, <2>1
    <3>2. t.done[i] # None BY <1>7, <2>1, PlannerAssumption
    <3>3. EndsAfter(p, t, i) BY <1>1, <1>5, <1>8, <2>1 DEF EndsAfter
    <3> QED BY <3>1, <3>2, <3>3
  <2>2. CASE i \notin empty
    <3>1. t.started[i] = s.started[i] /\ t.done[i] = s.done[i] BY <1>1, <2>2
    <3>2. t.done[i] # None => EndsAfter(p, t, i) BY <1>1, <1>6, <3>1 DEF EndsAfter
    <3>3. Seen(p, t, i) => PinsWait(p, t, i) BY <1>1, <1>4, <1>6, <3>1 DEF Seen
    <3>4. t.started[i] # None /\ t.done[i] = None => Underway(p, t, i)
      BY <1>4, <1>6, <3>1 DEF Underway
    <3> QED BY <3>2, <3>3, <3>4
  <2> QED BY <2>1, <2>2
<1> QED BY <1>9, <1>10 DEF OrderedSoFar

LEMMA StartWeekInv ==
  ASSUME NEW p, IsStaffing(p), NEW s, PlanInv(p, s), ~Over(p, s),
         NEW ready, \A i \in ready : i \in Features(p) /\ Ready(p, s, i)
  PROVE  /\ WeekInv(p, StartEmpty(p, s, ready), 0, ready)
         /\ StartEmpty(p, s, ready).week = s.week
<1> DEFINE t == StartEmpty(p, s, ready)
<1>1. /\ PlanTyped(p, s) /\ PlanShape(s) /\ ~ s.refused /\ s.week \in Nat /\ s.limit \in Int /\ s.week < s.limit
      /\ PinsFit(p, s.limit) /\ SoundSoFar(p, s, 0, {})
  BY DEF PlanInv, Over, PlanTyped, LeftTyped
<1>2. ready \subseteq Features(p) /\ \A i \in ready : s.done[i] = None BY DEF Ready
<1>3. IsStarted(p, s, ready, t) BY <1>1, StartsIs
<1> HIDE DEF t
<1>4. PlanTyped(p, t) /\ \A i \in Empty(p, ready) : t.done[i] \in Int
  BY <1>1, <1>2, <1>3, StartTyped
<1>5. /\ t.week = s.week /\ t.limit = s.limit /\ t.left = s.left /\ t.given = s.given
      /\ \A i \in Features(p) : i \notin Empty(p, ready) => t.done[i] = s.done[i]
  BY <1>3 DEF IsStarted
<1>6. ToDo(p, t, ready)
  <2>1. \A i \in ready : i \in Empty(p, ready) <=> ~HasDemand(p, i) BY DEF Empty
  <2>2. LaterDone(p, s, t)
    <3>1. \A i \in Empty(p, ready) : s.done[i] = None BY <1>2 DEF Empty
    <3> QED BY <1>5, <3>1 DEF LaterDone
  <2>3. \A i \in ready : HasDemand(p, i) \/ t.done[i] # None BY <1>4, <2>1, PlannerAssumption
  <2>4. ASSUME NEW i \in ready, HasDemand(p, i)
        PROVE  /\ t.done[i] = None /\ Waited(p, t, i, Moment(t.week))
               /\ LET lock == p.features[i].lock IN lock # None => OverlapOf(lock[1], lock[2], t.week) > 0
    <3>1. t.done[i] = None BY <1>2, <1>5, <2>1, <2>4
    <3>2. Waited(p, s, i, Moment(s.week)) BY DEF Ready, Waited
    <3>3. Waited(p, t, i, Moment(s.week))
      <4>1. i \in Features(p) BY <1>2
      <4> QED BY <2>2, <3>2, <4>1, WaitedOn
    <3>4. LET lock == p.features[i].lock IN lock # None => OverlapOf(lock[1], lock[2], s.week) > 0
      BY DEF Ready, InWindow
    <3> QED BY <1>5, <3>1, <3>3, <3>4
  <2> QED BY <1>2, <2>3, <2>4 DEF ToDo
<1>7. ASSUME ~ t.refused  PROVE SoundSoFar(p, t, 0, ready)
  <2>1. WorkedUpTo(t, 0, ready)
    <3>1. \A g \in s.given : g.week < s.week BY <1>1 DEF SoundSoFar, WorkedUpTo
    <3> QED BY <1>5, <3>1 DEF WorkedUpTo
  <2>2. StaffedSoFar(p, t) /\ ConservedSoFar(p, t) BY <1>1, <1>5, SameWork DEF SoundSoFar
  <2>3. OrderedSoFar(p, t) BY <1>1, <1>2, <1>3, <1>7, StartOrdered DEF SoundSoFar
  <2> QED BY <2>1, <2>2, <2>3 DEF SoundSoFar
<1>8. WeekInv(p, t, 0, ready) BY <1>1, <1>4, <1>5, <1>6, <1>7 DEF WeekInv
<1> QED BY <1>5, <1>8 DEF t

LEMMA EndTyped ==
  ASSUME NEW p, IsStaffing(p), NEW s, PlanTyped(p, s), NEW ready, ready \subseteq Features(p),
         NEW t, IsEnded(p, s, ready, t)
  PROVE  /\ PlanTyped(p, t)
         /\ \A i \in Ended(s, ready) : /\ t.done[i] \in Int /\ Moment(s.week) <= t.done[i]
                                       /\ 2 * LockEnd(p, i) - 1 <= t.done[i]
<1>1. PlanShape(s) /\ LeftTyped(p, s) /\ GivenTyped(p, s) /\ s.week \in Nat
  BY DEF PlanTyped, LeftTyped
<1>2. /\ PlanShape(t) /\ t.week = s.week + 1 /\ t.limit = s.limit /\ t.left = s.left /\ t.given = s.given
      /\ t.refused = s.refused
      /\ t.started = [i \in Features(p) |-> IF i \in Ended(s, ready) /\ s.started[i] = None
                                            THEN TicksPerWeek * s.week ELSE s.started[i]]
      /\ t.done = [i \in Features(p) |-> IF i \in Ended(s, ready) THEN Max({Moment(s.week), 2 * LockEnd(p, i) - 1})
                                         ELSE s.done[i]]
  BY DEF IsEnded
<1>3. ASSUME NEW i \in Ended(s, ready)
      PROVE  /\ i \in Features(p) /\ t.done[i] \in Int /\ Moment(s.week) <= t.done[i]
             /\ 2 * LockEnd(p, i) - 1 <= t.done[i]
  <2> DEFINE a == Moment(s.week)
             b == 2 * LockEnd(p, i) - 1
  <2>1. i \in Features(p) BY DEF Ended
  <2>2. t.done[i] = Max({a, b}) BY <1>2, <2>1
  <2>3. a \in Int /\ b \in Int
    <3>1. s.week \in Int BY <1>1
    <3>2. LockEnd(p, i) \in Nat BY <2>1, LockEndIs
    <3> QED BY <3>1, <3>2, ViewAssumption DEF Moment
  <2> HIDE DEF a, b
  <2>4. Max({a, b}) = IF a >= b THEN a ELSE b BY <2>3, TwoOf
  <2>5. t.done[i] \in Int /\ a <= t.done[i] /\ b <= t.done[i] BY <2>2, <2>3, <2>4
  <2> QED BY <2>1, <2>5 DEF a, b
<1>4. \A i \in Features(p) : t.started[i] \in Nat \cup {None} /\ t.done[i] \in Int \cup {None}
  <2>1. \A i \in Features(p) : s.started[i] \in Nat \cup {None} /\ s.done[i] \in Int \cup {None}
    BY DEF PlanTyped
  <2>2. TicksPerWeek * s.week \in Nat BY <1>1, ViewAssumption
  <2>3. \A i \in Features(p) : i \notin Ended(s, ready) => t.done[i] = s.done[i] BY <1>2
  <2>4. \A i \in Features(p) : t.started[i] = TicksPerWeek * s.week \/ t.started[i] = s.started[i]
    BY <1>2
  <2> QED BY <1>3, <2>1, <2>2, <2>3, <2>4
<1>5. DOMAIN t.started = Features(p) /\ DOMAIN t.done = Features(p) /\ t.refused \in BOOLEAN /\ t.limit \in Int
  BY <1>2 DEF PlanTyped
<1>6. LeftTyped(p, t) /\ GivenTyped(p, t) BY <1>1, <1>2 DEF LeftTyped, GivenTyped
<1>7. PlanTyped(p, t) BY <1>2, <1>4, <1>5, <1>6 DEF PlanTyped
<1> QED BY <1>3, <1>7

LEMMA EndOrdered ==
  ASSUME NEW p, IsStaffing(p), NEW s, PlanTyped(p, s), NEW n, NEW ready, ToDo(p, s, ready),
         WorkedUpTo(s, n, ready), OrderedSoFar(p, s), NEW t, IsEnded(p, s, ready, t)
  PROVE  OrderedSoFar(p, t)
<1> DEFINE lock(i) == p.features[i].lock
<1>1. /\ t.given = s.given /\ s.week \in Nat /\ ready \subseteq Features(p)
      /\ \A i \in Features(p) : /\ i \notin Ended(s, ready) => t.done[i] = s.done[i] /\ t.started[i] = s.started[i]
                                /\ s.started[i] # None => t.started[i] = s.started[i]
  BY DEF IsEnded, PlanTyped, LeftTyped, ToDo
<1>2. \A i \in Ended(s, ready) : i \in Features(p) /\ i \in ready /\ s.done[i] = None /\ HasDemand(p, i)
  BY DEF Ended, ToDo
<1>3. LaterDone(p, s, t) BY <1>1, <1>2 DEF LaterDone
<1>4. \A i \in Features(p) : /\ \A m : Waited(p, s, i, m) => Waited(p, t, i, m)
                             /\ PinsWait(p, s, i) => PinsWait(p, t, i)
  BY <1>3, WaitedOn
<1>5. \A g \in s.given : g.feature \in Features(p) /\ g.week \in Nat /\ g.week <= s.week
  <2>1. \A g \in s.given : g.feature \in Features(p) /\ g.week \in Nat BY DEF PlanTyped, GivenTyped
  <2> QED BY <1>1, <2>1 DEF WorkedUpTo
<1>6. /\ \A g \in s.given : Timely(p, s, g)
      /\ \A i \in Features(p) : /\ s.done[i] # None => EndsAfter(p, s, i)
                                /\ Seen(p, s, i) => PinsWait(p, s, i)
                                /\ s.started[i] # None /\ s.done[i] = None => Underway(p, s, i)
  BY DEF OrderedSoFar
<1>7. \A i \in Ended(s, ready) : /\ t.done[i] \in Int /\ Moment(s.week) <= t.done[i]
                                 /\ 2 * LockEnd(p, i) - 1 <= t.done[i]
  BY <1>1, EndTyped
<1>8. \A i \in Features(p) : lock(i) # None => lock(i)[1] \in Nat /\ lock(i)[1] # None
  BY WorkIs, ViewAssumption
<1> HIDE DEF lock
<1>9. ASSUME NEW g \in t.given  PROVE Timely(p, t, g)
  <2> DEFINE i == g.feature
  <2>1. Timely(p, s, g) /\ i \in Features(p) BY <1>1, <1>5, <1>6
  <2>2. lock(i) # None => s.started[i] # None /\ s.started[i] = lock(i)[1] /\ OverlapOf(lock(i)[1], lock(i)[2], g.week) > 0
    BY <1>8, <2>1 DEF Timely, lock
  <2>3. s.started[i] # None => t.started[i] = s.started[i] BY <1>1, <2>1
  <2>4. Waited(p, t, i, Moment(g.week)) BY <1>4, <2>1 DEF Timely
  <2> QED BY <2>1, <2>2, <2>3, <2>4 DEF Timely, lock
<1>10. ASSUME NEW i \in Features(p)
       PROVE  /\ t.done[i] # None => EndsAfter(p, t, i)
              /\ Seen(p, t, i) => PinsWait(p, t, i)
              /\ t.started[i] # None /\ t.done[i] = None => Underway(p, t, i)
  <2>1. CASE i \in Ended(s, ready)
    <3>1. t.done[i] # None BY <1>7, <2>1, PlannerAssumption
    <3>2. ASSUME NEW g \in t.given  PROVE Moment(g.week) <= t.done[i]
      <4>1. g.week \in Int /\ s.week \in Int /\ g.week <= s.week BY <1>1, <1>5
      <4> DEFINE v == g.week
                 w == s.week
      <4>2. v \in Int /\ w \in Int /\ v <= w BY <4>1
      <4> HIDE DEF v, w
      <4>3. Moment(v) \in Int /\ Moment(w) \in Int /\ Moment(v) <= Moment(w) BY <4>2, MomentUp
      <4>4. Moment(w) <= t.done[i] /\ t.done[i] \in Int BY <1>7, <2>1 DEF w
      <4> QED BY <4>3, <4>4 DEF v
    <3>3. ASSUME NEW pin \in Pins(p, i)  PROVE 2 * pin.to - 1 <= t.done[i]
      <4>1. pin.to \in Nat /\ LockEnd(p, i) \in Nat /\ pin.to <= LockEnd(p, i) BY WorkIs, LockEndIs
      <4>2. t.done[i] \in Int /\ 2 * LockEnd(p, i) - 1 <= t.done[i] BY <1>7, <2>1
      <4> QED BY <4>1, <4>2
    <3>4. EndsAfter(p, t, i) BY <3>2, <3>3 DEF EndsAfter
    <3>5. Seen(p, t, i) => PinsWait(p, t, i) BY <1>1, <1>2, <1>4, <1>6, <2>1 DEF Seen
    <3> QED BY <3>1, <3>4, <3>5
  <2>2. CASE i \notin Ended(s, ready)
    <3>1. t.started[i] = s.started[i] /\ t.done[i] = s.done[i] BY <1>1, <2>2
    <3>2. t.done[i] # None => EndsAfter(p, t, i) BY <1>1, <1>6, <3>1 DEF EndsAfter
    <3>3. Seen(p, t, i) => PinsWait(p, t, i) BY <1>1, <1>4, <1>6, <3>1 DEF Seen
    <3>4. t.started[i] # None /\ t.done[i] = None => Underway(p, t, i)
      BY <1>4, <1>6, <3>1 DEF Underway
    <3> QED BY <3>2, <3>3, <3>4
  <2> QED BY <2>1, <2>2
<1> QED BY <1>9, <1>10 DEF OrderedSoFar

LEMMA EndWeekInv ==
  ASSUME NEW p, IsStaffing(p), NEW s, NEW n, NEW ready, WeekInv(p, s, n, ready)
  PROVE  PlanInv(p, [Complete(p, s, ready) EXCEPT !.week = @ + 1])
<1> DEFINE t == [Complete(p, s, ready) EXCEPT !.week = @ + 1]
<1>1. /\ PlanTyped(p, s) /\ PlanShape(s) /\ s.week \in Nat /\ PinsFit(p, s.limit)
      /\ ToDo(p, s, ready) /\ ready \subseteq Features(p)
  BY DEF WeekInv, PlanTyped, LeftTyped, ToDo
<1>2. IsEnded(p, s, ready, t) BY <1>1, CompleteIs
<1> HIDE DEF t
<1>3. PlanTyped(p, t) BY <1>1, <1>2, EndTyped
<1>4. t.week = s.week + 1 /\ t.limit = s.limit /\ t.left = s.left /\ t.given = s.given /\ t.refused = s.refused
  BY <1>2 DEF IsEnded
<1>5. ASSUME ~ t.refused  PROVE SoundSoFar(p, t, 0, {})
  <2>1. SoundSoFar(p, s, n, ready) BY <1>4, <1>5 DEF WeekInv
  <2>2. WorkedUpTo(t, 0, {})
    <3>1. \A g \in s.given : g.week \in Nat BY <1>1 DEF PlanTyped, GivenTyped
    <3>2. \A g \in s.given : g.week < s.week \/ g.week = s.week BY <2>1 DEF SoundSoFar, WorkedUpTo
    <3>3. \A g \in s.given : g.week < s.week + 1 BY <1>1, <3>1, <3>2
    <3> QED BY <1>4, <3>3 DEF WorkedUpTo
  <2>3. StaffedSoFar(p, t) /\ ConservedSoFar(p, t) BY <1>4, <2>1, SameWork DEF SoundSoFar
  <2>4. OrderedSoFar(p, t) BY <1>1, <1>2, <2>1, EndOrdered DEF SoundSoFar
  <2> QED BY <2>2, <2>3, <2>4 DEF SoundSoFar
<1>6. PlanInv(p, t) BY <1>1, <1>3, <1>4, <1>5 DEF PlanInv
<1> QED BY <1>6 DEF t

(* A week keeps a plan sound. *)
LEMMA StepInv ==
  ASSUME NEW p, IsStaffing(p), NEW s, PlanInv(p, s), ~Over(p, s)
  PROVE  PlanInv(p, Step(p, s))
<1> DEFINE ready == {i \in Features(p) : Ready(p, s, i) /\ CanStart(p, s, i)}
           first == StartEmpty(p, s, ready)
           worked == AllRoles(p, first, ready)
<1>1. \A i \in ready : i \in Features(p) /\ Ready(p, s, i) OBVIOUS
<1>2. Step(p, s) = [Complete(p, worked, ready) EXCEPT !.week = @ + 1] BY DEF Step, StepWith
<1> HIDE DEF ready
<1>3. WeekInv(p, first, 0, ready) BY <1>1, StartWeekInv
<1> HIDE DEF first
<1>4. WeekInv(p, worked, Len(p.roles), ready) BY <1>3, AllRolesInv
<1> HIDE DEF worked
<1> QED BY <1>2, <1>4, EndWeekInv

LEMMA BeginInv ==
  ASSUME NEW p, IsStaffing(p)
  PROVE  PlanInv(p, Begin(p))
<1> DEFINE limit == MaxWeeks(p)
           last == Max({-1} \cup {CeilDiv(pin.to, TicksPerWeek) - 1 : pin \in UNION {Pins(p, i) : i \in Features(p)}})
           refused == ~PinsFit(p, limit)
           left == [i \in Features(p) |-> p.features[i].days]
           none == [i \in Features(p) |-> None]
           t == Begin(p)
<1>1. limit \in Int BY LimitInt
<1>2. refused \in BOOLEAN OBVIOUS
<1>3. t = [week |-> 0, limit |-> limit, refused |-> refused, left |-> left,
           started |-> none, done |-> none, given |-> {}, last |-> last]
  BY DEF Begin, Within
<1>4. DOMAIN left = Features(p) /\ (\A i \in Features(p) : left[i] = p.features[i].days)
      /\ DOMAIN none = Features(p) /\ \A i \in Features(p) : none[i] = None
  OBVIOUS
<1> HIDE DEF last, left, none, t, limit
<1>5. /\ PlanShape(t) /\ t.week = 0 /\ t.limit = limit /\ t.refused = refused /\ t.left = left
      /\ t.started = none /\ t.done = none /\ t.given = {}
  <2> HIDE DEF refused
  <2> QED BY <1>3 DEF PlanShape
<1>6. PlanTyped(p, t)
  <2>1. LeftTyped(p, t) BY <1>4, <1>5, WorkIs DEF LeftTyped
  <2>2. GivenTyped(p, t) BY <1>5, FS_EmptySet DEF GivenTyped
  <2> HIDE DEF refused
  <2> QED BY <1>1, <1>2, <1>4, <1>5, <2>1, <2>2 DEF PlanTyped
<1>7. ASSUME ~ t.refused  PROVE PinsFit(p, t.limit) /\ SoundSoFar(p, t, 0, {})
  <2>1. PinsFit(p, limit) BY <1>5, <1>7
  <2>2. \A x, y : Days(GivenIn(t, x, y)) = 0 /\ Days(GivenOf(t, x, y)) = 0
    <3>1. \A x, y : GivenIn(t, x, y) = {} /\ GivenOf(t, x, y) = {} BY <1>5 DEF GivenIn, GivenOf
    <3>2. Days({}) = 0 BY SumNone DEF Days
    <3> QED BY <3>1, <3>2
  <2>3. StaffedSoFar(p, t)
    <3>1. ASSUME NEW r \in Roles(p), NEW w \in 0 .. limit - 1
          PROVE  Days(GivenIn(t, r, w)) + PinnedDays(p, r, w) <= CapacityOf(p, r, w)
      <4>1. PinnedDays(p, r, w) <= CapacityOf(p, r, w) BY <2>1 DEF PinsFit
      <4>2. PinnedDays(p, r, w) \in Int
        <5>1. w \in Int BY <1>1
        <5> QED BY <5>1, PinnedInt
      <4> QED BY <2>2, <4>1, <4>2
    <3> QED BY <1>5, <3>1 DEF StaffedSoFar
  <2>4. ConservedSoFar(p, t)
    <3>1. ASSUME NEW i \in Features(p), NEW r \in DOMAIN p.features[i].days
          PROVE  Days(GivenOf(t, i, r)) + t.left[i][r] = p.features[i].days[r]
      <4>1. t.left[i][r] = p.features[i].days[r] /\ p.features[i].days[r] \in Nat
        BY <1>4, <1>5, WorkIs
      <4> QED BY <2>2, <4>1
    <3> QED BY <3>1 DEF ConservedSoFar
  <2>5. WorkedUpTo(t, 0, {}) BY <1>5 DEF WorkedUpTo
  <2>6. OrderedSoFar(p, t) BY <1>4, <1>5 DEF OrderedSoFar, Seen
  <2> QED BY <1>5, <2>1, <2>3, <2>4, <2>5, <2>6 DEF SoundSoFar
<1> QED BY <1>6, <1>7 DEF PlanInv, t

----
(* A plan that is sound so far is sound. *)

(* The weeks a feature is worked on are over when it is done. *)
LEMMA WorkedBefore ==
  ASSUME NEW p, IsStaffing(p), NEW s, PlanTyped(p, s), OrderedSoFar(p, s), NEW j \in Features(p), s.done[j] # None,
         NEW w \in WorkWeeks(p, s, j)
  PROVE  w \in Nat /\ s.done[j] \in Int /\ Moment(w) \in Int /\ Moment(w) <= s.done[j]
<1>1. s.done[j] \in Int BY DEF PlanTyped
<1>2. /\ \A g \in s.given : g.feature = j => Moment(g.week) <= s.done[j]
      /\ \A pin \in Pins(p, j) : 2 * pin.to - 1 <= s.done[j]
  BY DEF OrderedSoFar, EndsAfter
<1>3. w \in Nat BY StaffingAssumption DEF WorkWeeks, Weeks, GivenTo, PlanTyped, GivenTyped
<1>4. Moment(w) \in Int BY <1>3, ViewAssumption DEF Moment
<1>5. CASE \E g \in s.given : g.feature = j /\ g.week = w BY <1>1, <1>2, <1>3, <1>4, <1>5
<1>6. ASSUME NEW pin \in Pins(p, j), OverlapOf(pin.from, pin.to, w) > 0  PROVE Moment(w) <= s.done[j]
  <2> DEFINE a == pin.from
             b == pin.to
             c == w * TicksPerWeek
  <2>1. a \in Int /\ b \in Int /\ w \in Int /\ c \in Int BY <1>3, WorkIs, ViewAssumption
  <2>2. OverlapOf(a, b, w) > 0 BY <1>6
  <2>3. 2 * b - 1 <= s.done[j] BY <1>2
  <2> HIDE DEF a, b
  <2>4. c < b BY <2>1, <2>2, OverlapInt
  <2>5. Moment(w) = 2 * c BY <1>3, ViewAssumption DEF Moment
  <2> HIDE DEF c
  <2> QED BY <1>1, <2>1, <2>3, <2>4, <2>5
<1>7. (\E g \in s.given : g.feature = j /\ g.week = w) \/ \E pin \in Pins(p, j) : OverlapOf(pin.from, pin.to, w) > 0
  BY DEF WorkWeeks, GivenTo
<1> QED BY <1>1, <1>3, <1>4, <1>5, <1>6, <1>7

LEMMA SoundOrder ==
  ASSUME NEW p, IsStaffing(p), NEW s, PlanTyped(p, s), OrderedSoFar(p, s)
  PROVE  WorkedInOrder(p, s)
<1> DEFINE T == TicksPerWeek
<1>1. ASSUME NEW i \in Features(p), PinsSeen(p, s, i), NEW j \in Predecessors(p, i) \ {0},
             NEW v \in WorkWeeks(p, s, i), NEW w \in WorkWeeks(p, s, j)
      PROVE  w < v \/ (w = v /\ Pins(p, i) # {} /\ PinnedFrom(p, i) > T * v)
  <2>1. j \in Features(p) BY <1>1, WaitsAre
  <2>2. PinsWait(p, s, i)
    <3>1. Seen(p, s, i) BY <1>1 DEF PinsSeen, Seen, GivenTo
    <3> QED BY <3>1 DEF OrderedSoFar
  <2>3. v \in Nat BY StaffingAssumption DEF WorkWeeks, Weeks, GivenTo, PlanTyped, GivenTyped
  <2>4. CASE \E g \in s.given : g.feature = i /\ g.week = v
    <3>1. PICK g \in s.given : g.feature = i /\ g.week = v BY <2>4
    <3>2. Waited(p, s, i, Moment(v)) BY <3>1 DEF OrderedSoFar, Timely
    <3>3. s.done[j] # None /\ s.done[j] < Moment(v) BY <3>2 DEF Waited
    <3>4. w \in Nat /\ s.done[j] \in Int /\ Moment(w) \in Int /\ Moment(w) <= s.done[j]
      BY <2>1, <3>3, WorkedBefore
    <3>5. ~ (v <= w)
      <4> SUFFICES ASSUME v <= w  PROVE FALSE OBVIOUS
      <4>1. v \in Int /\ w \in Int BY <2>3, <3>4
      <4>2. Moment(v) \in Int /\ Moment(v) <= Moment(w) BY <4>1, MomentUp
      <4> QED BY <3>3, <3>4, <4>2
    <3> QED BY <2>3, <3>4, <3>5
  <2>5. ASSUME NEW pin \in Pins(p, i), OverlapOf(pin.from, pin.to, v) > 0
        PROVE  w < v \/ (w = v /\ Pins(p, i) # {} /\ PinnedFrom(p, i) > T * v)
    <3> DEFINE a == pin.from
               b == pin.to
               c == T * w
               d == T * v
               e == PinnedFrom(p, i)
    <3>1. s.done[j] # None /\ s.done[j] < 2 * e - 1 BY <2>2 DEF PinsWait
    <3>2. w \in Nat /\ s.done[j] \in Int /\ Moment(w) \in Int /\ Moment(w) <= s.done[j]
      BY <2>1, <3>1, WorkedBefore
    <3>3. a \in Int /\ b \in Int /\ v \in Int /\ OverlapOf(a, b, v) > 0 /\ T \in Nat /\ T > 0
      BY <2>3, <2>5, WorkIs, ViewAssumption
    <3>4. e \in Nat /\ e <= a BY PinnedIs
    <3>5. c \in Int /\ d \in Int /\ Moment(w) = 2 * c BY <2>3, <3>2, <3>3 DEF Moment
    <3>6. (v + 1) * T = d + T BY <2>3, <3>3
    <3> HIDE DEF a, b, e
    <3>7. a < d + T
      <4>1. a < (v + 1) * TicksPerWeek BY <3>3, OverlapInt
      <4> QED BY <3>6, <4>1
    <3> HIDE DEF T, c, d
    <3>8. c < e /\ c < d + T BY <3>1, <3>2, <3>3, <3>4, <3>5, <3>7
    <3>9. w <= v
      <4> SUFFICES ASSUME v + 1 <= w  PROVE FALSE
        BY <2>3, <3>2
      <4> DEFINE k == w - (v + 1)
      <4>1. k \in Nat /\ w = (v + 1) + k BY <2>3, <3>2
      <4> HIDE DEF k
      <4>2. T * k \in Nat /\ c = (T * v + T) + T * k BY <2>3, <3>3, <4>1 DEF c
      <4>3. c = (d + T) + T * k BY <4>2 DEF d
      <4> QED BY <3>3, <3>5, <3>8, <4>2, <4>3
    <3>10. w = v => e > d BY <3>4, <3>5, <3>8 DEF c, d
    <3> QED BY <2>3, <2>5, <3>2, <3>9, <3>10 DEF d, e
  <2>6. (\E g \in s.given : g.feature = i /\ g.week = v) \/ \E pin \in Pins(p, i) : OverlapOf(pin.from, pin.to, v) > 0
    BY DEF WorkWeeks, GivenTo
  <2> QED BY <2>4, <2>5, <2>6
<1>2. ASSUME NEW i \in Features(p), NEW g \in GivenTo(s, i)
      PROVE  LET lock == p.features[i].lock
             IN  lock # None => /\ OverlapOf(lock[1], lock[2], g.week) > 0
                                /\ s.started[i] = lock[1]
  <2>1. g \in s.given /\ g.feature = i BY DEF GivenTo
  <2> QED BY <2>1 DEF OrderedSoFar, Timely
<1> QED BY <1>1, <1>2 DEF WorkedInOrder

LEMMA SoundStaff ==
  ASSUME NEW p, IsStaffing(p), NEW s, PlanTyped(p, s), StaffedSoFar(p, s)
  PROVE  StaffedWithinCapacity(p, s)
<1>1. /\ \A r \in Roles(p), w \in 0 .. s.limit - 1 :
           Days(GivenIn(s, r, w)) + PinnedDays(p, r, w) <= CapacityOf(p, r, w)
      /\ \A g \in s.given : g.week < s.limit /\ g.days <= FeatureCap(p, g.role)
  BY DEF StaffedSoFar
<1>2. s.limit \in Int /\ \A g \in s.given : g.week \in Nat BY DEF PlanTyped, GivenTyped
<1>3. ASSUME NEW r \in Roles(p), NEW w \in {g.week : g \in s.given}
      PROVE  LET given == {g \in s.given : g.role = r /\ g.week = w}
             IN  /\ SumOver(given, LAMBDA g : g.days) + PinnedDays(p, r, w) <= CapacityOf(p, r, w)
                 /\ \A g \in given : g.days <= FeatureCap(p, r)
  <2>1. w \in 0 .. s.limit - 1 BY <1>1, <1>2
  <2>2. SumOver(GivenIn(s, r, w), LAMBDA g : g.days) = Days(GivenIn(s, r, w)) BY DaysIs
  <2>3. SumOver(GivenIn(s, r, w), LAMBDA g : g.days) + PinnedDays(p, r, w) <= CapacityOf(p, r, w)
    BY <1>1, <2>1, <2>2
  <2>4. \A g \in GivenIn(s, r, w) : g.days <= FeatureCap(p, r) BY <1>1 DEF GivenIn
  <2> QED BY <2>3, <2>4 DEF GivenIn
<1> QED BY <1>3 DEF StaffedWithinCapacity

LEMMA SoundWork ==
  ASSUME NEW p, NEW s, ConservedSoFar(p, s)
  PROVE  WorkConserved(p, s)
<1>1. ASSUME NEW i \in Features(p), NEW r \in DOMAIN p.features[i].days
      PROVE  SumOver({g \in GivenTo(s, i) : g.role = r}, LAMBDA g : g.days) + s.left[i][r] = p.features[i].days[r]
  <2>1. {g \in GivenTo(s, i) : g.role = r} = GivenOf(s, i, r) BY DEF GivenTo, GivenOf
  <2>2. SumOver({g \in GivenTo(s, i) : g.role = r}, LAMBDA g : g.days) = Days({g \in GivenTo(s, i) : g.role = r})
    BY DaysIs
  <2> QED BY <2>1, <2>2 DEF ConservedSoFar
<1> QED BY <1>1 DEF WorkConserved

----
(* The epic leveller: its numbers. *)

(* Part of a sum of what is never negative is no more than all of it. *)
LEMMA SumNoMore ==
  ASSUME NEW f, Numbers(f), \A x \in DOMAIN f : f[x] >= 0,
         NEW e, DOMAIN e \subseteq DOMAIN f, \A x \in DOMAIN e : e[x] = f[x]
  PROVE  SumFunction(e) \in Nat /\ SumFunction(f) \in Nat /\ SumFunction(e) <= SumFunction(f)
<1>1. PICK g : Summed(f, DOMAIN f, g) /\ SumFunction(f) = g[DOMAIN f] BY SumSummed
<1>2. Numbers(e) BY CountIs DEF Numbers
<1>3. PICK k : Summed(e, DOMAIN e, k) /\ SumFunction(e) = k[DOMAIN e] BY <1>2, SumSummed
<1>4. k[DOMAIN e] = g[DOMAIN e]
  <2> DEFINE h == [y \in DOMAIN e |-> y]
  <2>1. \A s \in SUBSET DOMAIN e : k[s] = g[{h[y] : y \in s}]
    <3>1. \A y \in DOMAIN e : h[y] \in DOMAIN f /\ f[h[y]] = e[y] OBVIOUS
    <3>2. \A y, z \in DOMAIN e : h[y] = h[z] => y = z OBVIOUS
    <3> HIDE DEF h
    <3> QED BY <1>1, <1>3, <3>1, <3>2, SumRenamed
  <2>2. DOMAIN e = {h[y] : y \in DOMAIN e} OBVIOUS
  <2> QED BY <2>1, <2>2
<1>5. g[{}] = 0 /\ \A s \in SUBSET DOMAIN f : g[s] \in Int /\ \A x \in s : g[s] = f[x] + g[s \ {x}]
  BY <1>1, SumAny
<1>6. \A s \in SUBSET DOMAIN f : \A t \in SUBSET s : g[t] <= g[s]
  <2> SUFFICES ASSUME NEW t \in SUBSET DOMAIN f
               PROVE  \A s \in SUBSET DOMAIN f : t \subseteq s => g[t] <= g[s]
    OBVIOUS
  <2> DEFINE F == {s \in SUBSET DOMAIN f : t \subseteq s /\ ~ (g[t] <= g[s])}
  <2> SUFFICES ASSUME F # {}  PROVE FALSE OBVIOUS
  <2>0. IsFiniteSet(DOMAIN f) /\ F \subseteq SUBSET DOMAIN f BY DEF Numbers
  <2>1. PICK s \in F : \A x \in s : s \ {x} \notin F
    <3> HIDE DEF F
    <3> QED BY <2>0, Minimal
  <2>2. s \in SUBSET DOMAIN f /\ t \subseteq s /\ ~ (g[t] <= g[s]) BY <2>1
  <2>3. PICK x \in s : x \notin t
    <3>1. s # t BY <1>5, <2>2
    <3> QED BY <2>2, <3>1
  <2>5. g[t] <= g[s \ {x}]
    <3>1. s \ {x} \notin F BY <2>1, <2>3
    <3> QED BY <2>2, <2>3, <3>1
  <2>6. g[s] = f[x] + g[s \ {x}] /\ g[s \ {x}] \in Int /\ g[t] \in Int /\ f[x] \in Int /\ f[x] >= 0
    BY <1>5, <2>2, <2>3 DEF Numbers
  <2> HIDE DEF F
  <2>7. g[t] <= f[x] + g[s \ {x}] BY <2>5, <2>6
  <2> QED BY <2>2, <2>6, <2>7
<1>7. g[{}] <= g[DOMAIN e] /\ g[DOMAIN e] <= g[DOMAIN f] BY <1>6
<1>8. g[DOMAIN e] \in Int /\ g[DOMAIN f] \in Int BY <1>5
<1> QED BY <1>1, <1>3, <1>4, <1>5, <1>7, <1>8

LEMMA SumNat ==
  ASSUME NEW f, Numbers(f), \A x \in DOMAIN f : f[x] >= 0
  PROVE  SumFunction(f) \in Nat
BY SumNoMore

LEMMA WeekZeroNat ==
  ASSUME NEW p, IsStaffing(p), NEW r \in Roles(p)
  PROVE  WeekZero(p, r) \in Nat
<1> DEFINE role == p.roles[r]
           f == [i \in DOMAIN role.people |-> PercentAt(role.people[i].segments, 0)]
<1>1. role.count \in Nat /\ InSeq(role.people) /\ (role.segments # None => HasSegments(role))
      /\ \A k \in DOMAIN role.people : HasSegments(role.people[k])
  BY AskedIs DEF IsStaff
<1> HIDE DEF role
<1>2. NamedPercent(role, 0) \in Nat
  <2>1. IsFiniteSet(DOMAIN f) /\ \A x \in DOMAIN f : f[x] \in Nat BY <1>1, SeqIs, PercentInt
  <2>2. NamedPercent(role, 0) = SumFunction(f) BY DEF NamedPercent, SumOver
  <2> HIDE DEF f
  <2>3. Numbers(f) /\ \A x \in DOMAIN f : f[x] >= 0 BY <2>1 DEF Numbers
  <2> QED BY <2>2, <2>3, SumNat
<1>3. PercentIn(role, 0) \in Nat
  <2>1. CASE role.segments = None
    <3> DEFINE x == role.count - 100 * Len(role.people)
    <3>1. x \in Int BY <1>1, SeqIs
    <3> HIDE DEF x
    <3>2. Max({0, x}) \in Nat
      <4>1. Max({0, x}) = IF 0 >= x THEN 0 ELSE x BY <3>1, TwoOf
      <4> QED BY <3>1, <4>1
    <3>3. PercentIn(role, 0) = NamedPercent(role, 0) + Max({0, x}) BY <2>1 DEF PercentIn, x
    <3> QED BY <1>2, <3>2, <3>3
  <2>2. CASE role.segments # None BY <1>1, <1>2, <2>2, PercentInt DEF PercentIn
  <2> QED BY <2>1, <2>2
<1>4. Point = 6 BY DEF Point, Day
<1> QED BY <1>3, <1>4 DEF WeekZero, role

LEMMA CeilFine ==
  ASSUME NEW a \in Int
  PROVE  /\ CeilDiv(a, Fine) \in Int /\ a <= Fine * CeilDiv(a, Fine)
         /\ \A b \in Int : a <= Fine * b => CeilDiv(a, Fine) <= b
BY DEF CeilDiv, Fine

LEMMA TakesIs ==
  ASSUME NEW p, IsLevelling(p), NEW i \in Features(p)
  PROVE  /\ Takes(p, i) \in Nat /\ Lasts(p, i) \in Nat /\ Takes(p, i) <= Fine * Lasts(p, i)
         /\ Lasts(p, i) > 0 =>
              Takes(p, i) > 0 /\ \A r \in DOMAIN p.features[i].days : Rate(p, i, r) \in Nat
<1> DEFINE f == p.features[i]
           count(r) == IF p.epics[f.epic].sequential THEN p.roles[r].count
                       ELSE Min({p.roles[r].count, 100 * p.parallelism})
           alone == [r \in DOMAIN f.days |-> CeilDiv(Fine * f.days[r], Point * Max({100, count(r)}))]
           window == (Fine * (f.lock[2] - f.lock[1])) \div TicksPerWeek
<1>1. IsStaffing(p) /\ (f.lock # None => f.lock[1] <= f.lock[2]) BY DEF IsLevelling
<1>2. /\ DOMAIN f.days \subseteq Roles(p) /\ \A r \in DOMAIN f.days : f.days[r] \in Nat
      /\ f.lock = None \/ f.lock \in Nat \X Nat
      /\ IsFiniteSet(DOMAIN f.days) /\ \A r \in DOMAIN f.days : p.roles[r].count \in Nat
      /\ p.parallelism \in Nat
  <2>1. p.parallelism \in Nat BY <1>1 DEF IsStaffing
  <2>2. DOMAIN f.days \subseteq Roles(p) /\ IsFiniteSet(Roles(p)) BY <1>1, WorkIs, AskedIs
  <2>3. IsFiniteSet(DOMAIN f.days) BY <2>2, FS_Subset
  <2>4. \A r \in DOMAIN f.days : p.roles[r].count \in Nat BY <1>1, <2>2, AskedIs DEF IsStaff
  <2> QED BY <1>1, <2>1, <2>2, <2>3, <2>4, WorkIs
<1>3. Takes(p, i) = IF p.epics[f.epic].sequential /\ f.lock # None THEN window
                    ELSE IF f.days = <<>> THEN Fine
                    ELSE Max({Fine \div 5} \cup {alone[r] : r \in DOMAIN alone})
  BY DEF Takes
<1>4. f.lock # None => window \in Nat
  <2> SUFFICES ASSUME f.lock # None  PROVE window \in Nat
    OBVIOUS
  <2> DEFINE a == Fine * (f.lock[2] - f.lock[1])
  <2>1. a \in Nat BY <1>1, <1>2 DEF Fine
  <2> HIDE DEF a
  <2>2. a \div TicksPerWeek \in Nat BY <2>1, ViewAssumption
  <2> QED BY <2>2 DEF a
<1>5. \A r \in DOMAIN f.days : alone[r] \in Int
  <2> SUFFICES ASSUME NEW r \in DOMAIN f.days  PROVE alone[r] \in Int
    OBVIOUS
  <2> DEFINE c == count(r)
             m == Max({100, c})
             x == Fine * f.days[r]
  <2>1. c \in Int
    <3>1. 100 * p.parallelism \in Int /\ p.roles[r].count \in Int BY <1>2
    <3>2. Min({p.roles[r].count, 100 * p.parallelism}) \in Int BY <3>1, TwoOf
    <3> QED BY <3>1, <3>2
  <2> HIDE DEF c
  <2>2. m \in Int /\ m >= 100 BY <2>1, TwoOf
  <2>3. x \in Int BY <1>2 DEF Fine
  <2>4. alone[r] = CeilDiv(x, Point * m) BY DEF c
  <2> HIDE DEF m, x, alone
  <2>5. Point * m \in Int /\ Point * m > 0 BY <2>2 DEF Point, Day
  <2> QED BY <2>3, <2>4, <2>5, CeilInt
<1>6. Max({Fine \div 5} \cup {alone[r] : r \in DOMAIN alone}) \in Nat
  <2>1. IsFiniteSet(DOMAIN alone) /\ \A r \in DOMAIN alone : alone[r] \in Int BY <1>2, <1>5
  <2> DEFINE m == Max({Fine \div 5} \cup {alone[r] : r \in DOMAIN alone})
  <2>2. Fine \div 5 \in Int /\ Fine \div 5 >= 0 BY DEF Fine
  <2> HIDE DEF alone
  <2>3. m \in Int /\ Fine \div 5 <= m BY <2>1, <2>2, MaxWith
  <2> HIDE DEF m
  <2>4. m \in Nat BY <2>2, <2>3
  <2> QED BY <2>4 DEF m
<1> HIDE DEF alone, window
<1>7. Takes(p, i) \in Nat BY <1>3, <1>4, <1>6 DEF Fine
<1>8. /\ Lasts(p, i) \in Int /\ Takes(p, i) <= Fine * Lasts(p, i)
      /\ \A b \in Int : Takes(p, i) <= Fine * b => Lasts(p, i) <= b
  BY <1>7, CeilFine DEF Lasts
<1>9. Lasts(p, i) \in Nat BY <1>7, <1>8 DEF Fine
<1>10. ASSUME Lasts(p, i) > 0  PROVE Takes(p, i) > 0
  <2>1. ~ (Lasts(p, i) <= 0) BY <1>9, <1>10
  <2>2. ~ (Takes(p, i) <= Fine * 0) BY <1>8, <2>1
  <2> QED BY <1>7, <2>2 DEF Fine
<1>11. ASSUME Lasts(p, i) > 0, NEW r \in DOMAIN f.days  PROVE Rate(p, i, r) \in Nat
  <2> DEFINE x == Fine * f.days[r]
             t == Takes(p, i)
  <2>1. x \in Nat /\ t \in Nat /\ t > 0 BY <1>2, <1>7, <1>10, <1>11 DEF Fine
  <2>2. Rate(p, i, r) = x \div t BY DEF Rate
  <2> HIDE DEF x, t
  <2>3. x \div t \in Nat BY <2>1
  <2> QED BY <2>2, <2>3
<1> QED BY <1>7, <1>8, <1>9, <1>10, <1>11

(* The features that are placed, and when. *)
SomePlaced(p, starts) == DOMAIN starts \subseteq Features(p) /\ \A j \in DOMAIN starts : starts[j] \in Nat

(* Who uses a role in a week. *)
Users(p, starts, S, r, w) ==
  {i \in S \cap DOMAIN starts : r \in DOMAIN p.features[i].days /\ Occupies(p, starts, i, w)}

LEMMA UsedIs ==
  ASSUME NEW p, IsLevelling(p), NEW starts, SomePlaced(p, starts), NEW S, NEW r, NEW w \in Int
  PROVE  LET f == [i \in Users(p, starts, S, r, w) |-> Rate(p, i, r)]
         IN  /\ UsedBy(p, starts, S, r, w) = SumFunction(f)
             /\ Numbers(f) /\ \A i \in DOMAIN f : f[i] >= 0
             /\ UsedBy(p, starts, S, r, w) \in Nat
<1> DEFINE U == Users(p, starts, S, r, w)
           f == [i \in U |-> Rate(p, i, r)]
<1>1. UsedBy(p, starts, S, r, w) = SumFunction(f) BY DEF UsedBy, SumOver, Users
<1>2. U \subseteq Features(p) /\ \A i \in U : r \in DOMAIN p.features[i].days
  BY DEF Users, SomePlaced
<1>3. IsFiniteSet(Features(p)) BY AskedIs DEF IsLevelling
<1>4. IsFiniteSet(U) BY <1>2, <1>3, FS_Subset
<1>5. ASSUME NEW i \in U  PROVE Rate(p, i, r) \in Nat
  <2>1. starts[i] \in Nat /\ starts[i] <= w /\ w < starts[i] + Lasts(p, i)
    BY DEF Users, Occupies, SomePlaced
  <2>2. i \in Features(p) /\ Lasts(p, i) \in Nat BY <1>2, TakesIs
  <2>3. Lasts(p, i) > 0 BY <2>1, <2>2
  <2> QED BY <1>2, <2>2, <2>3, TakesIs
<1> HIDE DEF U
<1>6. Numbers(f) /\ \A i \in DOMAIN f : f[i] >= 0 BY <1>4, <1>5 DEF Numbers
<1> HIDE DEF f
<1>7. SumFunction(f) \in Nat BY <1>6, SumNat
<1> QED BY <1>1, <1>6, <1>7 DEF f, U

(* Some of the features use no more of a role than all of them. *)
LEMMA UsedLess ==
  ASSUME NEW p, IsLevelling(p), NEW starts, SomePlaced(p, starts),
         NEW T, NEW S, S \subseteq T, NEW r, NEW w \in Int
  PROVE  UsedBy(p, starts, S, r, w) <= UsedBy(p, starts, T, r, w)
<1> DEFINE e == [i \in Users(p, starts, S, r, w) |-> Rate(p, i, r)]
           f == [i \in Users(p, starts, T, r, w) |-> Rate(p, i, r)]
<1>1. DOMAIN e \subseteq DOMAIN f /\ \A x \in DOMAIN e : e[x] = f[x] BY DEF Users
<1>2. UsedBy(p, starts, S, r, w) = SumFunction(e) BY UsedIs
<1>3. UsedBy(p, starts, T, r, w) = SumFunction(f) /\ Numbers(f) /\ \A i \in DOMAIN f : f[i] >= 0
  BY UsedIs
<1> HIDE DEF e, f
<1> QED BY <1>1, <1>2, <1>3, SumNoMore

(* One more feature is placed. *)
Plus(starts, i, week) == [j \in {i} \cup DOMAIN starts |-> IF j = i THEN week ELSE starts[j]]

LEMMA UsedWith ==
  ASSUME NEW p, IsLevelling(p), NEW starts, SomePlaced(p, starts),
         NEW i \in Features(p), i \notin DOMAIN starts, NEW week \in Nat, NEW S, NEW r, NEW w \in Int
  PROVE  LET more == Plus(starts, i, week)
         IN  \/ UsedBy(p, more, S, r, w) = UsedBy(p, starts, S, r, w)
             \/ /\ i \in S /\ r \in DOMAIN p.features[i].days
                /\ week <= w /\ w < week + Lasts(p, i)
                /\ UsedBy(p, more, S, r, w) = UsedBy(p, starts, S, r, w) + Rate(p, i, r)
<1> DEFINE more == Plus(starts, i, week)
           U == Users(p, starts, S, r, w)
           V == Users(p, more, S, r, w)
           e == [j \in U |-> Rate(p, j, r)]
           f == [j \in V |-> Rate(p, j, r)]
<1>1. DOMAIN more = {i} \cup DOMAIN starts /\ more[i] = week /\ \A j \in DOMAIN starts : more[j] = starts[j]
  BY DEF Plus
<1> HIDE DEF more
<1>2. SomePlaced(p, more) BY <1>1 DEF SomePlaced
<1>3. UsedBy(p, starts, S, r, w) = SumFunction(e) BY UsedIs
<1>4. UsedBy(p, more, S, r, w) = SumFunction(f) /\ Numbers(f) BY <1>2, UsedIs
<1>5. CASE i \in V
  <2>1. i \in S /\ r \in DOMAIN p.features[i].days /\ week <= w /\ w < week + Lasts(p, i)
    BY <1>1, <1>5 DEF Users, Occupies
  <2>2. U = V \ {i} BY <1>1 DEF Users, Occupies
  <2> HIDE DEF U, V
  <2>3. i \in DOMAIN f /\ f[i] = Rate(p, i, r) /\ DOMAIN e = DOMAIN f \ {i} /\ \A y \in DOMAIN e : e[y] = f[y]
    BY <1>5, <2>2
  <2> HIDE DEF e, f
  <2>4. SumFunction(f) = SumFunction(e) + f[i] BY <1>4, <2>3, SumAdded
  <2> QED BY <1>3, <1>4, <2>1, <2>3, <2>4 DEF more
<1>6. CASE i \notin V
  <2>1. U = V BY <1>1, <1>6 DEF Users, Occupies
  <2>2. e = f BY <2>1
  <2> HIDE DEF e, f
  <2> QED BY <1>3, <1>4, <2>2 DEF more
<1> QED BY <1>5, <1>6

----
(* The epic leveller: where one feature is put. *)

LEMMA FinishIs ==
  ASSUME NEW p, IsLevelling(p), NEW starts, SomePlaced(p, starts), NEW j \in Features(p)
  PROVE  /\ FinishOf(p, starts, j) \in Nat
         /\ j \in DOMAIN starts => FinishOf(p, starts, j) <= Fine * (starts[j] + Lasts(p, j))
         /\ j \notin DOMAIN starts => FinishOf(p, starts, j) = 0
<1>1. Takes(p, j) \in Nat /\ Lasts(p, j) \in Nat /\ Takes(p, j) <= Fine * Lasts(p, j) BY TakesIs
<1>2. j \in DOMAIN starts => starts[j] \in Nat BY DEF SomePlaced
<1> QED BY <1>1, <1>2 DEF FinishOf, Fine

LEMMA WaitsWithin ==
  ASSUME NEW p, IsLevelling(p), NEW i \in Features(p)
  PROVE  WaitsFor(p, i) \subseteq Features(p)
BY WaitsAre DEF WaitsFor, IsLevelling

(* A feature may start when what it waits for has ended, and no later than
   everything has. *)
LEMMA EarliestIs ==
  ASSUME NEW p, IsLevelling(p), NEW starts, SomePlaced(p, starts), NEW i \in Features(p)
  PROVE  LET e == EarliestStart(p, starts, i)
         IN  /\ e \in Nat
             /\ \A j \in WaitsFor(p, i) : FinishOf(p, starts, j) <= Fine * e
             /\ \A H \in Nat : (\A j \in DOMAIN starts : starts[j] + Lasts(p, j) <= H) => e <= H
<1> DEFINE f == [j \in WaitsFor(p, i) |-> FinishOf(p, starts, j)]
           T == {f[j] : j \in DOMAIN f}
           U == {0} \cup T
           m == Max(U)
           e == EarliestStart(p, starts, i)
<1>1. WaitsFor(p, i) \subseteq Features(p) BY WaitsWithin
<1>2. IsFiniteSet(DOMAIN f) /\ \A j \in DOMAIN f : f[j] \in Nat
  <2>1. IsFiniteSet(Features(p)) BY AskedIs DEF IsLevelling
  <2>2. IsFiniteSet(WaitsFor(p, i)) BY <1>1, <2>1, FS_Subset
  <2> QED BY <1>1, <2>2, FinishIs
<1>3. T = {FinishOf(p, starts, j) : j \in WaitsFor(p, i)} OBVIOUS
<1>4. e = CeilDiv(m, Fine) BY <1>3 DEF EarliestStart
<1>5. IsFiniteSet(T) /\ T \subseteq Nat /\ \A j \in DOMAIN f : f[j] \in T
  <2> HIDE DEF f
  <2> QED BY <1>2, ImageFinite
<1>6. \A x \in T : \E j \in WaitsFor(p, i) : x = FinishOf(p, starts, j) OBVIOUS
<1>7. \A j \in WaitsFor(p, i) : FinishOf(p, starts, j) \in T OBVIOUS
<1> HIDE DEF T, f, e
<1>8. m \in U /\ \A x \in U : x <= m
  <2>1. IsFiniteSet({0}) BY FS_Singleton
  <2>2. IsFiniteSet(U) BY <1>5, <2>1, FS_Union
  <2>3. U \subseteq Int /\ U # {} BY <1>5
  <2> QED BY <2>2, <2>3, MaxMin
<1> HIDE DEF m
<1>9. \A x \in T : x <= m BY <1>8
<1>10. m = 0 \/ m \in T BY <1>8
<1>11. m \in Nat
  <2>1. \A x \in T : x \in Nat BY <1>5
  <2>2. CASE m = 0 BY <2>2
  <2>3. CASE m \in T BY <2>1, <2>3
  <2> QED BY <1>10, <2>2, <2>3
<1>12. e \in Int /\ m <= Fine * e /\ \A b \in Int : m <= Fine * b => e <= b BY <1>4, <1>11, CeilFine
<1>13. e \in Nat BY <1>11, <1>12 DEF Fine
<1>14. ASSUME NEW j \in WaitsFor(p, i)  PROVE FinishOf(p, starts, j) <= Fine * e
  <2>1. FinishOf(p, starts, j) <= m /\ FinishOf(p, starts, j) \in Nat BY <1>1, <1>7, <1>9, FinishIs
  <2> QED BY <1>11, <1>12, <1>13, <2>1 DEF Fine
<1>15. ASSUME NEW H \in Nat, \A j \in DOMAIN starts : starts[j] + Lasts(p, j) <= H  PROVE e <= H
  <2>1. m <= Fine * H
    <3>1. CASE m = 0 BY <3>1 DEF Fine
    <3>2. CASE m \in T
      <4>1. PICK j \in WaitsFor(p, i) : m = FinishOf(p, starts, j) BY <1>6, <3>2
      <4>2. CASE j \in DOMAIN starts
        <5>1. m <= Fine * (starts[j] + Lasts(p, j)) /\ starts[j] + Lasts(p, j) <= H
          BY <1>1, <1>15, <4>1, <4>2, FinishIs
        <5>2. starts[j] \in Nat /\ Lasts(p, j) \in Nat BY <1>1, <4>1, <4>2, TakesIs DEF SomePlaced
        <5> QED BY <1>11, <5>1, <5>2 DEF Fine
      <4>3. CASE j \notin DOMAIN starts
        <5>1. m = 0 BY <1>1, <4>1, <4>3, FinishIs
        <5> QED BY <5>1 DEF Fine
      <4> QED BY <4>2, <4>3
    <3> QED BY <1>10, <3>1, <3>2
  <2> QED BY <1>12, <2>1
<1> QED BY <1>13, <1>14, <1>15 DEF e

LEMMA GapInt ==
  ASSUME NEW p, IsLevelling(p), NEW starts, SomePlaced(p, starts), NEW i \in Features(p), NEW week \in Nat
  PROVE  GapFill(p, starts, i, week) \in Int
<1> DEFINE D == DOMAIN p.features[i].days \ HoldUp(p, i)
           I == week .. week + Lasts(p, i) - 1
           e(w) == [r \in D |-> UsedBy(p, starts, Features(p), r, w)]
           f == [w \in I |-> SumFunction(e(w))]
<1>1. GapFill(p, starts, i, week) = SumFunction(f) BY DEF GapFill, SumOver
<1>2. IsFiniteSet(D)
  <2>1. DOMAIN p.features[i].days \subseteq Roles(p) /\ IsFiniteSet(Roles(p))
    BY WorkIs, AskedIs DEF IsLevelling
  <2> QED BY <2>1, FS_Subset
<1>3. ASSUME NEW w \in I  PROVE f[w] \in Int
  <2>0. w \in Int BY TakesIs
  <2>1. \A r \in D : UsedBy(p, starts, Features(p), r, w) \in Nat BY <2>0, UsedIs
  <2> HIDE DEF D
  <2>2. Numbers(e(w)) BY <1>2, <2>1 DEF Numbers
  <2> HIDE DEF e
  <2> QED BY <2>2, SumInt
<1>4. IsFiniteSet(I) BY TakesIs, FS_Interval
<1>5. DOMAIN f = I OBVIOUS
<1> HIDE DEF f
<1> QED BY <1>1, <1>3, <1>4, <1>5, SumInt DEF Numbers

LEMMA FullestIs ==
  ASSUME NEW O, IsFiniteSet(O), O # {}, \A x \in O : x.fill \in Int /\ x.week \in Int
  PROVE  Fullest(O) \in O
<1> DEFINE B(x, y) == y.fill < x.fill \/ (y.fill = x.fill /\ x.week <= y.week)
           R == {z \in O \X O : B(z[1], z[2])}
<1>1. \A x, y \in O : B(x, y) \/ B(y, x) OBVIOUS
<1>2. \A x, y, z \in O : B(x, y) /\ B(y, z) => B(x, z) OBVIOUS
<1> HIDE DEF B
<1>3. \A x, y \in O : <<x, y>> \in R <=> B(x, y) OBVIOUS
<1> HIDE DEF R
<1>4. \E x \in O : \A y \in O : <<x, y>> \in R
  <2>1. \A x, y \in O : <<x, y>> \in R \/ <<y, x>> \in R BY <1>1, <1>3
  <2>2. \A x, y, z \in O : <<x, y>> \in R /\ <<y, z>> \in R => <<x, z>> \in R BY <1>2, <1>3
  <2> QED BY <2>1, <2>2, FirstOfAll
<1>5. \E x \in O : \A y \in O : B(x, y) BY <1>3, <1>4
<1>6. Fullest(O) = CHOOSE x \in O : \A y \in O : B(x, y) BY DEF Fullest, B
<1> QED BY <1>5, <1>6

(* Where there is room within reach, a feature is put where there is room,
   and not much later than in the first such week. *)
LEMMA PlacedIs ==
  ASSUME NEW p, IsLevelling(p), NEW starts, SomePlaced(p, starts), NEW i \in Features(p), NEW e \in Nat
  PROVE  LET s == PlacedFrom(p, starts, i, e)
         IN  /\ s \in Nat /\ e <= s
             /\ \A v \in e .. e + Search : HasRoom(p, starts, i, v) => HasRoom(p, starts, i, s) /\ s <= v + Fit
<1> DEFINE s == PlacedFrom(p, starts, i, e)
           W == {w \in e .. e + Search : HasRoom(p, starts, i, w)}
           first == FirstRoom(p, starts, i, e)
<1>1. CASE W = {}
  <2>1. first = None BY <1>1 DEF FirstRoom
  <2>2. s = e BY <2>1 DEF PlacedFrom, PlacedNear
  <2>3. \A v \in e .. e + Search : ~HasRoom(p, starts, i, v) BY <1>1
  <2> QED BY <2>2, <2>3
<1>2. CASE W # {}
  <2>1. PICK x \in W : \A y \in W : x <= y
    <3>1. W \subseteq Nat BY DEF Search
    <3> HIDE DEF W
    <3> QED BY <1>2, <3>1, LeastNumber
  <2> DEFINE First(w) == HasRoom(p, starts, i, w) /\ \A v \in e .. w - 1 : ~HasRoom(p, starts, i, v)
  <2>2. x \in e .. e + Search /\ First(x)
    <3>1. ASSUME NEW v \in e .. x - 1  PROVE ~HasRoom(p, starts, i, v)
      <4>1. v \in e .. e + Search /\ ~ (x <= v) BY <2>1, <3>1 DEF Search
      <4> QED BY <2>1, <4>1
    <3> QED BY <2>1, <3>1
  <2>3. first = CHOOSE w \in e .. e + Search : First(w) BY <2>2 DEF FirstRoom
  <2>4. first \in e .. e + Search /\ First(first)
    <3> HIDE DEF First, first
    <3> QED BY <2>2, <2>3
  <2> HIDE DEF first
  <2>5. first \in W /\ first \in Nat /\ first # None /\ first <= e + Search
    <3>1. None \notin Int BY PlannerAssumption
    <3> QED BY <2>4, <3>1 DEF Search
  <2>6. ASSUME NEW v \in W  PROVE first <= v
    <3>1. v \notin e .. first - 1 BY <2>4
    <3> QED BY <2>5, <3>1 DEF Search
  <2> DEFINE latest == Min({first + Fit, e + Search})
             V == {w \in first .. latest : HasRoom(p, starts, i, w)}
             f == [w \in V |-> [week |-> w, fill |-> GapFill(p, starts, i, w)]]
             O == {f[w] : w \in DOMAIN f}
  <2>7. latest \in Int /\ first <= latest /\ latest <= first + Fit
    <3>1. first + Fit \in Int /\ e + Search \in Int BY <2>5 DEF Fit, Search
    <3>2. latest = IF first + Fit <= e + Search THEN first + Fit ELSE e + Search BY <3>1, TwoOf
    <3> QED BY <2>5, <3>1, <3>2 DEF Fit
  <2>8. s = Fullest(O).week
    <3>1. O = Openings(p, starts, i, first, latest) BY DEF Openings
    <3>2. s = PlacedNear(p, starts, i, e, first) BY DEF PlacedFrom, first
    <3> QED BY <2>5, <3>1, <3>2 DEF PlacedNear
  <2> HIDE DEF latest, s
  <2>9. V \subseteq first .. latest /\ V \subseteq Nat /\ first \in V /\ IsFiniteSet(V)
        /\ \A w \in V : HasRoom(p, starts, i, w)
    <3>1. IsFiniteSet(first .. latest) BY <2>5, <2>7, FS_Interval
    <3>2. IsFiniteSet(V) BY <3>1, FS_Subset
    <3> QED BY <2>4, <2>5, <2>7, <3>2
  <2> HIDE DEF V
  <2>10. \A w \in V : f[w].week = w /\ f[w].fill \in Int /\ w \in Int BY <2>9, GapInt
  <2>11. IsFiniteSet(O) /\ O # {} /\ (\A x1 \in O : x1.fill \in Int /\ x1.week \in Int) /\ \A x1 \in O : x1.week \in V
    <3>1. DOMAIN f = V OBVIOUS
    <3> HIDE DEF f
    <3> QED BY <2>9, <2>10, <3>1, ImageFinite
  <2> HIDE DEF O
  <2>12. s \in V BY <2>8, <2>11, FullestIs
  <2>13. s \in Nat /\ first <= s /\ s <= first + Fit /\ HasRoom(p, starts, i, s)
    BY <2>5, <2>7, <2>9, <2>12 DEF Fit
  <2>14. e <= s BY <2>4, <2>5, <2>13
  <2>15. ASSUME NEW v \in e .. e + Search, HasRoom(p, starts, i, v)  PROVE s <= v + Fit
    <3>1. first <= v BY <2>6, <2>15
    <3> QED BY <2>5, <2>13, <3>1 DEF Fit
  <2> QED BY <2>13, <2>14, <2>15 DEF s
<1> QED BY <1>1, <1>2

----
(* The epic leveller: the queue. *)

QueueStep(p, g, n) ==
  IF n = 0 THEN <<>>
  ELSE IF n <= Len(p.features) THEN NextInOrder(p, g[n - 1]) ELSE LeftOver(g[n - 1], n - Len(p.features))

IsQueue(p, g) == g = [n \in 0 .. 2 * Len(p.features) |-> QueueStep(p, g, n)]

LEMMA QueueExists ==
  ASSUME NEW p, Len(p.features) \in Nat
  PROVE  \E g : IsQueue(p, g)
<1> DEFINE N == 2 * Len(p.features)
           UpTo(g, n) == /\ g = [k \in 0 .. N |-> g[k]]
                         /\ \A k \in 0 .. N : k <= n => g[k] = QueueStep(p, g, k)
           F == {n \in Nat : ~ \E g : UpTo(g, n)}
<1>1. N \in Nat OBVIOUS
<1> HIDE DEF N
<1>2. F = {}
  <2> SUFFICES ASSUME F # {}  PROVE FALSE OBVIOUS
  <2>1. PICK n \in F : n \in Nat /\ (n = 0 \/ (n - 1 \in Nat /\ n - 1 \notin F)) BY LeastFault
  <2>2. n # 0
    <3> DEFINE g == [k \in 0 .. N |-> <<>>]
    <3>1. UpTo(g, 0)
      <4>1. \A k \in 0 .. N : k <= 0 => k = 0 BY <1>1
      <4> QED BY <4>1 DEF QueueStep
    <3> QED BY <3>1
  <2>3. n \in Nat /\ n - 1 \in Nat /\ n - 1 \notin F BY <2>1, <2>2
  <2>4. PICK g : UpTo(g, n - 1) BY <2>3
  <2> DEFINE h == [k \in 0 .. N |-> QueueStep(p, g, k)]
  <2>5. ASSUME NEW k \in 0 .. N, k <= n  PROVE h[k] = QueueStep(p, h, k)
    <3>1. CASE k = 0 BY <3>1 DEF QueueStep
    <3>2. CASE k # 0
      <4>1. k - 1 \in 0 .. N /\ k - 1 <= n - 1 BY <1>1, <2>3, <2>5, <3>2
      <4>2. g[k - 1] = QueueStep(p, g, k - 1) BY <2>4, <4>1
      <4>3. h[k - 1] = g[k - 1] BY <4>1, <4>2
      <4>4. h[k] = QueueStep(p, g, k) OBVIOUS
      <4> HIDE DEF h
      <4> QED BY <4>3, <4>4 DEF QueueStep
    <3> QED BY <3>1, <3>2
  <2>6. h = [k \in 0 .. N |-> h[k]] OBVIOUS
  <2> HIDE DEF h
  <2>7. UpTo(h, n) BY <2>5, <2>6
  <2> QED BY <2>1, <2>7
<1>3. PICK g : UpTo(g, N) BY <1>1, <1>2
<1>4. \A k \in 0 .. N : g[k] = QueueStep(p, g, k) BY <1>1, <1>3
<1>5. g = [k \in 0 .. N |-> QueueStep(p, g, k)] BY <1>3, <1>4
<1> QED BY <1>5 DEF IsQueue, N

(* A queue of features, each once; and none is before what it waits for. *)
InLine(p, q) == q \in Seq(Features(p)) /\ \A k, m \in DOMAIN q : q[k] = q[m] => k = m
Behind(p, q) == \A k \in DOMAIN q : \A j \in WaitsFor(p, q[k]) : \E m \in 1 .. k - 1 : q[m] = j

LEMMA OneMore ==
  ASSUME NEW p, NEW q, InLine(p, q), NEW i \in Features(p), i \notin Range(q)
  PROVE  /\ InLine(p, Append(q, i)) /\ Range(Append(q, i)) = Range(q) \cup {i}
         /\ Behind(p, q) /\ WaitsFor(p, i) \subseteq Range(q) => Behind(p, Append(q, i))
<1> DEFINE t == Append(q, i)
           N == Len(q)
<1>1. q \in Seq(Features(p)) /\ N \in Nat /\ DOMAIN q = 1 .. N /\ \A k, m \in 1 .. N : q[k] = q[m] => k = m
  BY LenProperties DEF InLine
<1>2. t \in Seq(Features(p)) /\ DOMAIN t = 1 .. N + 1 /\ t[N + 1] = i /\ \A k \in 1 .. N : t[k] = q[k]
  BY <1>1, AppendProperties, LenProperties
<1>3. Range(q) = {q[k] : k \in 1 .. N} BY <1>1 DEF Range
<1>4. Range(t) = {t[k] : k \in 1 .. N + 1} BY <1>2 DEF Range
<1> HIDE DEF t, N
<1>5. \A k \in 1 .. N + 1 : k \in 1 .. N \/ k = N + 1 BY <1>1
<1>6. N + 1 \in 1 .. N + 1 /\ N + 1 \notin 1 .. N /\ \A k \in 1 .. N : k \in 1 .. N + 1 BY <1>1
<1>7. Range(t) = Range(q) \cup {i} BY <1>2, <1>3, <1>4, <1>5, <1>6
<1>8. \A k \in 1 .. N : q[k] # i BY <1>3
<1>9. \A k, m \in 1 .. N + 1 : t[k] = t[m] => k = m BY <1>1, <1>2, <1>5, <1>8
<1>10. InLine(p, t) BY <1>2, <1>9 DEF InLine
<1>11. ASSUME Behind(p, q), WaitsFor(p, i) \subseteq Range(q)  PROVE Behind(p, t)
  <2> SUFFICES ASSUME NEW k \in 1 .. N + 1, NEW j \in WaitsFor(p, t[k])
               PROVE  \E m \in 1 .. k - 1 : t[m] = j
    BY <1>2 DEF Behind
  <2>1. CASE k \in 1 .. N
    <3>1. PICK m \in 1 .. k - 1 : q[m] = j BY <1>1, <1>2, <1>11, <2>1 DEF Behind
    <3>2. m \in 1 .. N BY <1>1, <2>1
    <3> QED BY <1>2, <3>1, <3>2
  <2>2. CASE k = N + 1
    <3>1. PICK m \in 1 .. N : q[m] = j BY <1>2, <1>3, <1>11, <2>2
    <3>2. m \in 1 .. k - 1 BY <1>1, <2>2
    <3> QED BY <1>2, <3>1, <3>2
  <2> QED BY <1>5, <2>1, <2>2
<1> QED BY <1>7, <1>10, <1>11 DEF t

LEMMA KeyNat ==
  ASSUME NEW p, IsLevelling(p), NEW i \in Features(p)
  PROVE  Key(p, i) \in Nat
<1>1. p.features[i].epic \in Nat
  <2>1. p.features[i].epic \in DOMAIN p.epics /\ InSeq(p.epics)
    BY AskedIs DEF IsLevelling, IsStaffing, IsWork
  <2> QED BY <2>1, SeqIs
<1>2. Cardinality(Earlier(p, i)) \in Nat
  <2>1. i \in Int BY AskedIs DEF IsLevelling
  <2>2. IsFiniteSet(1 .. i - 1) /\ Earlier(p, i) \subseteq 1 .. i - 1
    BY <2>1, FS_Interval DEF Earlier
  <2> QED BY <2>2, CountIs
<1> QED BY <1>1, <1>2 DEF Key

(* So far each feature came after what it waits for; or nothing more may. *)
ReleasedInv(p, q, n) ==
  /\ InLine(p, q) /\ Behind(p, q)
  /\ Cardinality(Range(q)) = n \/ Released(p, q) = {}

LeftInv(p, q, n) ==
  /\ InLine(p, q) /\ 1 .. n \subseteq Range(q)
  /\ ~Circles(p) => Behind(p, q) /\ Range(q) = Features(p)

LEMMA RangeIs ==
  ASSUME NEW p, NEW q, InLine(p, q)
  PROVE  Range(q) \subseteq Features(p) /\ \A i \in Range(q) : \E k \in DOMAIN q : q[k] = i
BY DEF InLine, Range

LEMMA ReleasedNext ==
  ASSUME NEW p, IsLevelling(p), NEW n \in Nat, NEW q, ReleasedInv(p, q, n)
  PROVE  ReleasedInv(p, NextInOrder(p, q), n + 1)
<1> DEFINE R == Released(p, q)
           B(i, j) == Key(p, i) <= Key(p, j)
           i == CHOOSE i \in R : \A j \in R : B(i, j)
<1>1. InLine(p, q) /\ Behind(p, q) /\ (Cardinality(Range(q)) = n \/ R = {}) BY DEF ReleasedInv
<1>2. CASE R = {} BY <1>1, <1>2 DEF NextInOrder, ReleasedInv
<1>3. CASE R # {}
  <2>1. R \subseteq Features(p) \ Range(q) /\ \A j \in R : WaitsFor(p, j) \subseteq Range(q)
    BY DEF Released
  <2>2. \E x \in R : \A j \in R : B(x, j)
    <3> DEFINE T == {Key(p, j) : j \in R}
    <3>1. T \subseteq Nat /\ T # {} BY <1>3, <2>1, KeyNat
    <3> HIDE DEF T
    <3>2. PICK k \in T : \A m \in T : k <= m BY <3>1, LeastNumber
    <3> QED BY <3>2 DEF T
  <2>4. i \in R
    <3> HIDE DEF R, B
    <3> QED BY <2>2
  <2>5. NextInOrder(p, q) = Append(q, i) BY <1>3 DEF NextInOrder
  <2> HIDE DEF i, R
  <2>6. i \in Features(p) /\ i \notin Range(q) /\ WaitsFor(p, i) \subseteq Range(q) BY <2>1, <2>4
  <2>7. InLine(p, Append(q, i)) /\ Behind(p, Append(q, i)) /\ Range(Append(q, i)) = Range(q) \cup {i}
    BY <1>1, <2>6, OneMore
  <2>8. Cardinality(Range(q) \cup {i}) = n + 1
    <3>1. IsFiniteSet(Range(q))
      <4>1. IsFiniteSet(Features(p)) BY AskedIs DEF IsLevelling
      <4>2. Range(q) \subseteq Features(p) BY <1>1, RangeIs
      <4> QED BY ONLY <4>1, <4>2, FS_Subset
    <3>2. Cardinality(Range(q)) = n BY <1>1, <1>3
    <3> QED BY <2>6, <3>1, <3>2, FS_AddElement
  <2> QED BY <2>5, <2>7, <2>8 DEF ReleasedInv
<1> QED BY <1>2, <1>3

LEMMA AllReleased ==
  ASSUME NEW p, IsLevelling(p), NEW q, ReleasedInv(p, q, Len(p.features)), ~Circles(p)
  PROVE  Range(q) = Features(p)
<1> DEFINE S == Features(p) \ Range(q)
<1>1. IsFiniteSet(Features(p)) /\ Len(p.features) \in Nat /\ Features(p) = 1 .. Len(p.features)
  BY AskedIs DEF IsLevelling
<1>2. Range(q) \subseteq Features(p) BY RangeIs DEF ReleasedInv
<1>3. CASE Cardinality(Range(q)) = Len(p.features)
  <2>1. Cardinality(Features(p)) = Len(p.features) BY <1>1, FS_Interval
  <2> QED BY <1>1, <1>2, <1>3, <2>1, FS_Subset
<1>4. CASE Released(p, q) = {}
  <2>1. ASSUME NEW i \in S  PROVE WaitsFor(p, i) \cap S # {}
    <3>1. ~ (WaitsFor(p, i) \subseteq Range(q)) /\ WaitsFor(p, i) \subseteq Features(p)
      BY <1>4, WaitsWithin DEF Released
    <3> QED BY <3>1
  <2>2. S = {} BY <2>1 DEF Circles
  <2> QED BY <1>2, <2>2
<1> QED BY <1>3, <1>4 DEF ReleasedInv

LEMMA LeftNext ==
  ASSUME NEW p, IsLevelling(p), NEW n \in Nat, NEW q, LeftInv(p, q, n), n + 1 \in Features(p)
  PROVE  LeftInv(p, LeftOver(q, n + 1), n + 1)
<1> DEFINE i == n + 1
<1>1. InLine(p, q) /\ 1 .. n \subseteq Range(q) /\ (~Circles(p) => Behind(p, q) /\ Range(q) = Features(p))
  BY DEF LeftInv
<1>2. i \in Features(p) /\ 1 .. i = (1 .. n) \cup {i} OBVIOUS
<1> HIDE DEF i
<1>3. CASE i \in Range(q) BY <1>1, <1>2, <1>3 DEF LeftInv, LeftOver, i
<1>4. CASE i \notin Range(q)
  <2>1. LeftOver(q, i) = Append(q, i) BY <1>4 DEF LeftOver
  <2>2. InLine(p, Append(q, i)) /\ Range(Append(q, i)) = Range(q) \cup {i}
    BY <1>1, <1>2, <1>4, OneMore
  <2>3. Circles(p) BY <1>1, <1>2, <1>4
  <2>4. LeftInv(p, Append(q, i), i) BY <1>1, <1>2, <2>2, <2>3 DEF LeftInv
  <2> QED BY <2>1, <2>4 DEF i
<1> QED BY <1>3, <1>4

(* All features are in the queue, each once; and where nothing waits for
   itself, none is before what it waits for. *)
LEMMA QueuedIs ==
  ASSUME NEW p, IsLevelling(p)
  PROVE  /\ InLine(p, Queued(p)) /\ Range(Queued(p)) = Features(p)
         /\ ~Circles(p) => Behind(p, Queued(p))
<1> DEFINE N == Len(p.features)
           g == CHOOSE g : IsQueue(p, g)
           F == {n \in 0 .. N : ~ ReleasedInv(p, g[n], n)}
           E == {n \in 0 .. N : ~ LeftInv(p, g[N + n], n)}
<1>1. N \in Nat /\ Features(p) = 1 .. N BY AskedIs DEF IsLevelling
<1>2. IsQueue(p, g) BY <1>1, QueueExists
<1>3. Queued(p) = g[2 * N] BY DEF Queued, IsQueue, QueueStep
<1> HIDE DEF g
<1>4. \A n \in 0 .. 2 * N : g[n] = QueueStep(p, g, n) BY <1>2 DEF IsQueue
<1>5. g[0] = <<>> BY <1>1, <1>4 DEF QueueStep
<1>6. ASSUME NEW n \in 1 .. N  PROVE g[n] = NextInOrder(p, g[n - 1])
  <2>1. n \in 0 .. 2 * N /\ n # 0 /\ n <= N BY <1>1
  <2> QED BY <1>4, <2>1 DEF QueueStep
<1>7. ASSUME NEW n \in 1 .. N  PROVE g[N + n] = LeftOver(g[N + (n - 1)], n)
  <2>1. /\ N + n \in 0 .. 2 * N /\ N + n # 0 /\ ~ (N + n <= N)
        /\ (N + n) - 1 = N + (n - 1) /\ (N + n) - N = n
    BY <1>1
  <2> QED BY <1>4, <2>1 DEF QueueStep
<1> HIDE DEF N
<1>8. F = {}
  <2> SUFFICES ASSUME F # {}  PROVE FALSE OBVIOUS
  <2>0. F \subseteq Nat BY <1>1
  <2>1. PICK n \in F : \A m \in F : n <= m
    <3> HIDE DEF F
    <3> QED BY <2>0, LeastNumber
  <2>2. n \in 0 .. N /\ n \in Nat /\ ~ ReleasedInv(p, g[n], n) BY <1>1, <2>1
  <2>3. n # 0
    <3>1. ReleasedInv(p, <<>>, 0)
      <4>1. Range(<<>>) = {} /\ DOMAIN <<>> = {} /\ <<>> \in Seq(Features(p)) BY DEF Range
      <4> QED BY <4>1, FS_EmptySet DEF ReleasedInv, InLine, Behind
    <3> QED BY <1>5, <2>2, <3>1
  <2> DEFINE m == n - 1
  <2>4. m \in 0 .. N /\ m \in Nat /\ ~ (n <= m) /\ m + 1 = n /\ n \in 1 .. N BY <1>1, <2>2, <2>3
  <2>5. ReleasedInv(p, g[m], m) BY <2>1, <2>4
  <2>6. g[n] = NextInOrder(p, g[m]) BY <1>6, <2>4
  <2> HIDE DEF m
  <2>7. ReleasedInv(p, NextInOrder(p, g[m]), m + 1) BY <2>4, <2>5, ReleasedNext
  <2> QED BY <2>2, <2>4, <2>6, <2>7
<1>9. ReleasedInv(p, g[N], N) BY <1>1, <1>8
<1>10. E = {}
  <2> SUFFICES ASSUME E # {}  PROVE FALSE OBVIOUS
  <2>0. E \subseteq Nat BY <1>1
  <2>1. PICK n \in E : \A m \in E : n <= m
    <3> HIDE DEF E
    <3> QED BY <2>0, LeastNumber
  <2>2. n \in 0 .. N /\ n \in Nat /\ ~ LeftInv(p, g[N + n], n) BY <1>1, <2>1
  <2>3. n # 0
    <3>1. LeftInv(p, g[N], 0)
      <4>1. ~Circles(p) => Range(g[N]) = Features(p) BY <1>9, AllReleased DEF N
      <4> QED BY <1>9, <4>1 DEF LeftInv, ReleasedInv
    <3>2. N + 0 = N BY <1>1
    <3> QED BY <2>2, <3>1, <3>2
  <2> DEFINE m == n - 1
  <2>4. m \in 0 .. N /\ m \in Nat /\ ~ (n <= m) /\ m + 1 = n /\ n \in 1 .. N BY <1>1, <2>2, <2>3
  <2>5. LeftInv(p, g[N + m], m) BY <2>1, <2>4
  <2>6. g[N + n] = LeftOver(g[N + m], n) BY <1>7, <2>4
  <2> HIDE DEF m
  <2>7. LeftInv(p, LeftOver(g[N + m], m + 1), m + 1) BY <1>1, <2>4, <2>5, LeftNext
  <2> QED BY <2>2, <2>4, <2>6, <2>7
<1>11. LeftInv(p, g[2 * N], N)
  <2>1. N \in 0 .. N /\ N + N = 2 * N BY <1>1
  <2> QED BY <1>10, <2>1
<1>12. Features(p) \subseteq Range(g[2 * N]) BY <1>1, <1>11 DEF LeftInv
<1>13. Range(g[2 * N]) \subseteq Features(p) BY <1>11, RangeIs DEF LeftInv
<1> QED BY <1>3, <1>11, <1>12, <1>13 DEF LeftInv, N

----
(* The epic leveller: all features are placed. *)

(* When all of some features are done at the latest, one after the other. *)
Reach(p, S) == SumFunction([i \in S |-> Fit + Lasts(p, i)])

LEMMA ReachIs ==
  ASSUME NEW p, IsLevelling(p), NEW S, S \subseteq Features(p)
  PROVE  /\ Reach(p, S) \in Nat
         /\ \A T : T \subseteq S => Reach(p, T) <= Reach(p, S)
         /\ \A i \in Features(p) : i \notin S => Reach(p, S \cup {i}) = Reach(p, S) + (Fit + Lasts(p, i))
<1> DEFINE f(T) == [i \in T |-> Fit + Lasts(p, i)]
<1>1. ASSUME NEW T, T \subseteq Features(p)  PROVE Numbers(f(T)) /\ \A x \in DOMAIN f(T) : f(T)[x] >= 0
  <2>1. IsFiniteSet(Features(p)) BY AskedIs DEF IsLevelling
  <2>2. IsFiniteSet(T) BY <1>1, <2>1, FS_Subset
  <2>3. \A i \in T : Fit + Lasts(p, i) \in Nat BY <1>1, TakesIs DEF Fit
  <2> QED BY <2>2, <2>3 DEF Numbers
<1>2. \A T : Reach(p, T) = SumFunction(f(T)) BY DEF Reach
<1>3. \A T : DOMAIN f(T) = T /\ \A x \in T : f(T)[x] = Fit + Lasts(p, x) OBVIOUS
<1> HIDE DEF f
<1>4. Reach(p, S) \in Nat BY <1>1, <1>2, SumNat
<1>5. ASSUME NEW T, T \subseteq S  PROVE Reach(p, T) <= Reach(p, S)
  <2>1. DOMAIN f(T) \subseteq DOMAIN f(S) /\ \A x \in DOMAIN f(T) : f(T)[x] = f(S)[x] BY <1>3, <1>5
  <2>2. Numbers(f(S)) /\ \A x \in DOMAIN f(S) : f(S)[x] >= 0 BY <1>1
  <2>3. SumFunction(f(T)) <= SumFunction(f(S)) BY <2>1, <2>2, SumNoMore
  <2> QED BY <1>2, <2>3
<1>6. ASSUME NEW i \in Features(p), i \notin S
      PROVE  Reach(p, S \cup {i}) = Reach(p, S) + (Fit + Lasts(p, i))
  <2> DEFINE U == S \cup {i}
  <2>1. i \in U /\ U \ {i} = S /\ S \subseteq U /\ U \subseteq Features(p) BY <1>6
  <2> HIDE DEF U
  <2>2. /\ Numbers(f(U)) /\ i \in DOMAIN f(U) /\ DOMAIN f(S) = DOMAIN f(U) \ {i}
        /\ \A y \in DOMAIN f(S) : f(S)[y] = f(U)[y]
    <3>1. Numbers(f(U)) BY <1>1, <2>1
    <3> QED BY <1>3, <2>1, <3>1
  <2>3. SumFunction(f(U)) = SumFunction(f(S)) + f(U)[i] BY <2>2, SumAdded
  <2>4. f(U)[i] = Fit + Lasts(p, i) BY <1>3, <2>1
  <2> QED BY <1>2, <2>3, <2>4 DEF U
<1> QED BY <1>4, <1>5, <1>6

(* No feature that is placed starts before what it waits for has ended. *)
KeptOrder(p, starts) ==
  \A i \in DOMAIN starts : \A j \in WaitsFor(p, i) :
    j \in DOMAIN starts /\ FinishOf(p, starts, j) <= Fine * starts[i]

Held(p, r) == {i \in Features(p) : r \in HoldUp(p, i)}

(* Nobody has too much to do, as far as features are held up, and all that
   is placed has ended in time. *)
KeptLevel(p, starts) ==
  /\ \A j \in DOMAIN starts : starts[j] + Lasts(p, j) <= Reach(p, DOMAIN starts)
  /\ \A r \in Roles(p), w \in Int : UsedBy(p, starts, Held(p, r), r, w) <= WeekZero(p, r)

LEMMA HoldsUp ==
  ASSUME NEW p, IsLevelling(p), NEW i \in Features(p)
  PROVE  HoldUp(p, i) \subseteq DOMAIN p.features[i].days /\ HoldUp(p, i) \subseteq Roles(p)
<1>1. HoldUp(p, i) \subseteq DOMAIN p.features[i].days BY DEF HoldUp
<1> QED BY <1>1, WorkIs DEF IsLevelling

(* When everything has ended there is room for a feature that fits alone. *)
LEMMA RoomAtLast ==
  ASSUME NEW p, IsLevelling(p), FitAlone(p), NEW starts, SomePlaced(p, starts), NEW i \in Features(p),
         NEW H \in Nat, \A j \in DOMAIN starts : starts[j] + Lasts(p, j) <= H
  PROVE  HasRoom(p, starts, i, H)
<1> SUFFICES ASSUME NEW r \in HoldUp(p, i), NEW w \in H .. H + Lasts(p, i) - 1
             PROVE  UsedBy(p, starts, Features(p), r, w) + Rate(p, i, r) <= WeekZero(p, r)
  BY DEF HasRoom
<1>0. Lasts(p, i) \in Nat /\ w \in Int /\ Lasts(p, i) > 0
  <2>1. Lasts(p, i) \in Nat BY TakesIs
  <2> QED BY <2>1
<1>1. Lasts(p, i) \in Nat /\ Takes(p, i) > 0 /\ Rate(p, i, r) \in Nat BY <1>0, HoldsUp, TakesIs
<1>2. Users(p, starts, Features(p), r, w) = {}
  <2> SUFFICES ASSUME NEW j \in Users(p, starts, Features(p), r, w)  PROVE FALSE OBVIOUS
  <2>1. j \in Features(p) /\ j \in DOMAIN starts /\ w < starts[j] + Lasts(p, j)
    BY DEF Users, Occupies
  <2>2. starts[j] \in Nat /\ Lasts(p, j) \in Nat /\ starts[j] + Lasts(p, j) <= H /\ H <= w /\ w \in Int
    BY <1>1, <2>1, TakesIs DEF SomePlaced
  <2> QED BY <2>1, <2>2
<1>3. UsedBy(p, starts, Features(p), r, w) = 0
  <2> DEFINE f == [j \in Users(p, starts, Features(p), r, w) |-> Rate(p, j, r)]
  <2>1. UsedBy(p, starts, Features(p), r, w) = SumFunction(f) BY <1>0, UsedIs
  <2>2. DOMAIN f = {} BY <1>2
  <2> HIDE DEF f
  <2> QED BY <2>1, <2>2, SumNone
<1>4. Rate(p, i, r) <= WeekZero(p, r) BY <1>1 DEF FitAlone
<1> QED BY <1>1, <1>3, <1>4

LEMMA WithStartIs ==
  ASSUME NEW p, NEW starts, NEW i
  PROVE  WithStart(p, starts, i) = Plus(starts, i, PlacedFrom(p, starts, i, EarliestStart(p, starts, i)))
BY DEF WithStart, Plus

(* One feature after the other. *)
LEMMA StartPlaced ==
  ASSUME NEW p, IsLevelling(p), NEW starts, SomePlaced(p, starts),
         NEW i \in Features(p), i \notin DOMAIN starts
  PROVE  LET more == WithStart(p, starts, i)
         IN  /\ SomePlaced(p, more) /\ DOMAIN more = DOMAIN starts \cup {i}
             /\ KeptOrder(p, starts) /\ WaitsFor(p, i) \subseteq DOMAIN starts => KeptOrder(p, more)
             /\ FitAlone(p) /\ Searchable(p) /\ KeptLevel(p, starts) => KeptLevel(p, more)
<1> DEFINE e == EarliestStart(p, starts, i)
           s == PlacedFrom(p, starts, i, e)
           more == WithStart(p, starts, i)
<1>1. /\ e \in Nat
      /\ \A j \in WaitsFor(p, i) : FinishOf(p, starts, j) <= Fine * e
      /\ \A H \in Nat : (\A j \in DOMAIN starts : starts[j] + Lasts(p, j) <= H) => e <= H
  BY EarliestIs
<1>2. more = Plus(starts, i, s) BY WithStartIs
<1> HIDE DEF e
<1>3. s \in Nat /\ e <= s
      /\ \A v \in e .. e + Search : HasRoom(p, starts, i, v) => HasRoom(p, starts, i, s) /\ s <= v + Fit
  BY <1>1, PlacedIs
<1> HIDE DEF s, more
<1>4. DOMAIN more = DOMAIN starts \cup {i} /\ more[i] = s /\ \A j \in DOMAIN starts : more[j] = starts[j]
  BY <1>2 DEF Plus
<1>5. SomePlaced(p, more) BY <1>3, <1>4 DEF SomePlaced
<1>6. DOMAIN starts \subseteq Features(p) /\ \A j \in DOMAIN starts : starts[j] \in Nat
  BY DEF SomePlaced
<1>7. ASSUME KeptOrder(p, starts), WaitsFor(p, i) \subseteq DOMAIN starts  PROVE KeptOrder(p, more)
  <2> SUFFICES ASSUME NEW k \in DOMAIN more, NEW j \in WaitsFor(p, k)
               PROVE  j \in DOMAIN more /\ FinishOf(p, more, j) <= Fine * more[k]
    BY DEF KeptOrder
  <2>1. j \in DOMAIN starts => FinishOf(p, more, j) = FinishOf(p, starts, j) BY <1>4 DEF FinishOf
  <2>2. CASE k \in DOMAIN starts
    <3>1. j \in DOMAIN starts /\ FinishOf(p, starts, j) <= Fine * starts[k]
      BY <1>7, <2>2 DEF KeptOrder
    <3> QED BY <1>4, <2>1, <2>2, <3>1
  <2>3. CASE k = i
    <3>1. j \in DOMAIN starts /\ FinishOf(p, starts, j) <= Fine * e /\ j \in Features(p)
      BY <1>1, <1>6, <1>7, <2>3
    <3>2. FinishOf(p, starts, j) \in Nat BY <3>1, FinishIs
    <3>3. FinishOf(p, starts, j) <= Fine * s BY <1>1, <1>3, <3>1, <3>2 DEF Fine
    <3> QED BY <1>4, <2>1, <2>3, <3>1, <3>3
  <2> QED BY <1>4, <2>2, <2>3
<1>8. ASSUME FitAlone(p), Searchable(p), KeptLevel(p, starts)  PROVE KeptLevel(p, more)
  <2> DEFINE H == Reach(p, DOMAIN starts)
             L == Lasts(p, i)
  <2>1. L \in Nat BY TakesIs
  <2>2. H \in Nat /\ Reach(p, DOMAIN more) = H + (Fit + L) /\ Reach(p, DOMAIN more) <= Search
    <3>1. Reach(p, Features(p)) <= Search BY <1>8 DEF Searchable, SumOver, Reach
    <3>2. H \in Nat /\ Reach(p, DOMAIN starts \cup {i}) = H + (Fit + L) BY <1>6, ReachIs
    <3>3. DOMAIN more \subseteq Features(p) BY <1>5 DEF SomePlaced
    <3>4. Reach(p, DOMAIN more) <= Reach(p, Features(p)) /\ Reach(p, Features(p)) \in Nat
      BY <3>3, ReachIs
    <3> QED BY <1>4, <2>1, <3>1, <3>2, <3>4 DEF Search, Fit
  <2>3. \A j \in DOMAIN starts : starts[j] + Lasts(p, j) <= H BY <1>8 DEF KeptLevel
  <2> HIDE DEF H, L
  <2>4. e <= H BY <1>1, <2>2, <2>3
  <2>5. H \in e .. e + Search BY <1>1, <2>1, <2>2, <2>4 DEF Search, Fit
  <2>6. HasRoom(p, starts, i, H) BY <1>8, <2>2, <2>3, RoomAtLast
  <2>7. HasRoom(p, starts, i, s) /\ s <= H + Fit BY <1>3, <2>5, <2>6
  <2>8. ASSUME NEW j \in DOMAIN more  PROVE more[j] + Lasts(p, j) <= Reach(p, DOMAIN more)
    <3>1. CASE j = i
      <4>1. more[j] + L <= H + (Fit + L) BY <1>3, <1>4, <2>1, <2>2, <2>7, <3>1 DEF Fit
      <4> QED BY <2>2, <3>1, <4>1 DEF L
    <3>2. CASE j \in DOMAIN starts
      <4>1. more[j] + Lasts(p, j) <= H /\ more[j] \in Nat /\ Lasts(p, j) \in Nat
        BY <1>4, <1>6, <2>3, <3>2, TakesIs
      <4> QED BY <2>1, <2>2, <4>1 DEF Fit
    <3> QED BY <1>4, <3>1, <3>2
  <2>9. ASSUME NEW r \in Roles(p), NEW w \in Int
        PROVE  UsedBy(p, more, Held(p, r), r, w) <= WeekZero(p, r)
    <3> DEFINE old == UsedBy(p, starts, Held(p, r), r, w)
               new == UsedBy(p, more, Held(p, r), r, w)
               any == UsedBy(p, starts, Features(p), r, w)
    <3>1. old <= WeekZero(p, r) BY <1>8 DEF KeptLevel
    <3>2. \/ new = old
          \/ /\ i \in Held(p, r) /\ r \in DOMAIN p.features[i].days
             /\ s <= w /\ w < s + L /\ new = old + Rate(p, i, r)
      <4>1. LET m == Plus(starts, i, s)
            IN  \/ UsedBy(p, m, Held(p, r), r, w) = old
                \/ /\ i \in Held(p, r) /\ r \in DOMAIN p.features[i].days
                   /\ s <= w /\ w < s + L
                   /\ UsedBy(p, m, Held(p, r), r, w) = old + Rate(p, i, r)
        BY <1>3, UsedWith DEF L
      <4> QED BY <1>2, <4>1
    <3>3. old <= any /\ old \in Nat /\ any \in Nat
      <4>1. Held(p, r) \subseteq Features(p) BY DEF Held
      <4>2. old <= any BY <4>1, UsedLess
      <4> QED BY <4>2, UsedIs
    <3>4. CASE /\ i \in Held(p, r) /\ r \in DOMAIN p.features[i].days
               /\ s <= w /\ w < s + L /\ new = old + Rate(p, i, r)
      <4>1. r \in HoldUp(p, i) /\ w \in s .. s + Lasts(p, i) - 1 BY <1>3, <2>1, <3>4 DEF Held, L
      <4>2. any + Rate(p, i, r) <= WeekZero(p, r) BY <2>7, <4>1 DEF HasRoom
      <4>3. Rate(p, i, r) \in Nat /\ WeekZero(p, r) \in Nat
        <5>1. L > 0 BY <1>3, <2>1, <3>4
        <5> QED BY <3>4, <5>1, TakesIs, WeekZeroNat DEF IsLevelling, L
      <4> HIDE DEF old, new, any
      <4>4. new <= WeekZero(p, r) BY <3>3, <3>4, <4>2, <4>3
      <4> QED BY <4>4 DEF new
    <3> QED BY <3>1, <3>2, <3>4
  <2> QED BY <2>8, <2>9 DEF KeptLevel
<1> QED BY <1>4, <1>5, <1>7, <1>8 DEF more

PlaceStep(p, q, g, n) == IF n = 0 THEN <<>> ELSE WithStart(p, g[n - 1], q[n])

IsPlaced(p, q, g) == g = [n \in 0 .. Len(q) |-> PlaceStep(p, q, g, n)]

LEMMA PlacingExists ==
  ASSUME NEW p, NEW q, Len(q) \in Nat
  PROVE  \E g : IsPlaced(p, q, g)
<1> DEFINE N == Len(q)
           UpTo(g, n) == /\ g = [k \in 0 .. N |-> g[k]]
                         /\ \A k \in 0 .. N : k <= n => g[k] = PlaceStep(p, q, g, k)
           F == {n \in Nat : ~ \E g : UpTo(g, n)}
<1>1. N \in Nat OBVIOUS
<1> HIDE DEF N
<1>2. F = {}
  <2> SUFFICES ASSUME F # {}  PROVE FALSE OBVIOUS
  <2>1. PICK n \in F : n \in Nat /\ (n = 0 \/ (n - 1 \in Nat /\ n - 1 \notin F)) BY LeastFault
  <2>2. n # 0
    <3> DEFINE g == [k \in 0 .. N |-> <<>>]
    <3>1. UpTo(g, 0)
      <4>1. \A k \in 0 .. N : k <= 0 => k = 0 BY <1>1
      <4> QED BY <4>1 DEF PlaceStep
    <3> QED BY <3>1
  <2>3. n \in Nat /\ n - 1 \in Nat /\ n - 1 \notin F BY <2>1, <2>2
  <2>4. PICK g : UpTo(g, n - 1) BY <2>3
  <2> DEFINE h == [k \in 0 .. N |-> PlaceStep(p, q, g, k)]
  <2>5. ASSUME NEW k \in 0 .. N, k <= n  PROVE h[k] = PlaceStep(p, q, h, k)
    <3>1. CASE k = 0 BY <3>1 DEF PlaceStep
    <3>2. CASE k # 0
      <4>1. k - 1 \in 0 .. N /\ k - 1 <= n - 1 BY <1>1, <2>3, <2>5, <3>2
      <4>2. g[k - 1] = PlaceStep(p, q, g, k - 1) BY <2>4, <4>1
      <4>3. h[k - 1] = g[k - 1] BY <4>1, <4>2
      <4>4. h[k] = PlaceStep(p, q, g, k) OBVIOUS
      <4> HIDE DEF h
      <4> QED BY <4>3, <4>4 DEF PlaceStep
    <3> QED BY <3>1, <3>2
  <2>6. h = [k \in 0 .. N |-> h[k]] OBVIOUS
  <2> HIDE DEF h
  <2>7. UpTo(h, n) BY <2>5, <2>6
  <2> QED BY <2>1, <2>7
<1>3. PICK g : UpTo(g, N) BY <1>1, <1>2
<1>4. \A k \in 0 .. N : g[k] = PlaceStep(p, q, g, k) BY <1>1, <1>3
<1>5. g = [k \in 0 .. N |-> PlaceStep(p, q, g, k)] BY <1>3, <1>4
<1> QED BY <1>5 DEF IsPlaced, N

(* The first n of the queue are placed. *)
PlacedInv(p, q, starts, n) ==
  /\ SomePlaced(p, starts) /\ DOMAIN starts = {q[k] : k \in 1 .. n}
  /\ ~Circles(p) => KeptOrder(p, starts)
  /\ FitAlone(p) /\ Searchable(p) => KeptLevel(p, starts)

LEMMA NothingPlaced ==
  ASSUME NEW p, IsLevelling(p), NEW q
  PROVE  PlacedInv(p, q, <<>>, 0)
<1>1. DOMAIN <<>> = {} /\ {q[k] : k \in 1 .. 0} = {} OBVIOUS
<1>2. SomePlaced(p, <<>>) BY <1>1 DEF SomePlaced
<1>3. KeptOrder(p, <<>>) BY <1>1 DEF KeptOrder
<1>4. ASSUME NEW r \in Roles(p), NEW w \in Int
      PROVE  UsedBy(p, <<>>, Held(p, r), r, w) <= WeekZero(p, r)
  <2> DEFINE f == [i \in Users(p, <<>>, Held(p, r), r, w) |-> Rate(p, i, r)]
  <2>1. UsedBy(p, <<>>, Held(p, r), r, w) = SumFunction(f) BY <1>2, UsedIs
  <2>2. DOMAIN f = {} BY <1>1 DEF Users
  <2> HIDE DEF f
  <2>3. UsedBy(p, <<>>, Held(p, r), r, w) = 0 BY <2>1, <2>2, SumNone
  <2>4. WeekZero(p, r) \in Nat BY WeekZeroNat DEF IsLevelling
  <2> QED BY <2>3, <2>4
<1>5. KeptLevel(p, <<>>) BY <1>1, <1>4 DEF KeptLevel
<1> QED BY <1>1, <1>2, <1>3, <1>5 DEF PlacedInv

LEMMA PlacedNext ==
  ASSUME NEW p, IsLevelling(p), NEW q, InLine(p, q), ~Circles(p) => Behind(p, q),
         NEW n \in Nat, n + 1 \in DOMAIN q, NEW starts, PlacedInv(p, q, starts, n)
  PROVE  PlacedInv(p, q, WithStart(p, starts, q[n + 1]), n + 1)
<1> DEFINE i == q[n + 1]
           more == WithStart(p, starts, i)
<1>1. /\ DOMAIN q = 1 .. Len(q) /\ Len(q) \in Nat /\ i \in Features(p)
      /\ \A k, m \in DOMAIN q : q[k] = q[m] => k = m
  <2>1. q \in Seq(Features(p)) BY DEF InLine
  <2>2. DOMAIN q = 1 .. Len(q) /\ Len(q) \in Nat BY <2>1, LenProperties
  <2>3. i \in Features(p) BY <2>1, <2>2, ElementOfSeq
  <2> QED BY <2>2, <2>3 DEF InLine
<1>2. SomePlaced(p, starts) /\ DOMAIN starts = {q[k] : k \in 1 .. n} BY DEF PlacedInv
<1>3. i \notin DOMAIN starts
  <2> SUFFICES ASSUME NEW k \in 1 .. n, q[k] = i  PROVE FALSE
    BY <1>2
  <2>1. k \in DOMAIN q /\ k # n + 1 BY <1>1
  <2> QED BY <1>1, <2>1
<1>4. ~Circles(p) => WaitsFor(p, i) \subseteq DOMAIN starts
  <2> SUFFICES ASSUME ~Circles(p), NEW j \in WaitsFor(p, i)  PROVE j \in DOMAIN starts
    OBVIOUS
  <2>1. PICK m \in 1 .. (n + 1) - 1 : q[m] = j BY DEF Behind
  <2>2. m \in 1 .. n BY <2>1
  <2> QED BY <1>2, <2>1, <2>2
<1>5. {q[k] : k \in 1 .. n + 1} = {q[k] : k \in 1 .. n} \cup {i}
  <2>1. 1 .. n + 1 = (1 .. n) \cup {n + 1} OBVIOUS
  <2> QED BY <2>1
<1> HIDE DEF i
<1>6. /\ SomePlaced(p, more) /\ DOMAIN more = DOMAIN starts \cup {i}
      /\ KeptOrder(p, starts) /\ WaitsFor(p, i) \subseteq DOMAIN starts => KeptOrder(p, more)
      /\ FitAlone(p) /\ Searchable(p) /\ KeptLevel(p, starts) => KeptLevel(p, more)
  BY <1>1, <1>2, <1>3, StartPlaced
<1> HIDE DEF more
<1>7. PlacedInv(p, q, more, n + 1) BY <1>2, <1>4, <1>5, <1>6 DEF PlacedInv
<1> QED BY <1>7 DEF more, i

(* All are placed. *)
LEMMA StartingIs ==
  ASSUME NEW p, IsLevelling(p)
  PROVE  LET starts == Starting(p)
         IN  /\ SomePlaced(p, starts) /\ DOMAIN starts = Features(p)
             /\ ~Circles(p) => KeptOrder(p, starts)
             /\ FitAlone(p) /\ Searchable(p) => KeptLevel(p, starts)
<1> DEFINE q == Queued(p)
           N == Len(q)
           g == CHOOSE g : IsPlaced(p, q, g)
           F == {n \in 0 .. N : ~ PlacedInv(p, q, g[n], n)}
<1>1. InLine(p, q) /\ Range(q) = Features(p) /\ (~Circles(p) => Behind(p, q)) BY QueuedIs
<1>2. N \in Nat /\ DOMAIN q = 1 .. N BY <1>1, LenProperties DEF InLine
<1>3. IsPlaced(p, q, g) BY <1>2, PlacingExists
<1>4. Starting(p) = g[N] BY DEF Starting, IsPlaced, PlaceStep
<1> HIDE DEF g, q
<1>5. \A n \in 0 .. N : g[n] = PlaceStep(p, q, g, n) BY <1>3 DEF IsPlaced
<1> HIDE DEF N
<1>6. F = {}
  <2> SUFFICES ASSUME F # {}  PROVE FALSE OBVIOUS
  <2>0. F \subseteq Nat BY <1>2
  <2>1. PICK n \in F : \A m \in F : n <= m
    <3> HIDE DEF F
    <3> QED BY <2>0, LeastNumber
  <2>2. n \in 0 .. N /\ n \in Nat /\ ~ PlacedInv(p, q, g[n], n) BY <1>2, <2>1
  <2>3. n # 0
    <3>1. g[0] = <<>>
      <4>1. 0 \in 0 .. N BY <1>2
      <4> QED BY <1>5, <4>1 DEF PlaceStep
    <3> QED BY <2>2, <3>1, NothingPlaced
  <2> DEFINE m == n - 1
  <2>4. m \in 0 .. N /\ m \in Nat /\ ~ (n <= m) /\ m + 1 = n /\ n \in DOMAIN q BY <1>2, <2>2, <2>3
  <2>5. PlacedInv(p, q, g[m], m) BY <2>1, <2>4
  <2>6. g[n] = WithStart(p, g[m], q[n]) BY <1>5, <2>2, <2>3 DEF PlaceStep
  <2> HIDE DEF m
  <2>7. PlacedInv(p, q, WithStart(p, g[m], q[m + 1]), m + 1) BY <1>1, <2>4, <2>5, PlacedNext
  <2> QED BY <2>2, <2>4, <2>6, <2>7
<1>7. PlacedInv(p, q, g[N], N) BY <1>2, <1>6
<1>8. DOMAIN g[N] = Features(p)
  <2>1. {q[k] : k \in 1 .. N} = Range(q) BY <1>2 DEF Range
  <2> QED BY <1>1, <1>7, <2>1 DEF PlacedInv
<1> QED BY <1>4, <1>7, <1>8 DEF PlacedInv

----
(* The optimiser: what is ranked first. *)

LEMMA Products ==
  ASSUME NEW a \in Int, NEW b \in Int, NEW u \in Int, NEW k \in Int, a <= b, u > 0, k > 0
  PROVE  /\ a * u * k \in Int /\ b * u * k \in Int /\ a * u * k <= b * u * k
         /\ a * u * k = b * u * k => a = b
<1>1. /\ a * u \in Int /\ b * u \in Int /\ a * u <= b * u
      /\ a * u = b * u => a = b
  OBVIOUS
<1> DEFINE x == a * u
           y == b * u
<1>2. x \in Int /\ y \in Int /\ x <= y BY <1>1
<1> HIDE DEF x, y
<1>3. x * k \in Int /\ y * k \in Int /\ x * k <= y * k /\ (x * k = y * k => x = y) BY <1>2
<1> QED BY <1>1, <1>3 DEF x, y

(* A share is a place between the least and the most. *)
LEMMA ShareIs ==
  ASSUME NEW all, IsFiniteSet(all), all \subseteq Int, NEW x \in all, NEW y \in all
  PROVE  /\ Share(x, all).of \in Nat \ {0} /\ Share(y, all).of = Share(x, all).of
         /\ Share(x, all).n \in Int /\ Share(y, all).n \in Int
         /\ x <= y => Share(x, all).n <= Share(y, all).n
         /\ Share(x, all).n = Share(y, all).n => x = y
<1> DEFINE lo == Min(all)
           hi == Max(all)
<1>1. lo \in Int /\ hi \in Int /\ lo <= x /\ x <= hi /\ lo <= y /\ y <= hi BY MaxMin
<1>2. \A z : Share(z, all) = IF lo = hi THEN [of |-> 2, n |-> 1] ELSE [of |-> hi - lo, n |-> z - lo]
  BY DEF Share
<1> HIDE DEF lo, hi
<1>3. CASE lo = hi
  <2>1. Share(x, all) = [of |-> 2, n |-> 1] /\ Share(y, all) = [of |-> 2, n |-> 1] BY <1>2, <1>3
  <2> QED BY <1>1, <1>3, <2>1
<1>4. CASE lo # hi
  <2>1. Share(x, all) = [of |-> hi - lo, n |-> x - lo] /\ Share(y, all) = [of |-> hi - lo, n |-> y - lo]
    BY <1>2, <1>4
  <2> QED BY <1>1, <1>4, <2>1
<1> QED BY <1>3, <1>4

Measured(c) == c.metrics.delivery \in Int /\ c.metrics.utilisation \in Int /\ c.metrics.cost \in Int

(* d is as soon, as cheap and as well used as c. *)
NoWorse(d, c) ==
  /\ d.metrics.delivery <= c.metrics.delivery
  /\ d.metrics.utilisation >= c.metrics.utilisation
  /\ d.metrics.cost <= c.metrics.cost

LEMMA ScoreIs ==
  ASSUME NEW all, IsFiniteSet(all), \A x \in all : Measured(x),
         NEW c \in all, NEW d \in all, NoWorse(d, c), ~ BalancedScore(d, all) > BalancedScore(c, all)
  PROVE  d.metrics.delivery = c.metrics.delivery /\ d.metrics.utilisation = c.metrics.utilisation
<1> DEFINE W == {x.metrics.delivery : x \in all}
           U == {x.metrics.utilisation : x \in all}
           K == {x.metrics.cost : x \in all}
           w(x) == Share(x.metrics.delivery, W)
           u(x) == Share(x.metrics.utilisation, U)
           k(x) == Share(x.metrics.cost, K)
           wo == w(c).of
           uo == u(c).of
           ko == k(c).of
           speed(x) == (wo - w(x).n) * uo * ko
           busy(x) == u(x).n * wo * ko
           cheap(x) == (ko - k(x).n) * wo * uo
<1>1. IsFiniteSet(W) /\ W \subseteq Int /\ IsFiniteSet(U) /\ U \subseteq Int /\ IsFiniteSet(K) /\ K \subseteq Int
  <2> DEFINE f == [x \in all |-> x.metrics.delivery]
             g == [x \in all |-> x.metrics.utilisation]
             h == [x \in all |-> x.metrics.cost]
  <2>1. W = {f[x] : x \in DOMAIN f} /\ U = {g[x] : x \in DOMAIN g} /\ K = {h[x] : x \in DOMAIN h}
    OBVIOUS
  <2>2. IsFiniteSet(DOMAIN f) /\ IsFiniteSet(DOMAIN g) /\ IsFiniteSet(DOMAIN h) OBVIOUS
  <2>3. W \subseteq Int /\ U \subseteq Int /\ K \subseteq Int BY DEF Measured
  <2> HIDE DEF f, g, h, W, U, K
  <2> QED BY <2>1, <2>2, <2>3, ImageFinite
<1>2. \A x \in {c, d} : x.metrics.delivery \in W /\ x.metrics.utilisation \in U /\ x.metrics.cost \in K
  OBVIOUS
<1>3. /\ wo \in Nat \ {0} /\ w(d).of = wo /\ w(c).n \in Int /\ w(d).n \in Int /\ w(d).n <= w(c).n
      /\ w(d).n = w(c).n => d.metrics.delivery = c.metrics.delivery
  <2> HIDE DEF W
  <2> QED BY <1>1, <1>2, ShareIs DEF NoWorse
<1>4. /\ uo \in Nat \ {0} /\ u(d).of = uo /\ u(c).n \in Int /\ u(d).n \in Int /\ u(c).n <= u(d).n
      /\ u(d).n = u(c).n => d.metrics.utilisation = c.metrics.utilisation
  <2>1. c.metrics.utilisation <= d.metrics.utilisation BY DEF NoWorse, Measured
  <2> HIDE DEF U
  <2> QED BY <1>1, <1>2, <2>1, ShareIs
<1>5. ko \in Nat \ {0} /\ k(d).of = ko /\ k(c).n \in Int /\ k(d).n \in Int /\ k(d).n <= k(c).n
  <2> HIDE DEF K
  <2> QED BY <1>1, <1>2, ShareIs DEF NoWorse
<1>6. \A x \in {c, d} : BalancedScore(x, all) = IF Max(K) > 0 THEN 2 * speed(x) + 2 * busy(x) + cheap(x)
                                                              ELSE speed(x) + busy(x)
  <2>1. BalancedScore(c, all) = IF Max(K) > 0 THEN 2 * speed(c) + 2 * busy(c) + cheap(c) ELSE speed(c) + busy(c)
    BY DEF BalancedScore
  <2>2. BalancedScore(d, all) = IF Max(K) > 0 THEN 2 * speed(d) + 2 * busy(d) + cheap(d) ELSE speed(d) + busy(d)
    <3>1. BalancedScore(d, all) =
            IF Max(K) > 0
            THEN 2 * ((w(d).of - w(d).n) * u(d).of * k(d).of) + 2 * (u(d).n * w(d).of * k(d).of)
                   + (k(d).of - k(d).n) * w(d).of * u(d).of
            ELSE (w(d).of - w(d).n) * u(d).of * k(d).of + u(d).n * w(d).of * k(d).of
      BY DEF BalancedScore
    <3>2. w(d).of = wo /\ u(d).of = uo /\ k(d).of = ko BY <1>3, <1>4, <1>5
    <3> HIDE DEF w, u, k, wo, uo, ko, K
    <3> QED BY <3>1, <3>2
  <2> QED BY <2>1, <2>2
<1> HIDE DEF W, U, K, w, u, k, wo, uo, ko
<1>7. /\ speed(c) \in Int /\ speed(d) \in Int /\ speed(c) <= speed(d)
      /\ speed(c) = speed(d) => wo - w(c).n = wo - w(d).n
  BY <1>3, <1>4, <1>5, Products
<1>8. /\ busy(c) \in Int /\ busy(d) \in Int /\ busy(c) <= busy(d)
      /\ busy(c) = busy(d) => u(c).n = u(d).n
  BY <1>3, <1>4, <1>5, Products
<1>9. cheap(c) \in Int /\ cheap(d) \in Int /\ cheap(c) <= cheap(d) BY <1>3, <1>4, <1>5, Products
<1> HIDE DEF speed, busy, cheap
<1>10. speed(c) = speed(d) /\ busy(c) = busy(d) BY <1>6, <1>7, <1>8, <1>9
<1> QED BY <1>3, <1>4, <1>7, <1>8, <1>10

(* Whatever is ranked first, nothing else is no worse and better in one. *)
LEMMA FirstIsBest ==
  ASSUME NEW mode, NEW all, IsFiniteSet(all), \A x \in all : Measured(x),
         NEW c \in FirstOf(mode, all), NEW d \in all, NoWorse(d, c)
  PROVE  d.metrics.delivery = c.metrics.delivery /\ d.metrics.utilisation = c.metrics.utilisation
<1>1. c \in all /\ ~Lexicographic(Ranked(mode, all, d), Ranked(mode, all, c)) BY DEF FirstOf
<1>2. Measured(c) /\ Measured(d) BY <1>1
<1>3. CASE mode = "speed"
  <2> DEFINE x == <<- d.metrics.delivery, - d.metrics.cost, d.metrics.utilisation>>
             y == <<- c.metrics.delivery, - c.metrics.cost, c.metrics.utilisation>>
  <2>1. Ranked(mode, all, d) = x /\ Ranked(mode, all, c) = y BY <1>3 DEF Ranked
  <2>2. \A i \in 1 .. 3 : ~(x[i] > y[i] /\ \A j \in 1 .. i - 1 : x[j] = y[j])
    <3>1. ~Lexicographic(x, y) /\ DOMAIN x = 1 .. 3 BY <1>1, <2>1
    <3> HIDE DEF x, y
    <3> QED BY <3>1 DEF Lexicographic
  <2>3. ~ x[1] > y[1] /\ (x[1] = y[1] => ~ x[2] > y[2])
        /\ (x[1] = y[1] /\ x[2] = y[2] => ~ x[3] > y[3])
    BY <2>2
  <2> QED BY <1>2, <2>3 DEF NoWorse, Measured
<1>4. CASE mode = "utilisation"
  <2> DEFINE x == <<d.metrics.utilisation, - d.metrics.delivery>>
             y == <<c.metrics.utilisation, - c.metrics.delivery>>
  <2>1. Ranked(mode, all, d) = x /\ Ranked(mode, all, c) = y BY <1>4 DEF Ranked
  <2>2. \A i \in 1 .. 2 : ~(x[i] > y[i] /\ \A j \in 1 .. i - 1 : x[j] = y[j])
    <3>1. ~Lexicographic(x, y) /\ DOMAIN x = 1 .. 2 BY <1>1, <2>1
    <3> HIDE DEF x, y
    <3> QED BY <3>1 DEF Lexicographic
  <2>3. ~ x[1] > y[1] /\ (x[1] = y[1] => ~ x[2] > y[2]) BY <2>2
  <2> QED BY <1>2, <2>3 DEF NoWorse, Measured
<1>5. CASE mode \notin {"speed", "utilisation"}
  <2> DEFINE x == <<BalancedScore(d, all)>>
             y == <<BalancedScore(c, all)>>
  <2>1. Ranked(mode, all, d) = x /\ Ranked(mode, all, c) = y BY <1>5 DEF Ranked
  <2>2. ~ x[1] > y[1] BY <1>1, <2>1 DEF Lexicographic
  <2> QED BY <1>1, <2>2, ScoreIs
<1> QED BY <1>3, <1>4, <1>5

----
(* The optimiser: what is measured is measured in numbers. *)

Heads(project) == [Ids(project) -> Nat \ {0}]

(* Dates of the entries of a schedule. *)
Timed(fs) == \A i \in DOMAIN fs : fs[i].from = None \/ (fs[i].from \in Nat /\ fs[i].length \in Nat)

LEMMA IdsFinite ==
  ASSUME NEW p, IsProject(p)
  PROVE  /\ Len(p.roles) \in Nat /\ DOMAIN p.roles = 1 .. Len(p.roles) /\ IsFiniteSet(DOMAIN p.roles)
         /\ Len(p.features) \in Nat /\ DOMAIN p.features = 1 .. Len(p.features) /\ IsFiniteSet(DOMAIN p.features)
         /\ IsFiniteSet(Ids(p)) /\ None \notin Ids(p)
<1>1. InSeq(p.roles) /\ InSeq(p.features) /\ None \notin Ids(p) BY DEF IsProject
<1>2. /\ Len(p.roles) \in Nat /\ DOMAIN p.roles = 1 .. Len(p.roles) /\ IsFiniteSet(DOMAIN p.roles)
      /\ Len(p.features) \in Nat /\ DOMAIN p.features = 1 .. Len(p.features) /\ IsFiniteSet(DOMAIN p.features)
  BY <1>1, SeqIs
<1>3. IsFiniteSet(Ids(p))
  <2> DEFINE f == [i \in DOMAIN p.roles |-> p.roles[i].id]
  <2>1. Ids(p) = {f[i] : i \in DOMAIN f} /\ DOMAIN f = DOMAIN p.roles BY DEF Ids
  <2> HIDE DEF f
  <2> QED BY <1>2, <2>1, ImageFinite
<1> QED BY <1>1, <1>2, <1>3

(* A role is found by its id. *)
LEMMA RoleFound ==
  ASSUME NEW p, IsProject(p), NEW r \in DOMAIN p.roles
  PROVE  p.roles[r].id \in Ids(p) /\ IndexOf(p, p.roles[r].id) = r
<1>1. \A s \in DOMAIN p.roles : p.roles[s].id = p.roles[r].id => s = r BY DEF IsProject
<1> QED BY <1>1 DEF Ids, IndexOf, RoleIndex

LEMMA EffortNat ==
  ASSUME NEW f, NEW ids, IsFeature(f, ids), NEW id \in ids \cup {None}
  PROVE  EffortOf(f, id) \in Nat
<1> DEFINE h == [k \in ActiveStories(f) |-> f.stories[k].hours[id]]
<1>1. IsFiniteSet(DOMAIN f.stories) /\ \A k \in DOMAIN f.stories : f.stories[k].hours[id] \in Nat
  BY SeqIs DEF IsFeature
<1>2. DOMAIN h = ActiveStories(f) /\ ActiveStories(f) \subseteq DOMAIN f.stories
  BY DEF ActiveStories
<1>3. Numbers(h) /\ \A k \in DOMAIN h : h[k] >= 0 BY <1>1, <1>2, CountIs DEF Numbers
<1>4. EffortOf(f, id) = SumFunction(h) * (Day \div HoursPerDay) BY DEF EffortOf, SumOver
<1> HIDE DEF h
<1>5. SumFunction(h) \in Nat BY <1>3, SumNat
<1>6. Day \div HoursPerDay = 15 BY DEF Day, HoursPerDay
<1> QED BY <1>4, <1>5, <1>6

(* Features with their stories. *)
Backlogged(fs, ids) == InSeq(fs) /\ IsFiniteSet(ids) /\ None \notin ids /\ \A i \in DOMAIN fs : IsFeature(fs[i], ids)

LEMMA AllEffort ==
  ASSUME NEW fs, NEW ids, Backlogged(fs, ids), NEW id \in ids
  PROVE  Effort(fs, id) \in Nat
<1> DEFINE f == [i \in Active(fs) |-> EffortOf(fs[i], id)]
<1>1. IsFiniteSet(DOMAIN fs) /\ Active(fs) \subseteq DOMAIN fs BY SeqIs DEF Backlogged, Active
<1>2. Numbers(f) /\ \A i \in DOMAIN f : f[i] >= 0
  <2>1. \A i \in Active(fs) : EffortOf(fs[i], id) \in Nat BY <1>1, EffortNat DEF Backlogged
  <2> QED BY <1>1, <2>1, CountIs DEF Numbers
<1>3. Effort(fs, id) = SumFunction(f) BY DEF Effort, SumOver
<1> HIDE DEF f
<1> QED BY <1>2, <1>3, SumNat

LEMMA FloorNat ==
  ASSUME NEW fs, NEW ids, Backlogged(fs, ids), NEW counts \in [ids -> Nat \ {0}], NEW parallel
  PROVE  SpanFloor(fs, parallel, counts) \in Nat
<1> DEFINE f == [id \in ids |-> Effort(fs, id) \div counts[id]]
<1>1. \A id \in ids : Effort(fs, id) \div counts[id] \in Int
  <2> TAKE id \in ids
  <2>1. Effort(fs, id) \in Nat /\ counts[id] \in Nat /\ counts[id] > 0 BY AllEffort
  <2> QED BY <2>1
<1>2. Max({0} \cup {f[id] : id \in DOMAIN f}) \in Int /\ 0 <= Max({0} \cup {f[id] : id \in DOMAIN f})
  <2>1. IsFiniteSet(DOMAIN f) /\ \A id \in DOMAIN f : f[id] \in Int BY <1>1 DEF Backlogged
  <2> HIDE DEF f
  <2> QED BY <2>1, MaxWith
<1>3. {Effort(fs, id) \div counts[id] : id \in DOMAIN counts} = {f[id] : id \in DOMAIN f} OBVIOUS
<1> QED BY <1>2, <1>3 DEF SpanFloor

LEMMA PhaseNat ==
  ASSUME NEW e, NEW ids, IsFiniteSet(ids), None \notin ids, IsFeature(e, ids),
         NEW counts \in [ids -> Nat \ {0}], NEW k \in ActiveStories(e)
  PROVE  PhaseLength(counts, e, k) \in Nat
<1> DEFINE f == [id \in ids \cup {None} |-> WorkIn(e, k, id) \div HeadsFor(counts, id)]
<1>1. \A id \in ids \cup {None} : WorkIn(e, k, id) \div HeadsFor(counts, id) \in Int
  <2> TAKE id \in ids \cup {None}
  <2>1. WorkIn(e, k, id) \in Nat
    <3>1. e.stories[k].hours[id] \in Nat BY DEF IsFeature, ActiveStories
    <3>2. Day \div HoursPerDay = 15 BY DEF Day, HoursPerDay
    <3> QED BY <3>1, <3>2 DEF WorkIn
  <2>2. HeadsFor(counts, id) \in Nat /\ HeadsFor(counts, id) > 0 BY DEF HeadsFor
  <2> QED BY <2>1, <2>2
<1>2. IsFiniteSet(ids \cup {None}) BY FS_AddElement
<1>3. Max({Day} \cup {f[id] : id \in DOMAIN f}) \in Int /\ Day <= Max({Day} \cup {f[id] : id \in DOMAIN f})
  <2>1. IsFiniteSet(DOMAIN f) /\ \A id \in DOMAIN f : f[id] \in Int BY <1>1, <1>2
  <2>2. Day \in Int BY DEF Day
  <2> HIDE DEF f
  <2> QED BY <2>1, <2>2, MaxWith
<1>4. {WorkIn(e, k, id) \div HeadsFor(counts, id) : id \in DOMAIN counts \cup {None}} = {f[id] : id \in DOMAIN f}
  OBVIOUS
<1> HIDE DEF f
<1>5. PhaseLength(counts, e, k) = Max({Day} \cup {f[id] : id \in DOMAIN f}) BY <1>4 DEF PhaseLength
<1> QED BY <1>3, <1>5 DEF Day

LEMMA LengthNat ==
  ASSUME NEW e, NEW ids, IsFiniteSet(ids), None \notin ids, IsFeature(e, ids),
         NEW counts \in [ids -> Nat \ {0}], NEW floor \in Nat
  PROVE  LengthOf(counts, e, floor) \in Nat
<1> DEFINE f == [k \in ActiveStories(e) |-> PhaseLength(counts, e, k)]
           phases == SumFunction(f)
           most == Max({phases, floor})
<1>1. Numbers(f) /\ \A k \in DOMAIN f : f[k] >= 0
  <2>1. IsFiniteSet(DOMAIN e.stories) /\ ActiveStories(e) \subseteq DOMAIN e.stories
    BY SeqIs DEF IsFeature, ActiveStories
  <2>2. \A k \in ActiveStories(e) : PhaseLength(counts, e, k) \in Nat BY PhaseNat
  <2> QED BY <2>1, <2>2, CountIs DEF Numbers
<1>2. phases \in Nat
  <2> HIDE DEF f
  <2> QED BY <1>1, SumNat
<1>3. LengthOf(counts, e, floor) = IF ActiveStories(e) = {} THEN TicksPerWeek
                                   ELSE CeilDiv(TicksPerWeek * most, 5 * Day)
  BY DEF LengthOf, SumOver
<1> HIDE DEF phases
<1>4. most \in Nat
  <2>1. most = IF phases >= floor THEN phases ELSE floor BY <1>2, TwoOf
  <2> QED BY <1>2, <2>1
<1> HIDE DEF most
<1>5. TicksPerWeek \in Nat BY ViewAssumption
<1>6. CeilDiv(TicksPerWeek * most, 5 * Day) \in Nat
  <2> DEFINE x == TicksPerWeek * most
  <2>1. x \in Nat BY <1>4, <1>5
  <2> HIDE DEF x
  <2>2. (x + 600 - 1) \div 600 \in Nat BY <2>1
  <2>3. CeilDiv(x, 5 * Day) = (x + 600 - 1) \div 600 BY DEF CeilDiv, Day
  <2> QED BY <2>2, <2>3 DEF x
<1> QED BY <1>3, <1>5, <1>6

(* What dating the features leaves alone. *)
SameBacklog(f, e) == f.epic = e.epic /\ f.active = e.active /\ f.stories = e.stories

Redated(f, a, l) == [f EXCEPT !.from = a, !.length = l]

LEMMA FeatureDated ==
  ASSUME NEW f, NEW ids, IsFeature(f, ids), NEW a, NEW l
  PROVE  LET e == Redated(f, a, l)
         IN  SameBacklog(e, f) /\ IsFeature(e, ids) /\ e.from = a /\ e.length = l
<1> DEFINE e == Redated(f, a, l)
<1>1. f = [epic |-> f.epic, active |-> f.active, from |-> f.from, length |-> f.length, stories |-> f.stories]
  BY DEF IsFeature
<1>2. e = [epic |-> f.epic, active |-> f.active, from |-> a, length |-> l, stories |-> f.stories]
  <2> DEFINE g == [f EXCEPT !.from = a]
  <2>1. g = [epic |-> f.epic, active |-> f.active, from |-> a, length |-> f.length, stories |-> f.stories]
    BY <1>1
  <2>2. e = [g EXCEPT !.length = l] BY DEF Redated
  <2> HIDE DEF g, e
  <2> QED BY <2>1, <2>2
<1> HIDE DEF e
<1>3. SameBacklog(e, f) /\ e.from = a /\ e.length = l BY <1>2 DEF SameBacklog
<1>4. e = [epic |-> e.epic, active |-> e.active, from |-> e.from, length |-> e.length, stories |-> e.stories]
  BY <1>2
<1>5. IsFeature(e, ids) BY <1>3, <1>4 DEF IsFeature, SameBacklog
<1> QED BY <1>3, <1>5 DEF e

LEMMA DatedIs ==
  ASSUME NEW fs, NEW ids, Backlogged(fs, ids), NEW counts \in [ids -> Nat \ {0}], NEW parallel
  PROVE  LET es == Dated(fs, parallel, counts)
         IN  /\ es = [i \in DOMAIN fs |-> es[i]] /\ Backlogged(es, ids) /\ Timed(es)
             /\ \A i \in DOMAIN fs : SameBacklog(es[i], fs[i])
<1> DEFINE es == Dated(fs, parallel, counts)
           floor == SpanFloor(fs, parallel, counts)
           length(i) == LengthOf(counts, fs[i], floor)
           before(i) == {j \in 1 .. i - 1 : fs[j].active /\ fs[i].epic \notin parallel}
           start(i) == SumOver(before(i), length)
<1>1. InSeq(fs) /\ Len(fs) \in Nat /\ DOMAIN fs = 1 .. Len(fs) /\ \A i \in DOMAIN fs : IsFeature(fs[i], ids)
  BY SeqIs DEF Backlogged
<1>2. \A i \in DOMAIN fs : length(i) \in Nat BY FloorNat, LengthNat DEF Backlogged
<1>3. \A i \in DOMAIN fs : start(i) \in Nat
  <2> TAKE i \in DOMAIN fs
  <2> DEFINE f == [j \in before(i) |-> length(j)]
  <2>1. Numbers(f) /\ \A j \in DOMAIN f : f[j] >= 0
    <3>0. i \in Int /\ 1 \in Int /\ i - 1 \in Int BY <1>1
    <3>1. IsFiniteSet(1 .. i - 1) BY <3>0, FS_Interval
    <3>2. before(i) \subseteq 1 .. i - 1 /\ before(i) \subseteq DOMAIN fs BY <1>1
    <3> HIDE DEF before, length
    <3>3. IsFiniteSet(before(i)) /\ \A j \in before(i) : length(j) \in Nat
      BY <1>2, <3>1, <3>2, FS_Subset
    <3> QED BY <3>3 DEF Numbers
  <2>2. start(i) = SumFunction(f) BY DEF SumOver
  <2> HIDE DEF f, start
  <2> QED BY <2>1, <2>2, SumNat
<1>4. es = [i \in DOMAIN fs |-> IF fs[i].active THEN [fs[i] EXCEPT !.from = start(i), !.length = length(i)]
                                ELSE [fs[i] EXCEPT !.from = None, !.length = None]]
  BY DEF Dated
<1> HIDE DEF es, start, length
<1>5. \A i \in DOMAIN fs :
        /\ SameBacklog(es[i], fs[i]) /\ IsFeature(es[i], ids)
        /\ es[i].from = None \/ (es[i].from = start(i) /\ es[i].length = length(i))
  <2> TAKE i \in DOMAIN fs
  <2>1. IsFeature(fs[i], ids) BY <1>1
  <2>2. es[i] = IF fs[i].active THEN [fs[i] EXCEPT !.from = start(i), !.length = length(i)]
                ELSE [fs[i] EXCEPT !.from = None, !.length = None]
    BY <1>4
  <2>3. CASE fs[i].active
    <3>1. es[i] = [fs[i] EXCEPT !.from = start(i), !.length = length(i)] BY <2>2, <2>3
    <3>2. SameBacklog(es[i], fs[i]) /\ IsFeature(es[i], ids) /\ es[i].from = start(i) /\ es[i].length = length(i)
      <4> DEFINE e == es[i]
                 f == fs[i]
                 a == start(i)
                 l == length(i)
      <4>1. e = Redated(f, a, l) /\ IsFeature(f, ids) BY <2>1, <3>1 DEF Redated
      <4> HIDE DEF e, f, a, l
      <4>2. SameBacklog(e, f) /\ IsFeature(e, ids) /\ e.from = a /\ e.length = l
        BY <4>1, FeatureDated
      <4> QED BY <4>2 DEF e, f, a, l
    <3> QED BY <3>2
  <2>4. CASE ~fs[i].active
    <3>1. es[i] = [fs[i] EXCEPT !.from = None, !.length = None] BY <2>2, <2>4
    <3>2. SameBacklog(es[i], fs[i]) /\ IsFeature(es[i], ids) /\ es[i].from = None
      <4> DEFINE e == es[i]
                 f == fs[i]
      <4>1. e = Redated(f, None, None) /\ IsFeature(f, ids) BY <2>1, <3>1 DEF Redated
      <4> HIDE DEF e, f
      <4>2. SameBacklog(e, f) /\ IsFeature(e, ids) /\ e.from = None BY <4>1, FeatureDated
      <4> QED BY <4>2 DEF e, f
    <3> QED BY <3>2
  <2> QED BY <2>3, <2>4
<1>6. DOMAIN es = DOMAIN fs /\ es = [i \in DOMAIN fs |-> es[i]] BY <1>4
<1>8. InSeq(es)
  <2>1. DOMAIN es = 1 .. Len(fs) /\ \A i \in 1 .. Len(fs) : es[i] \in Range(es)
    BY <1>1, <1>6 DEF Range
  <2>2. es = [i \in 1 .. Len(fs) |-> es[i]] BY <1>1, <1>6
  <2> HIDE DEF es
  <2> QED BY <1>1, <2>1, <2>2 DEF InSeq
<1>9. Timed(es) BY <1>2, <1>3, <1>5, <1>6 DEF Timed
<1> QED BY <1>5, <1>6, <1>8, <1>9 DEF Backlogged, es

(* A role with another number of people. *)
LEMMA RoleCounted ==
  ASSUME NEW role, IsRole(role), NEW n \in Nat \ {0}
  PROVE  LET new == [role EXCEPT !.count = n]
         IN  /\ new = [id |-> role.id, name |-> role.name, profiles |-> role.profiles, people |-> role.people,
                       count |-> n, plan |-> role.plan]
             /\ IsRole(new)
<1> DEFINE new == [role EXCEPT !.count = n]
<1>1. role = [id |-> role.id, name |-> role.name, profiles |-> role.profiles, people |-> role.people,
              count |-> role.count, plan |-> role.plan]
  BY DEF IsRole
<1>2. new = [id |-> role.id, name |-> role.name, profiles |-> role.profiles, people |-> role.people,
             count |-> n, plan |-> role.plan]
  BY <1>1
<1> HIDE DEF new
<1>3. new.profiles = role.profiles /\ new.people = role.people /\ new.count = n
      /\ new = [id |-> new.id, name |-> new.name, profiles |-> new.profiles, people |-> new.people,
                count |-> new.count, plan |-> new.plan]
  BY <1>2
<1>4. Resolvable(new) BY <1>3 DEF IsRole, Resolvable
<1>5. IsRole(new) BY <1>3, <1>4 DEF IsRole
<1> QED BY <1>2, <1>5 DEF new

LEMMA CountedIs ==
  ASSUME NEW p, IsProject(p), NEW counts \in Heads(p)
  PROVE  LET roles == WithCounts(p.roles, counts)
         IN  /\ roles = [r \in DOMAIN p.roles |-> roles[r]] /\ InSeq(roles)
             /\ \A r \in DOMAIN p.roles :
                  /\ IsRole(roles[r]) /\ roles[r].id = p.roles[r].id /\ roles[r].count = counts[p.roles[r].id]
                  /\ roles[r] = [p.roles[r] EXCEPT !.count = counts[p.roles[r].id]]
<1> DEFINE roles == WithCounts(p.roles, counts)
<1>1. roles = [r \in DOMAIN p.roles |-> [p.roles[r] EXCEPT !.count = counts[p.roles[r].id]]]
  BY DEF WithCounts
<1> HIDE DEF roles
<1>2. \A r \in DOMAIN p.roles :
        /\ IsRole(roles[r]) /\ roles[r].id = p.roles[r].id /\ roles[r].count = counts[p.roles[r].id]
        /\ roles[r] = [p.roles[r] EXCEPT !.count = counts[p.roles[r].id]]
  <2> TAKE r \in DOMAIN p.roles
  <2> DEFINE n == counts[p.roles[r].id]
             role == p.roles[r]
  <2>1. n \in Nat \ {0} /\ IsRole(role) /\ roles[r] = [role EXCEPT !.count = n]
    BY <1>1, RoleFound DEF Heads, IsProject
  <2> HIDE DEF n, role
  <2>2. IsRole(roles[r]) /\ roles[r].id = role.id /\ roles[r].count = n
    <3>1. LET new == [role EXCEPT !.count = n]
          IN  IsRole(new) /\ new.id = role.id /\ new.count = n
      <4> DEFINE new == [role EXCEPT !.count = n]
      <4>1. /\ new = [id |-> role.id, name |-> role.name, profiles |-> role.profiles, people |-> role.people,
                      count |-> n, plan |-> role.plan]
            /\ IsRole(new)
        BY <2>1, RoleCounted
      <4> HIDE DEF new
      <4>2. new.id = role.id /\ new.count = n BY <4>1
      <4> QED BY <4>1, <4>2 DEF new
    <3> QED BY <2>1, <3>1
  <2> QED BY <2>1, <2>2 DEF n, role
<1>3. InSeq(roles)
  <2>1. DOMAIN roles = 1 .. Len(p.roles) /\ Len(p.roles) \in Nat BY <1>1, IdsFinite
  <2>2. \A r \in 1 .. Len(p.roles) : roles[r] \in Range(roles) BY <2>1 DEF Range
  <2>3. roles = [r \in 1 .. Len(p.roles) |-> roles[r]] BY <1>1, <2>1
  <2> QED BY <2>1, <2>2, <2>3 DEF InSeq
<1>4. roles = [r \in DOMAIN p.roles |-> roles[r]] BY <1>1
<1> QED BY <1>2, <1>3, <1>4 DEF roles

LEMMA ScheduledIs ==
  ASSUME NEW p, IsProject(p), NEW counts \in Heads(p)
  PROVE  LET s == Scheduled(p, counts)
         IN  /\ s = [roles |-> WithCounts(p.roles, counts), features |-> Dated(p.features, p.parallel, counts),
                     cache |-> <<>>, parallel |-> p.parallel, buffer |-> p.buffer,
                     onboarding |-> p.onboarding, overheads |-> p.overheads]
             /\ IsProject(s) /\ Timed(s.features) /\ Ids(s) = Ids(p)
<1> DEFINE s == Scheduled(p, counts)
           fs == Dated(p.features, p.parallel, counts)
           roles == WithCounts(p.roles, counts)
<1>1. s = [p EXCEPT !.features = fs, !.roles = roles, !.cache = <<>>] BY DEF Scheduled
<1>2. p = [roles |-> p.roles, features |-> p.features, cache |-> p.cache, parallel |-> p.parallel, buffer |-> p.buffer,
           onboarding |-> p.onboarding, overheads |-> p.overheads]
  BY DEF IsProject
<1>3. Backlogged(p.features, Ids(p)) /\ counts \in [Ids(p) -> Nat \ {0}]
  BY IdsFinite DEF IsProject, Backlogged, Heads
<1>4. fs = [i \in DOMAIN p.features |-> fs[i]] /\ Backlogged(fs, Ids(p)) /\ Timed(fs)
  BY <1>3, DatedIs
<1>5. /\ roles = [r \in DOMAIN p.roles |-> roles[r]] /\ InSeq(roles)
      /\ \A r \in DOMAIN p.roles :
           /\ IsRole(roles[r]) /\ roles[r].id = p.roles[r].id /\ roles[r].count = counts[p.roles[r].id]
           /\ roles[r] = [p.roles[r] EXCEPT !.count = counts[p.roles[r].id]]
  BY CountedIs
<1> HIDE DEF s, fs, roles
<1>6. s = [roles |-> roles, features |-> fs, cache |-> <<>>, parallel |-> p.parallel, buffer |-> p.buffer,
           onboarding |-> p.onboarding, overheads |-> p.overheads]
  BY <1>1, <1>2
<1>7. s.roles = roles /\ s.features = fs
      /\ s = [roles |-> s.roles, features |-> s.features, cache |-> s.cache, parallel |-> s.parallel,
              buffer |-> s.buffer, onboarding |-> s.onboarding, overheads |-> s.overheads]
  BY <1>6
<1>8. DOMAIN roles = DOMAIN p.roles BY <1>5
<1>9. Ids(s) = Ids(p)
  <2>1. DOMAIN s.roles = DOMAIN p.roles /\ \A r \in DOMAIN p.roles : s.roles[r].id = p.roles[r].id
    BY <1>5, <1>7, <1>8
  <2> QED BY <2>1 DEF Ids
<1>10. \A q, r \in DOMAIN roles : roles[q].id = roles[r].id => q = r BY <1>5, <1>8 DEF IsProject
<1>11. IsProject(s) BY <1>4, <1>5, <1>7, <1>8, <1>9, <1>10 DEF IsProject, Backlogged
<1> QED BY <1>4, <1>6, <1>7, <1>9, <1>11 DEF s, fs, roles

(* The segments of a profile. *)
LEMMA SegmentsAre ==
  ASSUME NEW p, IsProfile(p), NEW w
  PROVE  /\ PercentAt(Segments(p), w) \in Nat
         /\ p.segments = <<>> =>
              Segments(p) = <<Window(Or(p.from, 0), Or(p.to, Forever), Or(p.percent, 100))>>
<1>1. CASE p.segments # <<>> BY <1>1, PercentInt DEF Segments, IsProfile
<1>2. CASE p.segments = <<>>
  <2> DEFINE win == Window(Or(p.from, 0), Or(p.to, Forever), Or(p.percent, 100))
             x == [segments |-> <<win>>]
  <2>1. Segments(p) = <<win>> BY <1>2 DEF Segments
  <2>2. win.percent \in Nat BY DEF IsProfile, Or, Window
  <2> HIDE DEF win
  <2>3. HasSegments(x)
    <3>1. <<win>> \in Seq(Range(<<win>>)) BY DEF Range
    <3> QED BY <2>2, <3>1 DEF HasSegments, InSeq
  <2>4. x.segments = <<win>> OBVIOUS
  <2> HIDE DEF x
  <2>5. PercentAt(<<win>>, w) \in Nat BY <2>3, <2>4, PercentInt
  <2> QED BY <2>1, <2>5 DEF win
<1> QED BY <1>1, <1>2

(* Who can be read has one profile. *)
LEMMA OneProfile ==
  ASSUME NEW S, IsFiniteSet(S), Cardinality(S) = 1
  PROVE  TheProfile(S) \in S /\ \A p \in S : S = {p} /\ TheProfile(S) = p
<1>1. PICK x : S = {x} BY FS_Singleton
<1> QED BY <1>1 DEF TheProfile

LEMMA OneSegment ==
  ASSUME NEW win, NEW w
  PROVE  PercentAt(<<win>>, w) = IF Covers(win, w) THEN win.percent ELSE 0
<1> DEFINE I == {i \in 1 .. Len(<<win>>) : Covers(<<win>>[i], w)}
           i == IF I # {} THEN Min(I) ELSE 0
<1>1. PercentAt(<<win>>, w) = IF i = 0 THEN 0 ELSE <<win>>[i].percent BY DEF PercentAt, SelectInSeq
<1>2. \A k \in 1 .. Len(<<win>>) : k = 1 OBVIOUS
<1>3. CASE Covers(win, w)
  <2>1. I = {1} BY <1>2, <1>3
  <2>2. i = 1
    <3> HIDE DEF I
    <3> QED BY <2>1 DEF Min
  <2>3. <<win>>[1] = win OBVIOUS
  <2> HIDE DEF i
  <2> QED BY <1>1, <1>3, <2>2, <2>3
<1>4. CASE ~Covers(win, w)
  <2>1. I = {} BY <1>2, <1>4
  <2> HIDE DEF I
  <2> QED BY <1>1, <1>4, <2>1
<1> QED BY <1>3, <1>4

(* What a person of a role can do. *)
LEMMA PersonNat ==
  ASSUME NEW role, IsRole(role), NEW i \in DOMAIN role.people, NEW w
  PROVE  PercentAt(PersonSegments(role, role.people[i]), w) \in Nat
<1> DEFINE q == role.people[i]
           p == TheProfile(q.profiles)
<1>1. IsProfile(p)
  <2>1. IsFiniteSet(q.profiles) /\ Cardinality(q.profiles) = 1 /\ \A x \in q.profiles : IsPersonal(x)
    BY DEF IsRole, Resolvable
  <2>2. p \in q.profiles BY <2>1, OneProfile
  <2> QED BY <2>1, <2>2 DEF IsPersonal
<1>2. CASE Suppressed(role, q)
  <2> DEFINE win == Window(0, Forever, 0)
  <2>1. PersonSegments(role, q) = <<win>> /\ win.percent = 0 BY <1>2 DEF PersonSegments, Window
  <2> HIDE DEF win, q
  <2> QED BY <2>1, OneSegment DEF q
<1>3. CASE ~Suppressed(role, q)
  <2>1. PersonSegments(role, q) = Segments(p) BY <1>3 DEF PersonSegments
  <2> QED BY <1>1, <2>1, SegmentsAre
<1> QED BY <1>2, <1>3

LEMMA RoleCapacityInt ==
  ASSUME NEW role, IsRole(role), NEW w
  PROVE  WeeklyCapacity(Resolve(role), w) \in Int
<1> DEFINE resolved == Resolve(role)
           f == [i \in DOMAIN resolved.people |-> PercentAt(resolved.people[i].segments, w)]
<1>1. /\ DOMAIN resolved.people = DOMAIN role.people
      /\ \A i \in DOMAIN role.people : resolved.people[i].segments = PersonSegments(role, role.people[i])
      /\ resolved.segments = ResolvedRoleSegments(role)
  BY DEF Resolve
<1>2. Numbers(f)
  <2>1. \A i \in DOMAIN f : f[i] \in Nat BY <1>1, PersonNat
  <2>2. IsFiniteSet(DOMAIN role.people) BY SeqIs DEF IsRole
  <2>3. DOMAIN f = DOMAIN role.people BY <1>1
  <2> HIDE DEF f
  <2> QED BY <2>1, <2>2, <2>3 DEF Numbers
<1>3. PercentAt(resolved.segments, w) \in Nat
  <2>1. CASE role.profiles = {} \/ PlannedApart(role)
    <3>1. resolved.segments = <<>> BY <1>1, <2>1 DEF ResolvedRoleSegments
    <3>2. PercentAt(<<>>, w) = 0
      <4> DEFINE I == {i \in 1 .. Len(<<>>) : Covers(<<>>[i], w)}
                 i == IF I # {} THEN Min(I) ELSE 0
      <4>1. PercentAt(<<>>, w) = IF i = 0 THEN 0 ELSE <<>>[i].percent BY DEF PercentAt, SelectInSeq
      <4>2. I = {} OBVIOUS
      <4> HIDE DEF I
      <4> QED BY <4>1, <4>2
    <3> HIDE DEF resolved
    <3> QED BY <3>1, <3>2
  <2>2. CASE ~(role.profiles = {} \/ PlannedApart(role))
    <3> DEFINE p == TheProfile(role.profiles)
    <3>1. resolved.segments = Segments(p) BY <1>1, <2>2 DEF ResolvedRoleSegments
    <3>2. p \in role.profiles BY <2>2 DEF TheProfile
    <3>3. IsProfile(p) BY <3>2 DEF IsRole
    <3> HIDE DEF resolved, p
    <3> QED BY <3>1, <3>3, SegmentsAre
  <2> QED BY <2>1, <2>2
<1>4. WeeklyCapacity(resolved, w) = Point * (SumFunction(f) + PercentAt(resolved.segments, w))
  BY DEF WeeklyCapacity, WeeklyPercent, SumOver
<1> HIDE DEF resolved, f
<1>5. SumFunction(f) \in Int BY <1>2, SumInt
<1>6. Point = 6 BY DEF Point, Day
<1> QED BY <1>3, <1>4, <1>5, <1>6 DEF resolved

LEMMA DeliveryNat ==
  ASSUME NEW p, IsProject(p), Timed(p.features)
  PROVE  Delivery(p) \in Nat /\ IsFiniteSet(DeliveryWeeks(p))
<1> DEFINE fs == p.features
           f == [i \in Entries(fs) |-> fs[i].from + fs[i].length]
<1>1. IsFiniteSet(DOMAIN f) /\ \A i \in DOMAIN f : f[i] \in Int
  <2>1. IsFiniteSet(DOMAIN fs) /\ Entries(fs) \subseteq DOMAIN fs BY IdsFinite DEF Entries, Active
  <2>2. \A i \in Entries(fs) : fs[i].from \in Nat /\ fs[i].length \in Nat
    BY DEF Entries, Active, Timed
  <2>3. IsFiniteSet(Entries(fs)) BY <2>1, FS_Subset
  <2> QED BY <2>2, <2>3
<1>2. {fs[i].from + fs[i].length : i \in Entries(fs)} = {f[i] : i \in DOMAIN f} OBVIOUS
<1>3. Delivery(p) = Max({0} \cup {f[i] : i \in DOMAIN f}) BY <1>2 DEF Delivery, LastTick
<1> HIDE DEF f
<1>4. Delivery(p) \in Nat BY <1>1, <1>3, MaxWith
<1>5. IsFiniteSet(DeliveryWeeks(p))
  <2>1. CeilDiv(Delivery(p), TicksPerWeek) \in Int BY <1>4, ViewAssumption DEF CeilDiv
  <2> QED BY <2>1, FS_Interval DEF DeliveryWeeks
<1> QED BY <1>4, <1>5

(* A schedule can be measured. *)
LEMMA MetricsInt ==
  ASSUME NEW s, IsProject(s), Timed(s.features), NEW rates, \A id \in Ids(s) : rates[id] \in Int
  PROVE  LET m == Metrics(s, rates)
         IN  m.delivery \in Int /\ m.utilisation \in Int /\ m.cost \in Int
<1> DEFINE m == Metrics(s, rates)
           asked == {id \in Ids(s) : Demanded(s, id) > 0 /\ Delivery(s) > 0}
           capacity(id) == SumOver(DeliveryWeeks(s), LAMBDA w : CapacityIn(s, id, w))
           able == {id \in asked : capacity(id) > 0}
           use(id) == (10000 * Demanded(s, id)) \div capacity(id)
           f == [id \in able |-> use(id)]
           g == [id \in Ids(s) |-> Demanded(s, id) * rates[id]]
<1>1. \A id \in Ids(s) : Demanded(s, id) \in Nat
  <2>1. Backlogged(s.features, Ids(s)) BY IdsFinite DEF IsProject, Backlogged
  <2> QED BY <2>1, AllEffort DEF Demanded
<1>2. \A id \in Ids(s) : capacity(id) \in Int
  <2> TAKE id \in Ids(s)
  <2> DEFINE c == [w \in DeliveryWeeks(s) |-> CapacityIn(s, id, w)]
  <2>1. PICK r \in DOMAIN s.roles : s.roles[r].id = id BY DEF Ids
  <2>2. IndexOf(s, id) = r /\ IsRole(s.roles[r]) BY <2>1, RoleFound DEF IsProject
  <2>3. \A w \in DeliveryWeeks(s) : CapacityIn(s, id, w) \in Int
    BY <2>2, RoleCapacityInt DEF CapacityIn
  <2>4. Numbers(c) BY <2>3, DeliveryNat DEF Numbers
  <2>5. capacity(id) = SumFunction(c) BY DEF SumOver
  <2> HIDE DEF c, capacity
  <2> QED BY <2>4, <2>5, SumInt
<1>3. m.delivery = Delivery(s) BY DEF Metrics, SumOver
<1>4. m.utilisation = IF able = {} THEN 0 ELSE SumFunction(f) \div Cardinality(able) BY DEF Metrics, SumOver
<1>6. m.cost = SumFunction(g) \div Day BY DEF Metrics, SumOver
<1> HIDE DEF capacity
<1>7. Numbers(f) /\ IsFiniteSet(able)
  <2>1. IsFiniteSet(able) BY IdsFinite, FS_Subset
  <2>2. \A id \in able : use(id) \in Int
    <3> TAKE id \in able
    <3>1. capacity(id) \in Int /\ capacity(id) > 0 /\ Demanded(s, id) \in Nat BY <1>1, <1>2
    <3> DEFINE a == 10000 * Demanded(s, id)
    <3>2. a \in Int BY <3>1
    <3> HIDE DEF a
    <3>3. a \div capacity(id) \in Int BY <3>1, <3>2
    <3> QED BY <3>3 DEF a
  <2> HIDE DEF able, use
  <2> QED BY <2>1, <2>2 DEF Numbers
<1>8. Numbers(g)
  <2>1. \A id \in Ids(s) : Demanded(s, id) * rates[id] \in Int BY <1>1
  <2> QED BY <2>1, IdsFinite DEF Numbers
<1> HIDE DEF m, able, use, f, g
<1>9. SumFunction(f) \in Int /\ SumFunction(g) \in Int BY <1>7, <1>8, SumInt
<1>10. m.utilisation \in Int
  <2>1. able # {} => Cardinality(able) \in Nat /\ Cardinality(able) > 0 BY <1>7, CountIs
  <2> QED BY <1>4, <1>9, <2>1
<1>11. m.cost \in Int BY <1>6, <1>9 DEF Day
<1>12. m.delivery \in Int BY <1>3, DeliveryNat
<1> QED BY <1>10, <1>11, <1>12 DEF m


LEMMA MetricsDelivery ==
  ASSUME NEW s, NEW rates
  PROVE  Metrics(s, rates).delivery = Delivery(s)
BY DEF Metrics, SumOver

----
(* The optimiser: what is searched. *)

LEMMA BaseHeads ==
  ASSUME NEW p, IsProject(p)
  PROVE  /\ BaseCounts(p) \in Heads(p)
         /\ \A r \in DOMAIN p.roles : BaseCounts(p)[p.roles[r].id] = p.roles[r].count
<1>1. \A r \in DOMAIN p.roles :
        /\ p.roles[r].id \in Ids(p) /\ IndexOf(p, p.roles[r].id) = r /\ p.roles[r].count \in Nat \ {0}
  BY RoleFound DEF IsProject, IsRole
<1>2. BaseCounts(p) = [id \in Ids(p) |-> p.roles[IndexOf(p, id)].count] BY DEF BaseCounts
<1>3. \A id \in Ids(p) : p.roles[IndexOf(p, id)].count \in Nat \ {0}
  <2> TAKE id \in Ids(p)
  <2>1. PICK r \in DOMAIN p.roles : p.roles[r].id = id BY DEF Ids
  <2> QED BY <1>1, <2>1
<1> QED BY <1>1, <1>2, <1>3 DEF Heads

(* There are finitely many scenarios. *)
LEMMA ScenariosAre ==
  ASSUME NEW search, IsSearch(search)
  PROVE  Scenarios(search) \subseteq Heads(search.project) /\ IsFiniteSet(Scenarios(search))
<1> DEFINE p == search.project
           base == BaseCounts(p)
           g == [id \in DOMAIN search.ranges |-> search.ranges[id][2]]
           all == {1} \cup {search.ranges[id][2] : id \in DOMAIN search.ranges} \cup Range(base)
           most == Max(all)
<1>1. IsProject(p) /\ DOMAIN search.ranges \subseteq Ids(p)
      /\ \A id \in DOMAIN search.ranges : search.ranges[id] \in (Nat \ {0}) \X Nat
  BY DEF IsSearch
<1>2. base \in [Ids(p) -> Nat \ {0}] /\ IsFiniteSet(Ids(p)) BY <1>1, BaseHeads, IdsFinite DEF Heads
<1>3. most \in Int
  <2>1. IsFiniteSet({g[id] : id \in DOMAIN g}) /\ {g[id] : id \in DOMAIN g} \subseteq Int
    <3>1. DOMAIN g = DOMAIN search.ranges /\ \A id \in DOMAIN g : g[id] \in Nat BY <1>1
    <3>2. IsFiniteSet(DOMAIN g) BY <1>1, <1>2, <3>1, FS_Subset
    <3> HIDE DEF g
    <3> QED BY <3>1, <3>2, ImageFinite
  <2>2. IsFiniteSet({base[id] : id \in DOMAIN base}) /\ {base[id] : id \in DOMAIN base} \subseteq Int
    <3> HIDE DEF base
    <3>1. DOMAIN base = Ids(p) BY <1>2
    <3> QED BY <1>2, <3>1, ImageFinite
  <2>3. all = {1} \cup {g[id] : id \in DOMAIN g} \cup {base[id] : id \in DOMAIN base} BY DEF Range
  <2> HIDE DEF g, base, all
  <2>4. IsFiniteSet(all) /\ all # {} /\ all \subseteq Int
    <3> DEFINE A == {g[id] : id \in DOMAIN g}
               B == {base[id] : id \in DOMAIN base}
    <3>1. IsFiniteSet(A) /\ IsFiniteSet(B) /\ IsFiniteSet({1}) /\ A \subseteq Int /\ B \subseteq Int
      BY <2>1, <2>2, FS_Singleton
    <3>2. all = {1} \cup A \cup B BY <2>3
    <3> HIDE DEF A, B
    <3>3. IsFiniteSet({1} \cup A) BY <3>1, FS_Union
    <3>4. IsFiniteSet({1} \cup A \cup B) BY <3>1, <3>3, FS_Union
    <3> QED BY <3>1, <3>2, <3>4
  <2> QED BY <2>4, MaxMin
<1>4. Scenarios(search) \subseteq [Ids(p) -> 1 .. most] BY DEF Scenarios
<1> HIDE DEF most, base
<1>5. [Ids(p) -> 1 .. most] \subseteq [Ids(p) -> Nat \ {0}] BY <1>3
<1>6. IsFiniteSet([Ids(p) -> 1 .. most])
  <2> DEFINE X == Ids(p) \X (1 .. most)
             graph(c) == {<<id, c[id]>> : id \in Ids(p)}
             back == [G \in SUBSET X |-> [id \in Ids(p) |-> CHOOSE n \in 1 .. most : <<id, n>> \in G]]
  <2>1. IsFiniteSet(SUBSET X)
    <3>1. IsFiniteSet(1 .. most) BY <1>3, FS_Interval
    <3>2. IsFiniteSet(X) BY <1>2, <3>1, FS_Product
    <3> HIDE DEF X
    <3> QED BY <3>2, FS_SUBSET
  <2>2. [Ids(p) -> 1 .. most] \subseteq {back[G] : G \in DOMAIN back}
    <3> SUFFICES ASSUME NEW c \in [Ids(p) -> 1 .. most]
                 PROVE  graph(c) \in SUBSET X /\ back[graph(c)] = c
      BY DEF back
    <3>1. graph(c) \in SUBSET X OBVIOUS
    <3>2. \A id \in Ids(p), n \in 1 .. most : <<id, n>> \in graph(c) <=> n = c[id] OBVIOUS
    <3>3. back[graph(c)] = [id \in Ids(p) |-> CHOOSE n \in 1 .. most : <<id, n>> \in graph(c)]
      BY <3>1
    <3> HIDE DEF graph, back
    <3>4. \A id \in Ids(p) : (CHOOSE n \in 1 .. most : <<id, n>> \in graph(c)) = c[id] BY <3>2
    <3>5. [id \in Ids(p) |-> CHOOSE n \in 1 .. most : <<id, n>> \in graph(c)] = [id \in Ids(p) |-> c[id]]
      BY <3>4
    <3> QED BY <3>1, <3>3, <3>5
  <2>3. DOMAIN back = SUBSET X OBVIOUS
  <2> HIDE DEF X, back
  <2>4. IsFiniteSet({back[G] : G \in DOMAIN back}) BY <2>1, <2>3, ImageFinite
  <2> QED BY <2>2, <2>4, FS_Subset
<1>7. IsFiniteSet(Scenarios(search)) BY <1>4, <1>6, FS_Subset
<1> QED BY <1>4, <1>5, <1>7 DEF Heads

LEMMA CandidateMeasured ==
  ASSUME NEW search, IsSearch(search), NEW counts \in Heads(search.project)
  PROVE  Measured(Candidate(search, counts))
<1> DEFINE s == Scheduled(search.project, counts)
           m == Metrics(s, search.rates)
<1>1. IsProject(search.project) BY DEF IsSearch
<1>2. IsProject(s) /\ Timed(s.features) /\ Ids(s) = Ids(search.project) BY <1>1, ScheduledIs
<1>3. \A id \in Ids(s) : search.rates[id] \in Int BY <1>2 DEF IsSearch
<1>4. Candidate(search, counts).metrics = m BY DEF Candidate
<1> HIDE DEF s
<1>5. m.delivery \in Int /\ m.utilisation \in Int /\ m.cost \in Int BY <1>2, <1>3, MetricsInt
<1> QED BY <1>4, <1>5 DEF Measured

(* What is ranked first is not dominated. *)
LEMMA NothingBetter ==
  ASSUME NEW search, IsSearch(search), NEW c \in Best(search), NEW d \in Feasible(search), NoWorse(d, c)
  PROVE  d.metrics.delivery = c.metrics.delivery /\ d.metrics.utilisation = c.metrics.utilisation
<1> DEFINE all == Feasible(search)
           f == [counts \in Scenarios(search) |-> Candidate(search, counts)]
<1>1. all \subseteq {f[counts] : counts \in DOMAIN f} BY DEF Feasible
<1>2. IsFiniteSet(DOMAIN f) BY ScenariosAre
<1>3. \A counts \in DOMAIN f : Measured(f[counts]) BY ScenariosAre, CandidateMeasured
<1> HIDE DEF f
<1>4. IsFiniteSet({f[counts] : counts \in DOMAIN f}) BY <1>2, ImageFinite
<1>5. IsFiniteSet(all) /\ \A x \in all : Measured(x) BY <1>1, <1>3, <1>4, FS_Subset
<1>6. c \in FirstOf(search.mode, all) BY DEF Best
<1> HIDE DEF all
<1> QED BY <1>5, <1>6, FirstIsBest DEF all

(* What can be applied is a number of people for every role. *)
LEMMA ChoiceIs ==
  ASSUME NEW search, IsSearch(search), NEW c \in Best(search) \cup {Baseline(search)}
  PROVE  \E counts \in Heads(search.project) : c = Candidate(search, counts)
<1>1. IsProject(search.project) BY DEF IsSearch
<1>2. BaseCounts(search.project) \in Heads(search.project) BY <1>1, BaseHeads
<1>3. CASE c = Baseline(search) BY <1>2, <1>3 DEF Baseline
<1>4. CASE c \in Best(search) BY <1>4, ScenariosAre DEF Best, FirstOf, Feasible
<1> QED BY <1>3, <1>4

----
(* The optimiser: to date a schedule again changes nothing. *)

(* Effort and lengths are those of the stories. *)
LEMMA SameStories ==
  ASSUME NEW e, NEW f, SameBacklog(e, f), NEW counts, NEW floor
  PROVE  /\ \A id : EffortOf(e, id) = EffortOf(f, id)
         /\ LengthOf(counts, e, floor) = LengthOf(counts, f, floor)
<1>1. ActiveStories(e) = ActiveStories(f) BY DEF ActiveStories, SameBacklog
<1>2. \A id : EffortOf(e, id) = EffortOf(f, id) BY <1>1 DEF EffortOf, SameBacklog, SumOver
<1>3. \A k : PhaseLength(counts, e, k) = PhaseLength(counts, f, k)
  BY DEF PhaseLength, WorkIn, SameBacklog
<1>4. LengthOf(counts, e, floor) = LengthOf(counts, f, floor)
  <2> DEFINE A == ActiveStories(f)
             x == SumOver(A, LAMBDA k : PhaseLength(counts, e, k))
             y == SumOver(A, LAMBDA k : PhaseLength(counts, f, k))
  <2>1. [k \in A |-> PhaseLength(counts, e, k)] = [k \in A |-> PhaseLength(counts, f, k)] BY <1>3
  <2>2. x = y BY <2>1 DEF SumOver
  <2>3. LengthOf(counts, e, floor) =
          IF A = {} THEN TicksPerWeek
          ELSE CeilDiv(TicksPerWeek * Max({x, floor}), 5 * Day)
    BY <1>1 DEF LengthOf
  <2>4. LengthOf(counts, f, floor) =
          IF A = {} THEN TicksPerWeek
          ELSE CeilDiv(TicksPerWeek * Max({y, floor}), 5 * Day)
    BY DEF LengthOf
  <2> HIDE DEF A, x, y
  <2> QED BY <2>2, <2>3, <2>4
<1> QED BY <1>2, <1>4

(* Two backlogs that differ in their dates only. *)
LEMMA SameFloor ==
  ASSUME NEW es, NEW fs, DOMAIN es = DOMAIN fs, \A i \in DOMAIN fs : SameBacklog(es[i], fs[i]),
         NEW parallel, NEW counts
  PROVE  SpanFloor(es, parallel, counts) = SpanFloor(fs, parallel, counts)
<1>1. Active(es) = Active(fs) BY DEF Active, SameBacklog
<1>2. \A id : Effort(es, id) = Effort(fs, id)
  <2> TAKE id
  <2>1. \A i \in Active(fs) : EffortOf(es[i], id) = EffortOf(fs[i], id) BY SameStories DEF Active
  <2>2. [i \in Active(fs) |-> EffortOf(es[i], id)] = [i \in Active(fs) |-> EffortOf(fs[i], id)]
    BY <2>1
  <2> QED BY <1>1, <2>2 DEF Effort, SumOver
<1>3. {Effort(es, id) \div counts[id] : id \in DOMAIN counts} = {Effort(fs, id) \div counts[id] : id \in DOMAIN counts}
  BY <1>2
<1>4. (\A i \in Active(es) : es[i].epic \notin parallel) <=> (\A i \in Active(fs) : fs[i].epic \notin parallel)
  BY <1>1 DEF Active, SameBacklog
<1> QED BY <1>1, <1>3, <1>4 DEF SpanFloor

LEMMA DatedAgain ==
  ASSUME NEW fs, NEW ids, Backlogged(fs, ids), NEW counts \in [ids -> Nat \ {0}], NEW parallel
  PROVE  Dated(Dated(fs, parallel, counts), parallel, counts) = Dated(fs, parallel, counts)
<1> DEFINE es == Dated(fs, parallel, counts)
           ds == Dated(es, parallel, counts)
           floor == SpanFloor(fs, parallel, counts)
           length(i) == LengthOf(counts, fs[i], floor)
           before(i) == {j \in 1 .. i - 1 : fs[j].active /\ fs[i].epic \notin parallel}
           start(i) == SumOver(before(i), length)
           lengthE(i) == LengthOf(counts, es[i], SpanFloor(es, parallel, counts))
           beforeE(i) == {j \in 1 .. i - 1 : es[j].active /\ es[i].epic \notin parallel}
           startE(i) == SumOver(beforeE(i), lengthE)
<1>1. /\ es = [i \in DOMAIN fs |-> es[i]]
      /\ \A i \in DOMAIN fs : SameBacklog(es[i], fs[i])
  BY DatedIs
<1>2. DOMAIN es = DOMAIN fs BY DEF Dated
<1>3. DOMAIN fs = 1 .. Len(fs) /\ Len(fs) \in Nat BY SeqIs DEF Backlogged
<1>4. es = [i \in DOMAIN fs |-> IF fs[i].active THEN [fs[i] EXCEPT !.from = start(i), !.length = length(i)]
                                ELSE [fs[i] EXCEPT !.from = None, !.length = None]]
  BY DEF Dated
<1>5. ds = [i \in DOMAIN es |-> IF es[i].active THEN [es[i] EXCEPT !.from = startE(i), !.length = lengthE(i)]
                                ELSE [es[i] EXCEPT !.from = None, !.length = None]]
  BY DEF Dated
<1>6. SpanFloor(es, parallel, counts) = floor
  <2> HIDE DEF es
  <2> QED BY <1>1, <1>2, SameFloor
<1>7. \A i \in DOMAIN fs : lengthE(i) = length(i)
  <2> HIDE DEF es, floor
  <2> QED BY <1>1, <1>6, SameStories
<1>8. \A i \in DOMAIN fs : beforeE(i) = before(i) /\ before(i) \subseteq DOMAIN fs
  <2> TAKE i \in DOMAIN fs
  <2>1. 1 .. i - 1 \subseteq DOMAIN fs BY <1>3
  <2> HIDE DEF es
  <2>2. \A j \in 1 .. i - 1 : es[j].active = fs[j].active /\ es[i].epic = fs[i].epic
    BY <1>1, <2>1 DEF SameBacklog
  <2> QED BY <2>1, <2>2
<1>9. \A i \in DOMAIN fs : startE(i) = start(i)
  <2> TAKE i \in DOMAIN fs
  <2> HIDE DEF lengthE, length, beforeE, before
  <2>1. [j \in beforeE(i) |-> lengthE(j)] = [j \in before(i) |-> length(j)] BY <1>7, <1>8
  <2> QED BY <2>1 DEF SumOver
<1> HIDE DEF es, ds, start, length, startE, lengthE
<1>10. \A i \in DOMAIN fs : ds[i] = es[i]
  <2> TAKE i \in DOMAIN fs
  <2> DEFINE e == es[i]
             f == fs[i]
             a == start(i)
             l == length(i)
  <2>1. IsFeature(f, ids) /\ SameBacklog(e, f) BY <1>1 DEF Backlogged
  <2>2. e = IF f.active THEN Redated(f, a, l) ELSE Redated(f, None, None) BY <1>4 DEF Redated
  <2>3. ds[i] = IF e.active THEN Redated(e, a, l) ELSE Redated(e, None, None)
    BY <1>2, <1>5, <1>7, <1>9 DEF Redated
  <2> HIDE DEF e, f, a, l
  <2>4. e.active = f.active BY <2>1 DEF SameBacklog
  <2>5. \A x, y : e = Redated(f, x, y) => Redated(e, x, y) = e
    <3> SUFFICES ASSUME NEW x, NEW y, e = Redated(f, x, y)  PROVE Redated(e, x, y) = e
      OBVIOUS
    <3>1. IsFeature(e, ids) /\ e.from = x /\ e.length = y BY <2>1, FeatureDated
    <3>2. e = [epic |-> e.epic, active |-> e.active, from |-> x, length |-> y, stories |-> e.stories]
      BY <3>1 DEF IsFeature
    <3> DEFINE g == [e EXCEPT !.from = x]
    <3>3. g = e BY <3>2
    <3>4. Redated(e, x, y) = [g EXCEPT !.length = y] BY DEF Redated
    <3> QED BY <3>2, <3>3, <3>4
  <2>6. ds[i] = e BY <2>2, <2>3, <2>4, <2>5
  <2> QED BY <2>6 DEF e
<1>11. ds = [i \in DOMAIN fs |-> ds[i]] BY <1>2, <1>5
<1>12. ds = es BY <1>1, <1>10, <1>11
<1> QED BY <1>12 DEF ds, es

----
(* The optimiser: what it does to a role. *)

LEMMA RampedIs ==
  ASSUME NEW p, IsPersonal(p), NEW start \in Nat
  PROVE  LET new == Ramped(p, start)
         IN  /\ new.kind = p.kind /\ new.from = start /\ new.to = p.to /\ new.segments = p.segments
             /\ new.percent = RampPercent(p) /\ new.percent \in 0 .. 100
             /\ IsPersonal(new)
<1> DEFINE new == Ramped(p, start)
           n == RampPercent(p)
<1>1. p = [kind |-> p.kind, basis |-> p.basis, source |-> p.source, transferred |-> p.transferred,
           percent |-> p.percent, from |-> p.from, to |-> p.to, segments |-> p.segments, provenance |-> p.provenance]
  BY DEF IsPersonal
<1>2. n \in 0 .. 100 BY DEF IsPersonal, RampPercent, Or
<1>3. new = [p EXCEPT !.basis = "availabilityWindow", !.source = "derived", !.provenance = "optimiser",
                      !.percent = n, !.from = start]
  BY DEF Ramped
<1> HIDE DEF n
<1>4. new = [kind |-> p.kind, basis |-> "availabilityWindow", source |-> "derived", transferred |-> p.transferred,
             percent |-> n, from |-> start, to |-> p.to, segments |-> p.segments, provenance |-> "optimiser"]
  <2> DEFINE a == [p EXCEPT !.basis = "availabilityWindow"]
             b == [a EXCEPT !.source = "derived"]
             c == [b EXCEPT !.provenance = "optimiser"]
             d == [c EXCEPT !.percent = n]
  <2>1. new = [d EXCEPT !.from = start] BY <1>3
  <2> HIDE DEF new
  <2>2. a = [kind |-> p.kind, basis |-> "availabilityWindow", source |-> p.source, transferred |-> p.transferred,
             percent |-> p.percent, from |-> p.from, to |-> p.to, segments |-> p.segments, provenance |-> p.provenance]
    BY <1>1
  <2> HIDE DEF a
  <2>3. b = [kind |-> p.kind, basis |-> "availabilityWindow", source |-> "derived", transferred |-> p.transferred,
             percent |-> p.percent, from |-> p.from, to |-> p.to, segments |-> p.segments, provenance |-> p.provenance]
    BY <2>2
  <2> HIDE DEF b
  <2>4. c = [kind |-> p.kind, basis |-> "availabilityWindow", source |-> "derived", transferred |-> p.transferred,
             percent |-> p.percent, from |-> p.from, to |-> p.to, segments |-> p.segments, provenance |-> "optimiser"]
    BY <2>3
  <2> HIDE DEF c
  <2>5. d = [kind |-> p.kind, basis |-> "availabilityWindow", source |-> "derived", transferred |-> p.transferred,
             percent |-> n, from |-> p.from, to |-> p.to, segments |-> p.segments, provenance |-> "optimiser"]
    BY <2>4
  <2> HIDE DEF d
  <2> QED BY <2>1, <2>5
<1> HIDE DEF new
<1>5. /\ new.kind = p.kind /\ new.from = start /\ new.to = p.to /\ new.segments = p.segments /\ new.percent = n
      /\ new = [kind |-> new.kind, basis |-> new.basis, source |-> new.source, transferred |-> new.transferred,
                percent |-> new.percent, from |-> new.from, to |-> new.to, segments |-> new.segments,
                provenance |-> new.provenance]
  BY <1>4
<1>6. IsProfile(new)
  <2>1. HasSegments(new) BY <1>5 DEF IsPersonal, IsProfile, HasSegments
  <2>2. {new.percent, new.from, new.to} \subseteq Nat \cup {None}
    BY <1>2, <1>5 DEF IsPersonal, IsProfile
  <2> QED BY <2>1, <2>2 DEF IsProfile
<1>7. IsPersonal(new) BY <1>2, <1>5, <1>6 DEF IsPersonal
<1> QED BY <1>2, <1>5, <1>7 DEF new, n

(* The person who ramps up. *)
LEMMA RampsUp ==
  ASSUME NEW role, IsRole(role), NEW i \in DOMAIN role.people, Writable(role.people[i])
  PROVE  LET p == TheProfile(role.people[i].profiles)
         IN  /\ IsPersonal(p) /\ p.kind = "NAMED_PERSON" /\ p.segments = <<>>
             /\ role.people[i].profiles = {p}
<1> DEFINE S == role.people[i].profiles
           p == TheProfile(S)
<1>1. IsFiniteSet(S) /\ Cardinality(S) = 1 /\ \A x \in S : IsPersonal(x) BY DEF IsRole, Resolvable
<1>2. p \in S /\ S = {p} BY <1>1, OneProfile
<1>3. p.kind = "NAMED_PERSON" /\ p.segments = <<>> BY DEF Writable
<1> QED BY <1>1, <1>2, <1>3

(* The percent of somebody without segments of their own. *)
LEMMA WindowPercent ==
  ASSUME NEW role, NEW q, NEW p, p = TheProfile(q.profiles), p.kind = "NAMED_PERSON", p.segments = <<>>, NEW w
  PROVE  PercentAt(PersonSegments(role, q), w) =
           IF Or(p.from, 0) <= w /\ w <= Or(p.to, Forever) THEN Or(p.percent, 100) ELSE 0
<1> DEFINE win == Window(Or(p.from, 0), Or(p.to, Forever), Or(p.percent, 100))
<1>1. PersonSegments(role, q) = <<win>> BY DEF PersonSegments, Suppressed, Segments
<1>2. win.percent = Or(p.percent, 100) /\ (Covers(win, w) <=> Or(p.from, 0) <= w /\ w <= Or(p.to, Forever))
  BY DEF Window, Covers
<1> HIDE DEF win
<1> QED BY <1>1, <1>2, OneSegment

(* Somebody is away until the start, then as before or more, and leaves no
   later. *)
NoLess(old, before, new, after, start) ==
  LET was(w) == PercentAt(PersonSegments(old, before), w)
      now(w) == PercentAt(PersonSegments(new, after), w)
  IN  /\ \A w \in Nat : w < start => now(w) = 0
      /\ \A w \in Nat : w >= start => now(w) >= was(w)
      /\ \A h \in Nat : (\E w \in 0 .. h : was(w) > 0) /\ was(h) = 0 => now(h) = 0

LEMMA RampKeeps ==
  ASSUME NEW role, IsRole(role), NEW i \in DOMAIN role.people, Writable(role.people[i]), NEW start \in Nat,
         NEW new, NEW q, q = [profiles |-> {Ramped(TheProfile(role.people[i].profiles), start)}]
  PROVE  NoLess(role, role.people[i], new, q, start)
<1> DEFINE p == TheProfile(role.people[i].profiles)
           n == Ramped(p, start)
           was(w) == PercentAt(PersonSegments(role, role.people[i]), w)
           now(w) == PercentAt(PersonSegments(new, q), w)
           from == Or(p.from, 0)
           to == Or(p.to, Forever)
           percent == Or(p.percent, 100)
           full == RampPercent(p)
<1>1. IsPersonal(p) /\ p.kind = "NAMED_PERSON" /\ p.segments = <<>> BY RampsUp
<1>2. /\ n.kind = "NAMED_PERSON" /\ n.from = start /\ n.to = p.to /\ n.segments = <<>>
      /\ n.percent = full /\ full \in 0 .. 100
  <2> HIDE DEF p
  <2> QED BY <1>1, RampedIs
<1>3. n = TheProfile(q.profiles)
  <2> HIDE DEF n
  <2>1. q.profiles = {n} BY DEF n
  <2> QED BY <2>1 DEF TheProfile
<1>4. from \in Nat /\ to \in Nat /\ percent \in 0 .. 100 /\ percent <= full
  <2>1. percent \in 0 .. 100 /\ (full = 100 \/ full = percent)
    BY <1>1 DEF IsPersonal, RampPercent, Or
  <2> HIDE DEF percent, full
  <2>2. percent <= full BY <2>1
  <2> QED BY <1>1, <2>1, <2>2, ViewAssumption DEF IsPersonal, IsProfile, Or
<1>5. \A w : was(w) = IF from <= w /\ w <= to THEN percent ELSE 0
  <2> TAKE w
  <2> QED BY <1>1, WindowPercent
<1>6. \A w : now(w) = IF start <= w /\ w <= to THEN full ELSE 0
  <2> TAKE w
  <2>1. Or(n.from, 0) = start /\ Or(n.to, Forever) = to /\ Or(n.percent, 100) = full
    <3> HIDE DEF n, full
    <3>1. start # None /\ full # None
      <4>1. full \in Nat BY <1>2
      <4>2. None \notin Nat BY ViewAssumption
      <4> QED BY <4>1, <4>2
    <3> QED BY <1>2, <3>1 DEF Or
  <2> HIDE DEF n
  <2>2. now(w) = IF Or(n.from, 0) <= w /\ w <= Or(n.to, Forever) THEN Or(n.percent, 100) ELSE 0
    BY <1>2, <1>3, WindowPercent
  <2> QED BY <2>1, <2>2
<1> HIDE DEF was, now, from, to, percent, full
<1>7. \A w \in Nat : w < start => now(w) = 0 BY <1>6
<1>8. \A w \in Nat : w >= start => now(w) >= was(w) BY <1>2, <1>4, <1>5, <1>6
<1>9. \A h \in Nat : (\E w \in 0 .. h : was(w) > 0) /\ was(h) = 0 => now(h) = 0 BY <1>4, <1>5, <1>6
<1> QED BY <1>7, <1>8, <1>9 DEF NoLess, was, now

(* A role after an application. *)
LEMMA RoleAppliedIs ==
  ASSUME NEW role, IsRole(role), NEW c, NEW scope, RoleApplicable(role, c, scope),
         c.counts[role.id] \in Nat \ {0}, c.starts[role.id] \in Nat
  PROVE  LET new == RoleApplied(role, c, scope)
             start == c.starts[role.id]
             ramped == ToRamp(role, start, scope)
         IN  /\ IsRole(new) /\ new.id = role.id /\ new.count = c.counts[role.id]
             /\ DOMAIN new.people = DOMAIN role.people
             /\ \A i \in DOMAIN role.people :
                  IF i \in ramped
                  THEN /\ Writable(role.people[i])
                       /\ new.people[i] = [profiles |-> {Ramped(TheProfile(role.people[i].profiles), start)}]
                  ELSE new.people[i] = role.people[i]
             /\ PlannerManaged(role) => new = role
             /\ start = 0 => new = [role EXCEPT !.count = c.counts[role.id]]
             /\ RoleApplicable(new, c, scope) /\ RoleApplied(new, c, scope) = new
<1> DEFINE new == RoleApplied(role, c, scope)
           start == c.starts[role.id]
           n == c.counts[role.id]
           ramped == ToRamp(role, start, scope)
           old(i) == TheProfile(role.people[i].profiles)
           people == [i \in DOMAIN role.people |->
                        IF i \in ramped THEN [profiles |-> {Ramped(old(i), start)}] ELSE role.people[i]]
<1>1. new = [role EXCEPT !.count = n, !.people = people] BY DEF RoleApplied
<1>2. \A i \in ramped : i \in DOMAIN role.people /\ Writable(role.people[i])
  BY DEF RoleApplicable, ToRamp
<1>3. PlannerManaged(role) => n = role.count /\ ramped = {} BY DEF RoleApplicable
<1>4. start = 0 => ramped = {} BY DEF ToRamp
<1>5. \A i : i \in ramped <=> /\ i \in DOMAIN role.people /\ start > 0 /\ role.id \in scope
                              /\ ~StartsThen(role.people[i], start)
  BY DEF ToRamp
<1>6. role = [id |-> role.id, name |-> role.name, profiles |-> role.profiles, people |-> role.people,
              count |-> role.count, plan |-> role.plan]
  BY DEF IsRole
<1>7. start \in Nat /\ n \in Nat \ {0} OBVIOUS
<1>8. role.people = [i \in DOMAIN role.people |-> role.people[i]] /\ InSeq(role.people)
      /\ Len(role.people) \in Nat /\ DOMAIN role.people = 1 .. Len(role.people)
  BY SeqIs DEF IsRole, InSeq
<1>9. ramped = {} => people = role.people
  <2> HIDE DEF ramped, old
  <2> QED BY <1>8
<1>10. DOMAIN people = DOMAIN role.people
       /\ \A i \in DOMAIN role.people :
            people[i] = IF i \in ramped THEN [profiles |-> {Ramped(old(i), start)}] ELSE role.people[i]
  OBVIOUS
<1> HIDE DEF new, start, n, ramped, people
<1>11. new = [id |-> role.id, name |-> role.name, profiles |-> role.profiles, people |-> people,
              count |-> n, plan |-> role.plan]
  <2> DEFINE a == [role EXCEPT !.count = n]
  <2>1. a = [id |-> role.id, name |-> role.name, profiles |-> role.profiles, people |-> role.people,
             count |-> n, plan |-> role.plan]
    BY <1>6
  <2>2. new = [a EXCEPT !.people = people] BY <1>1
  <2> HIDE DEF a
  <2> QED BY <2>1, <2>2
<1>12. /\ new.id = role.id /\ new.profiles = role.profiles /\ new.people = people /\ new.count = n
       /\ new.plan = role.plan
       /\ new = [id |-> new.id, name |-> new.name, profiles |-> new.profiles, people |-> new.people,
                 count |-> new.count, plan |-> new.plan]
  BY <1>11
<1>13. ASSUME NEW i \in ramped
       PROVE  LET p == Ramped(old(i), start)
              IN  /\ people[i] = [profiles |-> {p}] /\ IsPersonal(p) /\ p.kind = "NAMED_PERSON"
                  /\ StartsThen(people[i], start)
  <2> DEFINE o == old(i)
             p == Ramped(o, start)
  <2>1. i \in DOMAIN role.people /\ Writable(role.people[i]) BY <1>2
  <2>2. IsPersonal(o) /\ o.kind = "NAMED_PERSON" BY <2>1, RampsUp
  <2>3. people[i] = [profiles |-> {p}] BY <1>10, <2>1
  <2> HIDE DEF o
  <2>4. IsPersonal(p) /\ p.kind = "NAMED_PERSON" /\ p.from = start BY <1>7, <2>2, RampedIs
  <2> HIDE DEF p
  <2>5. people[i].profiles = {p} BY <2>3
  <2>6. Cardinality({p}) = 1 /\ TheProfile({p}) = p BY FS_Singleton DEF TheProfile
  <2>7. StartsThen(people[i], start) BY <2>4, <2>5, <2>6 DEF StartsThen
  <2> QED BY <2>3, <2>4, <2>7 DEF p, o
<1>14. \A i \in DOMAIN role.people :
         /\ people[i] = [profiles |-> people[i].profiles] /\ IsFiniteSet(people[i].profiles)
         /\ Cardinality(people[i].profiles) = 1
         /\ \A p \in people[i].profiles : IsPersonal(p)
         /\ (\A p \in role.people[i].profiles : p.kind = "NAMED_PERSON")
              => \A p \in people[i].profiles : p.kind = "NAMED_PERSON"
  <2> TAKE i \in DOMAIN role.people
  <2>1. CASE i \in ramped
    <3> DEFINE p == Ramped(old(i), start)
    <3>1. people[i] = [profiles |-> {p}] /\ IsPersonal(p) /\ p.kind = "NAMED_PERSON" BY <1>13, <2>1
    <3> HIDE DEF p
    <3>2. people[i].profiles = {p} BY <3>1
    <3>3. IsFiniteSet({p}) /\ Cardinality({p}) = 1 BY FS_Singleton
    <3> QED BY <3>1, <3>2, <3>3
  <2>2. CASE i \notin ramped
    <3>1. people[i] = role.people[i] BY <1>10, <2>2
    <3> QED BY <3>1 DEF IsRole, Resolvable
  <2> QED BY <2>1, <2>2
<1>15. InSeq(people)
  <2> DEFINE m == Len(role.people)
  <2>1. m \in Nat /\ DOMAIN people = 1 .. m BY <1>8, <1>10
  <2>2. people = [i \in 1 .. m |-> people[i]] BY <1>8 DEF people
  <2> HIDE DEF m
  <2>3. \A i \in 1 .. m : people[i] \in Range(people) BY <2>1 DEF Range
  <2> QED BY <2>1, <2>2, <2>3 DEF InSeq
<1>16. Resolvable(new)
  <2>1. \A i \in DOMAIN people : Cardinality(people[i].profiles) = 1 BY <1>10, <1>14
  <2>2. Cardinality(role.profiles) <= 1 BY DEF IsRole, Resolvable
  <2>3. role.profiles = {} =>
          /\ DOMAIN people # {}
          /\ \A i \in DOMAIN people : \A p \in people[i].profiles : p.kind = "NAMED_PERSON"
    BY <1>10, <1>14 DEF IsRole, Resolvable
  <2> QED BY <1>12, <2>1, <2>2, <2>3 DEF Resolvable
<1>17. IsRole(new)
  <2>1. new.count \in Nat \ {0} /\ InSeq(new.people) BY <1>7, <1>12, <1>15
  <2>2. IsFiniteSet(new.profiles) /\ \A p \in new.profiles : IsProfile(p) BY <1>12 DEF IsRole
  <2>3. \A i \in DOMAIN new.people :
          /\ new.people[i] = [profiles |-> new.people[i].profiles] /\ IsFiniteSet(new.people[i].profiles)
          /\ \A p \in new.people[i].profiles : IsPersonal(p)
    BY <1>10, <1>12, <1>14
  <2> QED BY <1>12, <1>16, <2>1, <2>2, <2>3 DEF IsRole
<1>18. PlannerManaged(role) => new = role BY <1>3, <1>6, <1>9, <1>11
<1>19. start = 0 => new = [role EXCEPT !.count = n] BY <1>4, <1>6, <1>9, <1>11
<1>20. ToRamp(new, start, scope) = {}
  <2>1. ASSUME NEW i \in DOMAIN people, start > 0, role.id \in scope  PROVE StartsThen(people[i], start)
    <3>1. CASE i \in ramped BY <1>13, <3>1
    <3>2. CASE i \notin ramped BY <1>5, <1>10, <2>1, <3>2
    <3> QED BY <3>1, <3>2
  <2> QED BY <1>12, <2>1 DEF ToRamp
<1>21. c.counts[new.id] = n /\ c.starts[new.id] = start BY <1>12 DEF n, start
<1>22. RoleApplicable(new, c, scope) BY <1>12, <1>20, <1>21 DEF RoleApplicable
<1>23. RoleApplied(new, c, scope) = new
  <2>1. RoleApplied(new, c, scope) = [new EXCEPT !.count = n, !.people = [i \in DOMAIN people |-> people[i]]]
    BY <1>12, <1>20, <1>21 DEF RoleApplied
  <2>2. [i \in DOMAIN people |-> people[i]] = people BY <1>10 DEF people
  <2>3. [new EXCEPT !.count = n, !.people = people] = new
    <3> DEFINE a == [new EXCEPT !.count = n]
    <3>1. a = new BY <1>12
    <3>2. [new EXCEPT !.count = n, !.people = people] = [a EXCEPT !.people = people] OBVIOUS
    <3> QED BY <1>12, <3>1, <3>2
  <2> QED BY <2>1, <2>2, <2>3
<1>24. \A i \in DOMAIN role.people :
         IF i \in ramped THEN Writable(role.people[i]) /\ new.people[i] = [profiles |-> {Ramped(old(i), start)}]
                         ELSE new.people[i] = role.people[i]
  BY <1>2, <1>10, <1>12
<1> QED BY <1>10, <1>12, <1>17, <1>18, <1>19, <1>22, <1>23, <1>24 DEF new, start, n, ramped

----
(* The optimiser: what it does to a project. *)

(* A start week is a week. *)
LEMMA StartsNat ==
  ASSUME NEW search, IsSearch(search)
  PROVE  SuggestedStarts(search) \in [Ids(search.project) -> Nat]
<1> DEFINE p == search.project
           s == Scheduled(p, BaseCounts(p))
<1>1. IsProject(p) BY DEF IsSearch
<1>2. Timed(s.features) BY <1>1, BaseHeads, ScheduledIs
<1>3. \A i \in Entries(s.features) : WeeksOf(s.features[i]) \subseteq Nat
  <2> HIDE DEF s
  <2> TAKE i \in Entries(s.features)
  <2> DEFINE e == s.features[i]
  <2>1. e.from \in Nat /\ e.length \in Nat BY <1>2 DEF Entries, Active, Timed
  <2> HIDE DEF e
  <2>2. e.from \div TicksPerWeek \in Nat /\ CeilDiv(e.from + e.length, TicksPerWeek) - 1 \in Int
    BY <2>1, ViewAssumption DEF CeilDiv
  <2>3. WeeksOf(e) \subseteq e.from \div TicksPerWeek .. CeilDiv(e.from + e.length, TicksPerWeek) - 1
    BY DEF WeeksOf
  <2>4. WeeksOf(e) \subseteq Nat BY <2>2, <2>3
  <2> QED BY <2>4 DEF e
<1>4. \A id : FirstWeek(p, id) \in Nat
  <2> TAKE id
  <2> DEFINE weeks == Used(s, id)
  <2>1. weeks \subseteq Nat BY <1>3 DEF Used
  <2>2. FirstWeek(p, id) = IF weeks = {} THEN 0 ELSE Min(weeks) BY DEF FirstWeek
  <2> HIDE DEF weeks
  <2>3. weeks # {} => Min(weeks) \in weeks BY <2>1, LeastNumber DEF Min
  <2>4. CASE weeks = {} BY <2>2, <2>4
  <2>5. CASE weeks # {}
    <3>1. FirstWeek(p, id) = Min(weeks) BY <2>2, <2>5
    <3> HIDE DEF p
    <3> QED BY <2>1, <2>3, <2>5, <3>1
  <2> QED BY <2>4, <2>5
<1> QED BY <1>4 DEF SuggestedStarts

(* Roles that have their numbers of people already. *)
LEMMA CountsStay ==
  ASSUME NEW p, IsProject(p), NEW counts \in Heads(p),
         \A r \in DOMAIN p.roles : p.roles[r].count = counts[p.roles[r].id]
  PROVE  BaseCounts(p) = counts /\ WithCounts(p.roles, counts) = p.roles
<1>1. BaseCounts(p) = counts
  <2>1. BaseCounts(p) \in Heads(p) BY BaseHeads
  <2>2. \A id \in Ids(p) : BaseCounts(p)[id] = counts[id] BY BaseHeads DEF Ids
  <2> QED BY <2>1, <2>2 DEF Heads
<1>2. WithCounts(p.roles, counts) = p.roles
  <2> DEFINE roles == WithCounts(p.roles, counts)
  <2>1. roles = [r \in DOMAIN p.roles |-> [p.roles[r] EXCEPT !.count = counts[p.roles[r].id]]]
    BY DEF WithCounts
  <2>2. \A r \in DOMAIN p.roles : [p.roles[r] EXCEPT !.count = counts[p.roles[r].id]] = p.roles[r]
    <3> TAKE r \in DOMAIN p.roles
    <3> DEFINE role == p.roles[r]
               n == counts[p.roles[r].id]
    <3>1. role = [id |-> role.id, name |-> role.name, profiles |-> role.profiles, people |-> role.people,
                  count |-> role.count, plan |-> role.plan] /\ role.count = n
      BY DEF IsProject, IsRole
    <3> HIDE DEF role, n
    <3>2. [role EXCEPT !.count = n] = role BY <3>1
    <3> QED BY <3>2 DEF role, n
  <2>3. roles = [r \in DOMAIN p.roles |-> p.roles[r]] BY <2>1, <2>2
  <2>4. p.roles = [r \in DOMAIN p.roles |-> p.roles[r]] BY DEF IsProject, InSeq
  <2> QED BY <2>3, <2>4
<1> QED BY <1>1, <1>2

LEMMA AppliedIs ==
  ASSUME NEW p, IsProject(p), NEW c, c.counts \in Heads(p), c.starts \in [Ids(p) -> Nat],
         NEW scope, Applicable(p, c, scope)
  PROVE  LET s == Applied(p, c, scope)
         IN  /\ Delivery(s) = Delivery(Scheduled(p, c.counts))
             /\ DOMAIN s.roles = DOMAIN p.roles
             /\ \A r \in DOMAIN p.roles : s.roles[r] = RoleApplied(p.roles[r], c, scope)
             /\ (\A id \in Ids(p) : c.starts[id] = 0) => s = Scheduled(p, c.counts)
             /\ Applicable(s, c, scope) /\ Applied(s, c, scope) = s
<1> DEFINE w(r) == RoleApplied(p.roles[r], c, scope)
           roles == [r \in DOMAIN p.roles |-> w(r)]
           counts == c.counts
           written == [p EXCEPT !.roles = roles]
           s == Applied(p, c, scope)
           fs == Dated(p.features, p.parallel, counts)
<1>1. \A r \in DOMAIN p.roles :
        /\ IsRole(w(r)) /\ w(r).id = p.roles[r].id /\ w(r).count = counts[p.roles[r].id]
        /\ c.starts[p.roles[r].id] = 0 => w(r) = [p.roles[r] EXCEPT !.count = counts[p.roles[r].id]]
        /\ RoleApplicable(w(r), c, scope) /\ RoleApplied(w(r), c, scope) = w(r)
  <2> TAKE r \in DOMAIN p.roles
  <2> DEFINE role == p.roles[r]
  <2>1. IsRole(role) /\ role.id \in Ids(p) /\ RoleApplicable(role, c, scope)
    BY DEF IsProject, Ids, Applicable
  <2>2. c.counts[role.id] \in Nat \ {0} /\ c.starts[role.id] \in Nat BY <2>1 DEF Heads
  <2> HIDE DEF role
  <2>3. LET new == RoleApplied(role, c, scope)
        IN  /\ IsRole(new) /\ new.id = role.id /\ new.count = c.counts[role.id]
            /\ c.starts[role.id] = 0 => new = [role EXCEPT !.count = c.counts[role.id]]
            /\ RoleApplicable(new, c, scope) /\ RoleApplied(new, c, scope) = new
    BY <2>1, <2>2, RoleAppliedIs
  <2> QED BY <2>3 DEF role
<1> HIDE DEF w
<1>2. DOMAIN roles = DOMAIN p.roles /\ roles = [r \in DOMAIN p.roles |-> roles[r]]
      /\ \A r \in DOMAIN p.roles : roles[r] = w(r)
  OBVIOUS
<1> HIDE DEF roles
<1>3. p = [roles |-> p.roles, features |-> p.features, cache |-> p.cache, parallel |-> p.parallel,
           buffer |-> p.buffer, onboarding |-> p.onboarding, overheads |-> p.overheads]
  BY DEF IsProject
<1>4. written = [roles |-> roles, features |-> p.features, cache |-> p.cache, parallel |-> p.parallel,
                 buffer |-> p.buffer, onboarding |-> p.onboarding, overheads |-> p.overheads]
  BY <1>3
<1>5. s = Scheduled(written, BaseCounts(written)) BY DEF Applied, roles, w
<1> HIDE DEF written, s
<1>6. /\ written.roles = roles /\ written.features = p.features /\ written.parallel = p.parallel
      /\ written.buffer = p.buffer /\ written.onboarding = p.onboarding /\ written.overheads = p.overheads
      /\ written = [roles |-> written.roles, features |-> written.features, cache |-> written.cache,
                    parallel |-> written.parallel, buffer |-> written.buffer,
                    onboarding |-> written.onboarding, overheads |-> written.overheads]
  BY <1>4
<1>7. Ids(written) = Ids(p)
  <2>1. DOMAIN written.roles = DOMAIN p.roles /\ \A r \in DOMAIN p.roles : written.roles[r].id = p.roles[r].id
    BY <1>1, <1>2, <1>6
  <2> QED BY <2>1 DEF Ids
<1>8. InSeq(roles)
  <2> DEFINE m == Len(p.roles)
  <2>1. m \in Nat /\ DOMAIN roles = 1 .. m /\ roles = [r \in 1 .. m |-> roles[r]] BY <1>2, IdsFinite
  <2> HIDE DEF m
  <2>2. \A r \in 1 .. m : roles[r] \in Range(roles) BY <2>1 DEF Range
  <2> QED BY <2>1, <2>2 DEF InSeq
<1>9. IsProject(written)
  <2>1. \A r \in DOMAIN roles : IsRole(roles[r]) /\ roles[r].id = p.roles[r].id BY <1>1, <1>2
  <2>2. \A r, q \in DOMAIN roles : roles[r].id = roles[q].id => r = q BY <1>2, <2>1 DEF IsProject
  <2> QED BY <1>6, <1>7, <1>8, <2>1, <2>2 DEF IsProject
<1>10. counts \in Heads(written) /\ counts \in [Ids(p) -> Nat \ {0}] BY <1>7 DEF Heads
<1>11. \A r \in DOMAIN roles : roles[r].count = counts[roles[r].id] BY <1>1, <1>2
<1> HIDE DEF counts
<1>12. BaseCounts(written) = counts /\ WithCounts(roles, counts) = roles
  BY <1>6, <1>9, <1>10, <1>11, CountsStay
<1>13. /\ s = [roles |-> roles, features |-> fs, cache |-> <<>>, parallel |-> p.parallel, buffer |-> p.buffer,
               onboarding |-> p.onboarding, overheads |-> p.overheads]
       /\ IsProject(s) /\ Ids(s) = Ids(p)
  <2> DEFINE q == Scheduled(written, counts)
  <2>1. s = q BY <1>5, <1>12
  <2>2. /\ q = [roles |-> WithCounts(written.roles, counts), features |-> Dated(written.features, written.parallel, counts),
                cache |-> <<>>, parallel |-> written.parallel, buffer |-> written.buffer,
                onboarding |-> written.onboarding, overheads |-> written.overheads]
        /\ IsProject(q) /\ Ids(q) = Ids(written)
    BY <1>9, <1>10, ScheduledIs
  <2> HIDE DEF q
  <2> QED BY <1>6, <1>7, <1>12, <2>1, <2>2
<1> HIDE DEF fs
<1>14. s.roles = roles /\ s.features = fs /\ s.cache = <<>> /\ s.parallel = p.parallel /\ s.buffer = p.buffer
       /\ s.onboarding = p.onboarding /\ s.overheads = p.overheads
  BY <1>13
<1>15. Scheduled(p, counts) = [roles |-> WithCounts(p.roles, counts), features |-> fs, cache |-> <<>>,
                               parallel |-> p.parallel, buffer |-> p.buffer,
                               onboarding |-> p.onboarding, overheads |-> p.overheads]
  <2>1. counts \in Heads(p) BY <1>10 DEF Heads
  <2> QED BY <2>1, ScheduledIs DEF fs
<1>16. Delivery(s) = Delivery(Scheduled(p, counts)) BY <1>14, <1>15 DEF Delivery
<1>17. ASSUME \A id \in Ids(p) : c.starts[id] = 0  PROVE s = Scheduled(p, counts)
  <2>1. \A r \in DOMAIN p.roles : roles[r] = [p.roles[r] EXCEPT !.count = counts[p.roles[r].id]]
    BY <1>1, <1>2, <1>17 DEF Ids
  <2>2. roles = WithCounts(p.roles, counts) BY <1>2, <2>1 DEF WithCounts
  <2> QED BY <1>13, <1>15, <2>2
<1>18. Applicable(s, c, scope) BY <1>1, <1>2, <1>14 DEF Applicable
<1>19. Applied(s, c, scope) = s
  <2> DEFINE again == [r \in DOMAIN s.roles |-> RoleApplied(s.roles[r], c, scope)]
             t == [s EXCEPT !.roles = again]
  <2>1. again = roles
    <3>1. \A r \in DOMAIN p.roles : RoleApplied(roles[r], c, scope) = roles[r] BY <1>1, <1>2
    <3> QED BY ONLY <1>2, <1>14, <3>1
  <2>2. t = s
    <3> HIDE DEF again
    <3> QED BY <1>13, <1>14, <2>1
  <2>3. Applied(s, c, scope) = Scheduled(t, BaseCounts(t)) BY DEF Applied
  <2> HIDE DEF t
  <2>4. counts \in Heads(s) /\ BaseCounts(s) = counts
    <3>1. counts \in Heads(s) BY <1>10, <1>13 DEF Heads
    <3> QED BY <1>11, <1>13, <1>14, <3>1, CountsStay
  <2>5. Scheduled(s, counts) = s
    <3>1. Scheduled(s, counts) =
            [roles |-> WithCounts(s.roles, counts), features |-> Dated(s.features, s.parallel, counts),
             cache |-> <<>>, parallel |-> s.parallel, buffer |-> s.buffer,
             onboarding |-> s.onboarding, overheads |-> s.overheads]
      BY <1>13, <2>4, ScheduledIs
    <3>2. Backlogged(p.features, Ids(p)) BY IdsFinite DEF IsProject, Backlogged
    <3>3. Dated(fs, p.parallel, counts) = fs BY <1>10, <3>2, DatedAgain DEF fs
    <3> QED BY <1>12, <1>13, <1>14, <3>1, <3>3
  <2> QED BY <2>2, <2>3, <2>4, <2>5
<1>20. DOMAIN s.roles = DOMAIN p.roles /\ \A r \in DOMAIN p.roles : s.roles[r] = w(r) BY <1>2, <1>14
<1> QED BY <1>16, <1>17, <1>18, <1>19, <1>20 DEF s, w, counts

(* What a role is after an application, week by week. *)
LEMMA RoleKeeps ==
  ASSUME NEW role, IsRole(role), NEW c, NEW scope, RoleApplicable(role, c, scope),
         c.counts[role.id] \in Nat \ {0}, c.starts[role.id] \in Nat
  PROVE  LET new == RoleApplied(role, c, scope)
         IN  /\ new.id = role.id /\ (PlannerManaged(role) => role = new)
             /\ \A i \in DOMAIN new.people : new.people[i] # role.people[i] =>
                  NoLess(role, role.people[i], new, new.people[i], c.starts[role.id])
<1> DEFINE new == RoleApplied(role, c, scope)
           start == c.starts[role.id]
           ramped == ToRamp(role, start, scope)
<1>1. /\ new.id = role.id /\ DOMAIN new.people = DOMAIN role.people
      /\ \A i \in DOMAIN role.people :
           IF i \in ramped
           THEN /\ Writable(role.people[i])
                /\ new.people[i] = [profiles |-> {Ramped(TheProfile(role.people[i].profiles), start)}]
           ELSE new.people[i] = role.people[i]
      /\ PlannerManaged(role) => new = role
  BY RoleAppliedIs
<1>2. start \in Nat OBVIOUS
<1> HIDE DEF new, start, ramped
<1>3. ASSUME NEW i \in DOMAIN new.people, new.people[i] # role.people[i]
      PROVE  NoLess(role, role.people[i], new, new.people[i], start)
  <2> DEFINE q == new.people[i]
  <2>1. i \in DOMAIN role.people /\ Writable(role.people[i])
        /\ q = [profiles |-> {Ramped(TheProfile(role.people[i].profiles), start)}]
    BY <1>1, <1>3
  <2> HIDE DEF q
  <2>2. NoLess(role, role.people[i], new, q, start) BY <1>2, <2>1, RampKeeps
  <2> QED BY <2>2 DEF q
<1> QED BY <1>1, <1>3 DEF new, start
----
(* More about sums. *)

(* What is 0 may be left out of a sum. *)
LEMMA SumSupport ==
  ASSUME NEW f, Numbers(f), NEW e, DOMAIN e \subseteq DOMAIN f, \A x \in DOMAIN e : e[x] = f[x],
         \A x \in DOMAIN f : x \notin DOMAIN e => f[x] = 0
  PROVE  SumFunction(f) = SumFunction(e)
<1> DEFINE h(s) == [x \in DOMAIN e \cup s |-> f[x]]
           F == {s \in SUBSET (DOMAIN f \ DOMAIN e) : SumFunction(h(s)) # SumFunction(h({}))}
           D == DOMAIN f \ DOMAIN e
<1>1. F = {}
  <2> SUFFICES ASSUME F # {}  PROVE FALSE OBVIOUS
  <2>0. IsFiniteSet(D) /\ F \subseteq SUBSET D BY CountIs DEF Numbers
  <2>1. PICK s \in F : \A x \in s : s \ {x} \notin F
    <3> HIDE DEF F, D
    <3> QED BY <2>0, Minimal
  <2>2. s \in SUBSET D /\ SumFunction(h(s)) # SumFunction(h({})) BY <2>1
  <2>3. s # {} BY <2>2
  <2>4. PICK x \in s : TRUE BY <2>3
  <2>5. s \ {x} \notin F BY <2>1, <2>4
  <2>6. SumFunction(h(s \ {x})) = SumFunction(h({})) BY <2>2, <2>5
  <2> DEFINE a == h(s)
             b == h(s \ {x})
  <2>7. /\ DOMAIN a = DOMAIN e \cup s /\ DOMAIN b = DOMAIN a \ {x} /\ x \in DOMAIN a
        /\ (\A y \in DOMAIN b : b[y] = a[y]) /\ (\A y \in DOMAIN a : a[y] = f[y]) /\ a[x] = 0
    BY <2>2, <2>4
  <2>8. DOMAIN a \subseteq DOMAIN f BY <2>2, <2>7
  <2> HIDE DEF a, b, F, D
  <2>9. Numbers(a) /\ Numbers(b)
    <3>1. IsFiniteSet(DOMAIN a) /\ IsFiniteSet(DOMAIN b) /\ DOMAIN b \subseteq DOMAIN a
      BY <2>7, <2>8, CountIs DEF Numbers
    <3> QED BY <2>7, <2>8, <3>1 DEF Numbers
  <2>10. SumFunction(a) = SumFunction(b) + a[x] BY <2>7, <2>9, SumAdded
  <2>11. SumFunction(b) \in Int BY <2>9, SumInt
  <2>12. SumFunction(a) = SumFunction(b) BY <2>7, <2>10, <2>11
  <2> QED BY <2>2, <2>6, <2>12 DEF a, b
<1> DEFINE k == h(D)
           l == h({})
<1>2. SumFunction(k) = SumFunction(l) BY <1>1
<1>3. DOMAIN k = DOMAIN f /\ (\A x \in DOMAIN f : k[x] = f[x])
      /\ DOMAIN l = DOMAIN e /\ \A x \in DOMAIN e : l[x] = e[x]
  OBVIOUS
<1> HIDE DEF k, l, F, D, h
<1>4. Numbers(k) /\ Numbers(e) /\ Numbers(l)
  <2>1. IsFiniteSet(DOMAIN e) BY CountIs DEF Numbers
  <2> QED BY <1>3, <2>1 DEF Numbers
<1> DEFINE id == [x \in DOMAIN f |-> x]
<1>5. \A x \in DOMAIN f : id[x] = x OBVIOUS
<1> HIDE DEF id
<1>6. SumFunction(f) = SumFunction(k) BY <1>3, <1>4, <1>5, SumMoved
<1>7. SumFunction(e) = SumFunction(l) BY <1>3, <1>4, <1>5, SumMoved
<1> QED BY <1>2, <1>6, <1>7

(* Sums of sums. *)
LEMMA SumPlus ==
  ASSUME NEW f, Numbers(f), NEW e, Numbers(e), DOMAIN e = DOMAIN f,
         NEW h, DOMAIN h = DOMAIN f, \A x \in DOMAIN f : h[x] = f[x] + e[x]
  PROVE  SumFunction(h) = SumFunction(f) + SumFunction(e)
<1> DEFINE S == DOMAIN f
<1>1. Numbers(h) BY DEF Numbers
<1>2. PICK a : Summed(f, S, a) /\ SumFunction(f) = a[S] BY SumSummed
<1>3. PICK b : Summed(e, S, b) /\ SumFunction(e) = b[S] BY SumSummed
<1>4. PICK c : Summed(h, S, c) /\ SumFunction(h) = c[S] BY <1>1, SumSummed
<1>5. /\ a[{}] = 0 /\ \A s \in SUBSET S : a[s] \in Int /\ \A x \in s : a[s] = f[x] + a[s \ {x}]
      /\ b[{}] = 0 /\ \A s \in SUBSET S : b[s] \in Int /\ \A x \in s : b[s] = e[x] + b[s \ {x}]
      /\ c[{}] = 0 /\ \A s \in SUBSET S : c[s] \in Int /\ \A x \in s : c[s] = h[x] + c[s \ {x}]
  <2> HIDE DEF S
  <2>1. TakenApart(f, S, a) BY <1>2, SumTaken
  <2>2. TakenApart(e, S, b) BY <1>3, SumTaken
  <2>3. TakenApart(h, S, c) BY <1>4, SumTaken
  <2> QED BY <2>1, <2>2, <2>3 DEF TakenApart
<1> DEFINE F == {s \in SUBSET S : c[s] # a[s] + b[s]}
<1>6. F = {}
  <2> SUFFICES ASSUME F # {}  PROVE FALSE OBVIOUS
  <2>1. PICK s \in F : \A x \in s : s \ {x} \notin F BY Minimal DEF Numbers
  <2>2. s \in SUBSET S /\ c[s] # a[s] + b[s] BY <2>1
  <2>3. s # {}
    <3>1. c[{}] = a[{}] + b[{}] BY <1>5
    <3> QED BY <2>2, <3>1
  <2>4. PICK x \in s : TRUE BY <2>3
  <2>5. s \ {x} \notin F BY <2>1, <2>4
  <2>6. c[s \ {x}] = a[s \ {x}] + b[s \ {x}] BY <2>2, <2>5
  <2> HIDE DEF F
  <2>7. /\ c[s] = h[x] + c[s \ {x}] /\ a[s] = f[x] + a[s \ {x}] /\ b[s] = e[x] + b[s \ {x}]
        /\ a[s \ {x}] \in Int /\ b[s \ {x}] \in Int /\ h[x] = f[x] + e[x] /\ f[x] \in Int /\ e[x] \in Int
    BY <1>5, <2>2, <2>4 DEF Numbers
  <2> HIDE DEF S
  <2> QED BY <2>2, <2>6, <2>7
<1> QED BY <1>2, <1>3, <1>4, <1>6

(* Six times a sum. *)
LEMMA SumPoints ==
  ASSUME NEW f, Numbers(f), NEW h, DOMAIN h = DOMAIN f, \A x \in DOMAIN f : h[x] = Point * f[x]
  PROVE  SumFunction(h) = Point * SumFunction(f)
<1> DEFINE e == [x \in DOMAIN f |-> f[x] + f[x]]
           d == [x \in DOMAIN f |-> f[x] + e[x]]
<1>0. Point = 6 BY DEF Point, Day
<1>1. /\ DOMAIN e = DOMAIN f /\ \A x \in DOMAIN f : e[x] = f[x] + f[x]
      /\ DOMAIN d = DOMAIN f /\ \A x \in DOMAIN f : d[x] = f[x] + e[x]
  OBVIOUS
<1> HIDE DEF e, d
<1>2. Numbers(e) BY <1>1 DEF Numbers
<1>3. Numbers(d) BY <1>1, <1>2 DEF Numbers
<1>4. \A x \in DOMAIN f : h[x] = d[x] + d[x] BY <1>0, <1>1 DEF Numbers
<1>5. SumFunction(e) = SumFunction(f) + SumFunction(f) BY <1>1, <1>2, SumPlus
<1>6. SumFunction(d) = SumFunction(f) + SumFunction(e) BY <1>1, <1>2, SumPlus
<1>7. SumFunction(h) = SumFunction(d) + SumFunction(d) BY <1>1, <1>3, <1>4, SumPlus
<1> QED BY <1>0, <1>5, <1>6, <1>7, SumInt

(* The same, so many times. *)
LEMMA SumSame ==
  ASSUME NEW S, IsFiniteSet(S), NEW c \in Int, NEW f, DOMAIN f = S, \A x \in S : f[x] = c
  PROVE  SumFunction(f) = c * Cardinality(S)
<1>1. Numbers(f) BY DEF Numbers
<1>2. PICK a : Summed(f, S, a) /\ SumFunction(f) = a[S] BY <1>1, SumSummed
<1>3. a[{}] = 0 /\ \A s \in SUBSET S : a[s] \in Int /\ \A x \in s : a[s] = f[x] + a[s \ {x}]
  <2>1. Summed(f, S, a) BY <1>2
  <2>2. TakenApart(f, S, a) BY <2>1, SumTaken
  <2> QED BY <2>2 DEF TakenApart
<1> DEFINE F == {s \in SUBSET S : a[s] # c * Cardinality(s)}
<1>4. F = {}
  <2> SUFFICES ASSUME F # {}  PROVE FALSE OBVIOUS
  <2>1. PICK s \in F : \A t \in F : Cardinality(s) <= Cardinality(t) BY Smallest
  <2>2. s \in SUBSET S /\ a[s] # c * Cardinality(s) BY <2>1
  <2>3. s # {}
    <3>1. Cardinality({}) = 0 BY FS_EmptySet
    <3>2. a[{}] = c * Cardinality({}) BY <1>3, <3>1
    <3> QED BY <2>2, <3>2
  <2>4. PICK x \in s : TRUE BY <2>3
  <2> DEFINE n == Cardinality(s)
  <2>5. n \in Nat /\ Cardinality(s \ {x}) = n - 1 /\ ~ (n <= n - 1)
    <3>1. IsFiniteSet(s) BY <2>2, CountIs
    <3>2. Cardinality(s) \in Nat /\ Cardinality(s \ {x}) = Cardinality(s) - 1 BY <2>4, <3>1, CountIs
    <3> QED BY <3>2
  <2>6. s \ {x} \notin F BY <2>1, <2>5
  <2> HIDE DEF n
  <2>7. a[s \ {x}] = c * (n - 1) BY <2>2, <2>5, <2>6
  <2>8. a[s] = f[x] + a[s \ {x}] /\ f[x] = c BY <1>3, <2>2, <2>4
  <2>9. c + c * (n - 1) = c * n BY <2>5
  <2> QED BY <2>2, <2>7, <2>8, <2>9 DEF n
<1> QED BY <1>2, <1>4

(* Things that say their days add up to the days they say. *)
LEMMA DaysNamed ==
  ASSUME NEW f, Numbers(f), NEW h, DOMAIN h = DOMAIN f, \A i \in DOMAIN f : h[i].days = f[i],
         \A i, j \in DOMAIN f : h[i] = h[j] => i = j
  PROVE  Days({h[i] : i \in DOMAIN h}) = SumFunction(f)
<1> DEFINE S == {h[i] : i \in DOMAIN h}
           e == [g \in S |-> g.days]
<1>1. DOMAIN e = S /\ (\A g \in S : e[g] = g.days) /\ (\A i \in DOMAIN f : h[i] \in S)
      /\ \A g \in S : \E i \in DOMAIN f : g = h[i]
  OBVIOUS
<1>2. IsFiniteSet(S) BY ImageFinite DEF Numbers
<1> HIDE DEF S, e
<1>3. Numbers(e) BY <1>1, <1>2 DEF Numbers
<1>4. SumFunction(f) = SumFunction(e) BY <1>1, <1>3, SumMoved
<1> QED BY <1>4 DEF e, S, Days

----
(* People: who can be asked, and what they can do. *)

(* A role that planning can read. *)
Read(role) == IsStaffed(role) /\ Resolvable(role)

LEMMA ReadProfiles ==
  ASSUME NEW role, Read(role)
  PROVE  /\ InSeq(role.people)
         /\ \A i \in DOMAIN role.people : IsStructured(TheProfile(role.people[i].profiles))
         /\ \A p \in role.profiles : IsStructured(p)
         /\ role.profiles # {} => TheProfile(role.profiles) \in role.profiles
<1>1. InSeq(role.people) /\ (\A p \in role.profiles : IsStructured(p))
      /\ \A i \in DOMAIN role.people :
           IsFiniteSet(role.people[i].profiles) /\ \A p \in role.people[i].profiles : IsStructured(p)
  BY DEF Read, IsStaffed
<1>2. ASSUME NEW i \in DOMAIN role.people  PROVE IsStructured(TheProfile(role.people[i].profiles))
  <2> DEFINE S == role.people[i].profiles
  <2>1. IsFiniteSet(S) /\ Cardinality(S) = 1 /\ \A p \in S : IsStructured(p)
    BY <1>1 DEF Read, Resolvable
  <2> HIDE DEF S
  <2>2. TheProfile(S) \in S BY <2>1, OneProfile
  <2> QED BY <2>1, <2>2 DEF S
<1>3. role.profiles # {} => TheProfile(role.profiles) \in role.profiles BY DEF TheProfile
<1> QED BY <1>1, <1>2, <1>3

LEMMA NoSegments ==
  ASSUME NEW w  PROVE PercentAt(<<>>, w) = 0
<1> DEFINE I == {i \in 1 .. Len(<<>>) : Covers(<<>>[i], w)}
           i == IF I # {} THEN Min(I) ELSE 0
<1>1. PercentAt(<<>>, w) = IF i = 0 THEN 0 ELSE <<>>[i].percent BY DEF PercentAt, SelectInSeq
<1>2. I = {} OBVIOUS
<1> HIDE DEF I
<1> QED BY <1>1, <1>2

LEMMA ReadPercents ==
  ASSUME NEW role, Read(role), NEW w
  PROVE  /\ \A i \in DOMAIN role.people : PercentAt(Resolve(role).people[i].segments, w) \in Nat
         /\ PercentAt(Resolve(role).segments, w) \in Nat
<1> DEFINE resolved == Resolve(role)
<1>1. /\ \A i \in DOMAIN role.people : resolved.people[i].segments = PersonSegments(role, role.people[i])
      /\ resolved.segments = ResolvedRoleSegments(role)
  BY DEF Resolve
<1>2. ASSUME NEW i \in DOMAIN role.people  PROVE PercentAt(PersonSegments(role, role.people[i]), w) \in Nat
  <2> DEFINE q == role.people[i]
             p == TheProfile(q.profiles)
  <2>1. IsProfile(p) BY ReadProfiles DEF IsStructured
  <2>2. CASE Suppressed(role, q)
    <3> DEFINE win == Window(0, Forever, 0)
    <3>1. PersonSegments(role, q) = <<win>> /\ win.percent = 0 BY <2>2 DEF PersonSegments, Window
    <3> HIDE DEF win, q
    <3> QED BY <3>1, OneSegment DEF q
  <2>3. CASE ~Suppressed(role, q)
    <3>1. PersonSegments(role, q) = Segments(p) BY <2>3 DEF PersonSegments
    <3> QED BY <2>1, <3>1, SegmentsAre
  <2> QED BY <2>2, <2>3
<1>3. PercentAt(ResolvedRoleSegments(role), w) \in Nat
  <2>1. CASE role.profiles = {} \/ PlannedApart(role) BY <2>1, NoSegments DEF ResolvedRoleSegments
  <2>2. CASE ~(role.profiles = {} \/ PlannedApart(role))
    <3> DEFINE p == TheProfile(role.profiles)
    <3>1. ResolvedRoleSegments(role) = Segments(p) BY <2>2 DEF ResolvedRoleSegments
    <3>2. IsProfile(p) BY <2>2, ReadProfiles DEF IsStructured
    <3> HIDE DEF p
    <3> QED BY <3>1, <3>2, SegmentsAre
  <2> QED BY <2>1, <2>2
<1> HIDE DEF resolved
<1>4. \A i \in DOMAIN role.people : PercentAt(resolved.people[i].segments, w) \in Nat BY <1>1, <1>2
<1> QED BY <1>1, <1>3, <1>4 DEF resolved

(* Who is asked: [segments, synthetic] by number. *)
AskedOf(holders) ==
  /\ IsFiniteSet(DOMAIN holders) /\ DOMAIN holders \subseteq Nat
  /\ \A i \in DOMAIN holders : holders[i].synthetic \in BOOLEAN /\ \A w : HolderCapacity(holders[i], w) \in Nat

Together(holders, w) == SumFunction([i \in DOMAIN holders |-> HolderCapacity(holders[i], w)])

LEMMA PeopleHold ==
  ASSUME NEW role, Read(role)
  PROVE  LET people == [i \in DOMAIN Resolve(role).people |->
                          [segments |-> Resolve(role).people[i].segments, synthetic |-> FALSE]]
         IN  /\ InSeq(people) /\ DOMAIN people = DOMAIN role.people /\ DOMAIN people = DOMAIN Resolve(role).people
             /\ \A i \in DOMAIN people : people[i].synthetic = FALSE
             /\ \A i \in DOMAIN people : people[i].segments = Resolve(role).people[i].segments
<1> DEFINE people == [i \in DOMAIN Resolve(role).people |->
                        [segments |-> Resolve(role).people[i].segments, synthetic |-> FALSE]]
<1>1. DOMAIN Resolve(role).people = DOMAIN role.people BY DEF Resolve
<1>2. DOMAIN people = DOMAIN role.people /\ \A i \in DOMAIN people :
        people[i].synthetic = FALSE /\ people[i].segments = Resolve(role).people[i].segments
  BY <1>1
<1>3. InSeq(people)
  <2> DEFINE n == Len(role.people)
  <2>1. n \in Nat /\ DOMAIN role.people = 1 .. n BY ReadProfiles, SeqIs
  <2>2. people \in [1 .. n -> Range(people)] BY <1>2, <2>1 DEF Range
  <2> HIDE DEF people, n
  <2>3. people \in Seq(Range(people)) BY <2>1, <2>2, SeqDef
  <2> QED BY <2>3 DEF InSeq
<1> QED BY <1>1, <1>2, <1>3

LEMMA HoldersAre ==
  ASSUME NEW role, Read(role), NEW asked \in BOOLEAN
  PROVE  /\ AskedOf(Holders(Resolve(role), asked))
         /\ asked => \A w : Together(Holders(Resolve(role), asked), w) = WeeklyCapacity(Resolve(role), w)
<1> DEFINE resolved == Resolve(role)
           people == [i \in DOMAIN resolved.people |->
                        [segments |-> resolved.people[i].segments, synthetic |-> FALSE]]
           own == [segments |-> resolved.segments, synthetic |-> TRUE]
           holders == Holders(resolved, asked)
           n == Len(people)
<1>1. InSeq(people) /\ DOMAIN people = DOMAIN role.people /\ DOMAIN people = DOMAIN resolved.people
      /\ (\A i \in DOMAIN people : people[i].synthetic = FALSE)
      /\ \A i \in DOMAIN people : people[i].segments = resolved.people[i].segments
  BY PeopleHold
<1>2. holders = IF resolved.segments # <<>> /\ asked THEN <<own>> \o people ELSE people
  BY DEF Holders
<1>3. own.segments = resolved.segments /\ own.synthetic = TRUE OBVIOUS
<1>4. ASSUME NEW w
      PROVE  /\ \A i \in DOMAIN people : PercentAt(people[i].segments, w) \in Nat
             /\ PercentAt(own.segments, w) \in Nat
  <2>1. \A i \in DOMAIN role.people : PercentAt(resolved.people[i].segments, w) \in Nat
    BY ReadPercents
  <2>2. PercentAt(resolved.segments, w) \in Nat BY ReadPercents
  <2> HIDE DEF people, own, resolved
  <2> QED BY <1>1, <1>3, <2>1, <2>2
<1>5. \A w : WeeklyCapacity(resolved, w) =
               Point * (SumFunction([i \in DOMAIN people |-> PercentAt(people[i].segments, w)])
                          + PercentAt(own.segments, w))
  <2> TAKE w
  <2>1. WeeklyCapacity(resolved, w) =
          Point * (SumFunction([i \in DOMAIN resolved.people |-> PercentAt(resolved.people[i].segments, w)])
                     + PercentAt(resolved.segments, w))
    BY DEF WeeklyCapacity, WeeklyPercent, SumOver
  <2>2. [i \in DOMAIN resolved.people |-> PercentAt(resolved.people[i].segments, w)]
          = [i \in DOMAIN people |-> PercentAt(people[i].segments, w)]
    <3> HIDE DEF people, resolved
    <3> QED BY <1>1
  <2> HIDE DEF people, own, resolved
  <2> QED BY <1>3, <2>1, <2>2
<1> HIDE DEF resolved, people, own, holders
<1>6. n \in Nat /\ DOMAIN people = 1 .. n /\ IsFiniteSet(DOMAIN people) BY <1>1, SeqIs
<1>0. Point = 6 BY DEF Point, Day
<1>7. ASSUME NEW w  PROVE Numbers([i \in DOMAIN people |-> PercentAt(people[i].segments, w)])
  <2> DEFINE f == [i \in DOMAIN people |-> PercentAt(people[i].segments, w)]
  <2>1. DOMAIN f = DOMAIN people /\ \A i \in DOMAIN f : f[i] \in Int BY <1>4
  <2> HIDE DEF f
  <2>2. Numbers(f) BY <1>6, <2>1 DEF Numbers
  <2> QED BY <2>2 DEF f
<1>8. CASE ~(resolved.segments # <<>> /\ asked)
  <2>1. holders = people BY <1>2, <1>8
  <2>2. AskedOf(people)
    <3>1. ASSUME NEW i \in DOMAIN people, NEW w  PROVE HolderCapacity(people[i], w) \in Nat
      <4>1. PercentAt(people[i].segments, w) \in Nat BY <1>4
      <4> QED BY <1>0, <4>1 DEF HolderCapacity
    <3>2. \A i \in DOMAIN people : people[i].synthetic \in BOOLEAN BY <1>1
    <3>3. DOMAIN people \subseteq Nat BY <1>6
    <3> QED BY <1>6, <3>1, <3>2, <3>3 DEF AskedOf
  <2>3. ASSUME asked, NEW w  PROVE Together(people, w) = WeeklyCapacity(resolved, w)
    <3> DEFINE f == [i \in DOMAIN people |-> PercentAt(people[i].segments, w)]
               h == [i \in DOMAIN people |-> HolderCapacity(people[i], w)]
    <3>1. PercentAt(own.segments, w) = 0 BY <1>3, <1>8, <2>3, NoSegments
    <3>2. DOMAIN h = DOMAIN f /\ \A i \in DOMAIN f : h[i] = Point * f[i] BY DEF HolderCapacity
    <3>3. Numbers(f) BY <1>7
    <3>4. Together(people, w) = SumFunction(h) BY DEF Together
    <3>5. WeeklyCapacity(resolved, w) = Point * (SumFunction(f) + PercentAt(own.segments, w))
      BY <1>5
    <3> HIDE DEF f, h
    <3>6. SumFunction(h) = Point * SumFunction(f) BY <3>2, <3>3, SumPoints
    <3>7. SumFunction(f) \in Int BY <3>3, SumInt
    <3> QED BY <3>1, <3>4, <3>5, <3>6, <3>7
  <2> QED BY <2>1, <2>2, <2>3 DEF holders, resolved
<1>9. CASE resolved.segments # <<>> /\ asked
  <2>0. holders = <<own>> \o people BY <1>2, <1>9
  <2>1. DOMAIN holders = 1 .. n + 1 /\ holders[1] = own /\ \A i \in 1 .. n : holders[i + 1] = people[i]
    <3> DEFINE S == {own} \cup Range(people)
               one == <<own>>
    <3>1. one \in Seq(S) /\ people \in Seq(S) /\ Len(one) = 1 /\ one[1] = own
      <4>1. people \in Seq(Range(people)) BY <1>1 DEF InSeq
      <4>2. people \in Seq(S) BY <4>1, SeqMonotonic
      <4> QED BY <4>2
    <3> HIDE DEF one, S
    <3> DEFINE all == one \o people
    <3>2. all \in Seq(S) /\ Len(all) = 1 + n
          /\ \A i \in 1 .. 1 + n : all[i] = IF i <= 1 THEN one[i] ELSE people[i - 1]
      BY <3>1, ConcatProperties
    <3>3. all = holders BY <2>0 DEF one
    <3> HIDE DEF all
    <3>4. DOMAIN all = 1 .. 1 + n BY <3>2, LenProperties
    <3>5. all[1] = own BY <1>6, <3>1, <3>2
    <3>6. \A i \in 1 .. n : all[i + 1] = people[i]
      <4> TAKE i \in 1 .. n
      <4>1. i + 1 \in 1 .. 1 + n /\ ~(i + 1 <= 1) /\ (i + 1) - 1 = i BY <1>6
      <4> QED BY <3>2, <4>1
    <3> QED BY <1>6, <3>3, <3>4, <3>5, <3>6
  <2>2. \A i \in 1 .. n + 1 : i = 1 \/ (i - 1 \in 1 .. n /\ (i - 1) + 1 = i) BY <1>6
  <2>3. \A i \in 1 .. n + 1 : holders[i] = own \/ \E k \in 1 .. n : holders[i] = people[k]
    BY <2>1, <2>2
  <2>4. AskedOf(holders)
    <3>1. ASSUME NEW i \in DOMAIN holders  PROVE holders[i].synthetic \in BOOLEAN
      <4>1. CASE holders[i] = own BY <1>3, <4>1
      <4>2. CASE \E k \in 1 .. n : holders[i] = people[k] BY <1>1, <1>6, <4>2
      <4> QED BY <2>1, <2>3, <4>1, <4>2
    <3>2. ASSUME NEW i \in DOMAIN holders, NEW w  PROVE HolderCapacity(holders[i], w) \in Nat
      <4>1. PercentAt(holders[i].segments, w) \in Nat BY <1>4, <1>6, <2>1, <2>3
      <4> QED BY <1>0, <4>1 DEF HolderCapacity
    <3>3. IsFiniteSet(1 .. n + 1) /\ 1 .. n + 1 \subseteq Nat BY <1>6, FS_Interval
    <3> QED BY <2>1, <3>1, <3>2, <3>3 DEF AskedOf
  <2>5. ASSUME NEW w  PROVE Together(holders, w) = WeeklyCapacity(resolved, w)
    <3> DEFINE f == [i \in DOMAIN people |-> PercentAt(people[i].segments, w)]
               k == [i \in DOMAIN people |-> HolderCapacity(people[i], w)]
               h == [i \in DOMAIN holders |-> HolderCapacity(holders[i], w)]
               r == [i \in 2 .. n + 1 |-> HolderCapacity(holders[i], w)]
               up == [i \in DOMAIN people |-> i + 1]
    <3>1. Together(holders, w) = SumFunction(h) BY DEF Together
    <3>2. WeeklyCapacity(resolved, w) = Point * (SumFunction(f) + PercentAt(own.segments, w))
      BY <1>5
    <3>3. Numbers(f) /\ Numbers(h)
      <4>1. DOMAIN h = DOMAIN holders /\ \A i \in DOMAIN h : h[i] \in Nat BY <2>4 DEF AskedOf
      <4> HIDE DEF h
      <4> QED BY <1>7, <2>4, <4>1 DEF AskedOf, Numbers
    <3>4. DOMAIN k = DOMAIN f /\ (\A i \in DOMAIN f : k[i] = Point * f[i]) /\ DOMAIN f = 1 .. n
          /\ \A i \in 1 .. n : k[i] = HolderCapacity(people[i], w)
      BY <1>6 DEF HolderCapacity
    <3>5. /\ DOMAIN h = 1 .. n + 1 /\ (\A i \in 1 .. n + 1 : h[i] = HolderCapacity(holders[i], w))
          /\ DOMAIN r = 2 .. n + 1 /\ (\A i \in 2 .. n + 1 : r[i] = HolderCapacity(holders[i], w))
      BY <2>1
    <3>6. \A i \in 1 .. n : up[i] = i + 1 BY <1>6
    <3> HIDE DEF f, h, k, r, up
    <3>7. 1 \in 1 .. n + 1 /\ 2 .. n + 1 = (1 .. n + 1) \ {1} BY <1>6
    <3>8. SumFunction(h) = SumFunction(r) + h[1]
      <4>1. DOMAIN r = DOMAIN h \ {1} /\ 1 \in DOMAIN h /\ \A i \in DOMAIN r : r[i] = h[i]
        BY <3>5, <3>7
      <4> QED BY <3>3, <4>1, SumAdded
    <3>9. Numbers(r)
      <4>1. IsFiniteSet(DOMAIN r) /\ DOMAIN r \subseteq DOMAIN h
        BY <3>3, <3>5, <3>7, CountIs DEF Numbers
      <4> QED BY <3>3, <3>5, <3>7, <4>1 DEF Numbers
    <3>10. Numbers(k) BY <1>0, <3>3, <3>4 DEF Numbers
    <3>11. SumFunction(k) = SumFunction(r)
      <4>1. \A i \in DOMAIN k : up[i] \in DOMAIN r /\ r[up[i]] = k[i]
        <5> TAKE i \in DOMAIN k
        <5>1. i \in 1 .. n /\ i + 1 \in 2 .. n + 1 BY <1>6, <3>4
        <5> QED BY <2>1, <3>4, <3>5, <3>6, <5>1
      <4>2. \A i, j \in DOMAIN k : up[i] = up[j] => i = j BY <1>6, <3>4, <3>6
      <4>3. \A z \in DOMAIN r : \E i \in DOMAIN k : z = up[i]
        <5> TAKE z \in DOMAIN r
        <5>1. z - 1 \in 1 .. n /\ (z - 1) + 1 = z BY <1>6, <3>5
        <5> QED BY <3>4, <3>6, <5>1
      <4> QED BY <3>9, <3>10, <4>1, <4>2, <4>3, SumMoved
    <3>12. SumFunction(k) = Point * SumFunction(f) BY <3>3, <3>4, SumPoints
    <3>13. h[1] = Point * PercentAt(own.segments, w) BY <2>1, <3>5, <3>7 DEF HolderCapacity
    <3>14. SumFunction(f) \in Int /\ PercentAt(own.segments, w) \in Int BY <1>4, <3>3, SumInt
    <3> QED BY <1>0, <3>1, <3>2, <3>8, <3>11, <3>12, <3>13, <3>14
  <2> QED BY <2>4, <2>5 DEF holders, resolved
<1> QED BY <1>8, <1>9

----
(* A week of a role: who is asked when. *)

Record(st) == st = [given |-> st.given, total |-> st.total, last |-> st.last,
                    left |-> st.left, unallocated |-> st.unallocated]

GiverTyped(holders, st) ==
  Record(st) /\ st.total \in [DOMAIN holders -> Int] /\ st.last \in [DOMAIN holders -> Int]

Rank(holders, st, w, k) ==
  <<IF st.last[k] = w - 1 THEN 0 ELSE 1, IF holders[k].synthetic THEN 1 ELSE 0, st.total[k], k>>

(* The first difference decides. *)
Lower(x, y) ==
  \/ x[1] < y[1]
  \/ x[1] = y[1] /\ x[2] < y[2]
  \/ x[1] = y[1] /\ x[2] = y[2] /\ x[3] < y[3]
  \/ x[1] = y[1] /\ x[2] = y[2] /\ x[3] = y[3] /\ x[4] < y[4]

RankInts(x) == x[1] \in Int /\ x[2] \in Int /\ x[3] \in Int /\ x[4] \in Int

(* Where two ranks differ first. *)
Difference(x, y) == Min({m \in 1 .. 4 : x[m] # y[m]})

LEMMA FirstDiffers ==
  ASSUME NEW x, NEW y, RankInts(x), RankInts(y), x[4] # y[4]
  PROVE  x[Difference(x, y)] < y[Difference(x, y)] <=> Lower(x, y)
<1> DEFINE D == {m \in 1 .. 4 : x[m] # y[m]}
           n == Difference(x, y)
<1>1. 4 \in D /\ D \subseteq Int /\ D \subseteq 1 .. 4 OBVIOUS
<1>2. \A m \in 1 .. 4 : m \in D <=> x[m] # y[m] OBVIOUS
<1>3. IsFiniteSet(D) BY <1>1, FS_Interval, FS_Subset
<1>4. n = Min(D) BY DEF Difference
<1> HIDE DEF D, n
<1>5. n \in D /\ \A m \in D : n <= m BY <1>1, <1>3, <1>4, MaxMin
<1>6. n = 1 \/ n = 2 \/ n = 3 \/ n = 4 BY <1>1, <1>5
<1>7. \A m \in 1 .. 4 : ~ (n <= m) => x[m] = y[m] BY <1>2, <1>5
<1>8. x[n] # y[n] BY <1>1, <1>2, <1>5
<1>9. CASE n = 1 BY <1>8, <1>9 DEF Lower, RankInts, n
<1>10. CASE n = 2
  <2>1. x[1] = y[1] BY <1>7, <1>10
  <2> QED BY <1>8, <1>10, <2>1 DEF Lower, RankInts, n
<1>11. CASE n = 3
  <2>1. x[1] = y[1] /\ x[2] = y[2] BY <1>7, <1>11
  <2> QED BY <1>8, <1>11, <2>1 DEF Lower, RankInts, n
<1>12. CASE n = 4
  <2>1. x[1] = y[1] /\ x[2] = y[2] /\ x[3] = y[3] BY <1>7, <1>12
  <2> QED BY <1>8, <1>12, <2>1 DEF Lower, RankInts, n
<1> QED BY <1>6, <1>9, <1>10, <1>11, <1>12 DEF n

LEMMA FirstAskedIs ==
  ASSUME NEW holders, NEW st, NEW w, NEW i, NEW j
  PROVE  AskedFirst(holders, st, w, i, j) <=>
           Rank(holders, st, w, i)[Difference(Rank(holders, st, w, i), Rank(holders, st, w, j))]
             < Rank(holders, st, w, j)[Difference(Rank(holders, st, w, i), Rank(holders, st, w, j))]
BY DEF AskedFirst, Rank, Difference

LEMMA RanksAre ==
  ASSUME NEW holders, AskedOf(holders), NEW st, GiverTyped(holders, st), NEW w, NEW i \in DOMAIN holders
  PROVE  RankInts(Rank(holders, st, w, i)) /\ Rank(holders, st, w, i)[4] = i
<1>1. i \in Int /\ st.total[i] \in Int BY DEF AskedOf, GiverTyped
<1> QED BY <1>1 DEF RankInts, Rank

LEMMA AskedInOrder ==
  ASSUME NEW holders, AskedOf(holders), NEW st, GiverTyped(holders, st), NEW w,
         NEW i \in DOMAIN holders, NEW j \in DOMAIN holders, i # j
  PROVE  AskedFirst(holders, st, w, i, j) <=> Lower(Rank(holders, st, w, i), Rank(holders, st, w, j))
<1> DEFINE x == Rank(holders, st, w, i)
           y == Rank(holders, st, w, j)
<1>1. AskedFirst(holders, st, w, i, j) <=> x[Difference(x, y)] < y[Difference(x, y)] BY FirstAskedIs
<1>2. RankInts(x) /\ RankInts(y) /\ x[4] # y[4] BY RanksAre
<1> HIDE DEF x, y
<1> QED BY <1>1, <1>2, FirstDiffers DEF x, y

(* Among some of them somebody is asked last. *)
LEMMA LastAsked ==
  ASSUME NEW holders, AskedOf(holders), NEW st, GiverTyped(holders, st), NEW w,
         NEW S, S \subseteq DOMAIN holders, S # {}
  PROVE  AskedLast(holders, st, w, S) \in S
<1> DEFINE rank(i) == Rank(holders, st, w, i)
           R == {z \in S \X S : z[1] = z[2] \/ Lower(rank(z[2]), rank(z[1]))}
<1>1. IsFiniteSet(S) /\ \A i \in S : RankInts(rank(i)) /\ rank(i)[4] = i
  BY RanksAre, FS_Subset DEF AskedOf
<1>2. \A i, j \in S : <<i, j>> \in R <=> i = j \/ Lower(rank(j), rank(i)) OBVIOUS
<1> HIDE DEF R
<1>3. \A i, j \in S : i # j => Lower(rank(i), rank(j)) \/ Lower(rank(j), rank(i))
  <2> TAKE i, j \in S
  <2> HAVE i # j
  <2>1. RankInts(rank(i)) /\ RankInts(rank(j)) /\ rank(i)[4] # rank(j)[4] BY <1>1
  <2> HIDE DEF rank
  <2> QED BY <2>1 DEF Lower, RankInts
<1>4. \A i, j, k \in S : Lower(rank(i), rank(j)) /\ Lower(rank(j), rank(k)) => Lower(rank(i), rank(k))
  <2> TAKE i, j, k \in S
  <2>1. RankInts(rank(i)) /\ RankInts(rank(j)) /\ RankInts(rank(k)) BY <1>1
  <2> HIDE DEF rank
  <2> QED BY <2>1 DEF Lower, RankInts
<1>5. \E i \in S : \A j \in S : <<i, j>> \in R
  <2> HIDE DEF rank
  <2>1. \A i, j \in S : <<i, j>> \in R \/ <<j, i>> \in R BY <1>2, <1>3
  <2>2. \A i, j, k \in S : <<i, j>> \in R /\ <<j, k>> \in R => <<i, k>> \in R BY <1>2, <1>4
  <2> QED BY <1>1, <2>1, <2>2, FirstOfAll
<1>6. \E j \in S : \A i \in S \ {j} : AskedFirst(holders, st, w, i, j)
  <2>1. PICK j \in S : \A i \in S : <<j, i>> \in R BY <1>5
  <2>2. \A i \in S \ {j} : Lower(rank(i), rank(j)) BY <1>2, <2>1
  <2>3. \A i \in S \ {j} : AskedFirst(holders, st, w, i, j) BY <2>2, AskedInOrder
  <2> QED BY <2>3
<1> QED BY <1>6 DEF AskedLast

(* One after the other: g after every part of those who are able. *)
GiveStep(holders, st, w, days, g, S) ==
  IF S = {} THEN [st EXCEPT !.left = days]
  ELSE Give(holders, w, g[S \ {AskedLast(holders, st, w, S)}], AskedLast(holders, st, w, S))

IsGiving(holders, st, w, days, A, g) == g = [S \in SUBSET A |-> GiveStep(holders, st, w, days, g, S)]

LEMMA GivingExists ==
  ASSUME NEW holders, AskedOf(holders), NEW st, GiverTyped(holders, st), NEW w, NEW days,
         NEW A, A \subseteq DOMAIN holders
  PROVE  \E g : IsGiving(holders, st, w, days, A, g)
<1> DEFINE step(g, S) == GiveStep(holders, st, w, days, g, S)
           last(S) == AskedLast(holders, st, w, S)
           UpTo(g, n) == /\ g = [S \in SUBSET A |-> g[S]]
                         /\ \A S \in SUBSET A : Cardinality(S) <= n => g[S] = step(g, S)
           N == {n \in Nat : ~ \E g : UpTo(g, n)}
<1>0. IsFiniteSet(A) BY FS_Subset DEF AskedOf
<1>1. N = {}
  <2> SUFFICES ASSUME N # {}  PROVE FALSE OBVIOUS
  <2>1. PICK n \in N : n \in Nat /\ (n = 0 \/ (n - 1 \in Nat /\ n - 1 \notin N)) BY LeastFault
  <2>2. n # 0
    <3> DEFINE g == [S \in SUBSET A |-> [st EXCEPT !.left = days]]
    <3>1. UpTo(g, 0)
      <4>1. \A S \in SUBSET A : Cardinality(S) <= 0 => S = {} BY <1>0, CountIs
      <4> QED BY <4>1 DEF GiveStep
    <3> QED BY <3>1
  <2>3. n - 1 \in Nat /\ n - 1 \notin N BY <2>1, <2>2
  <2>4. PICK g : UpTo(g, n - 1) BY <2>3
  <2> DEFINE h == [S \in SUBSET A |-> step(g, S)]
  <2>5. ASSUME NEW S \in SUBSET A, Cardinality(S) <= n  PROVE h[S] = step(h, S)
    <3>1. CASE S = {} BY <3>1 DEF GiveStep
    <3>2. CASE S # {}
      <4>1. last(S) \in S BY <3>2, LastAsked
      <4>2. Cardinality(S \ {last(S)}) <= n - 1
        <5>1. IsFiniteSet(S) BY <1>0, CountIs
        <5>2. Cardinality(S) \in Nat /\ Cardinality(S \ {last(S)}) = Cardinality(S) - 1
          BY <4>1, <5>1, CountIs
        <5> QED BY <2>3, <2>5, <5>2
      <4>3. g[S \ {last(S)}] = step(g, S \ {last(S)}) BY <2>4, <4>2
      <4>4. h[S \ {last(S)}] = g[S \ {last(S)}] BY <4>3
      <4>5. h[S] = step(g, S) OBVIOUS
      <4> HIDE DEF h
      <4> QED BY <4>4, <4>5 DEF GiveStep
    <3> QED BY <3>1, <3>2
  <2>6. h = [S \in SUBSET A |-> h[S]] OBVIOUS
  <2> HIDE DEF h
  <2>7. UpTo(h, n) BY <2>5, <2>6
  <2> QED BY <2>1, <2>7
<1>2. Cardinality(A) \in Nat /\ \A S \in SUBSET A : Cardinality(S) <= Cardinality(A)
  BY <1>0, CountIs
<1>3. PICK g : UpTo(g, Cardinality(A)) BY <1>1, <1>2
<1>4. \A S \in SUBSET A : g[S] = step(g, S) BY <1>2, <1>3
<1> QED BY <1>3, <1>4 DEF IsGiving

LEMMA GivingIs ==
  ASSUME NEW holders, AskedOf(holders), NEW st, GiverTyped(holders, st), NEW w, NEW days
  PROVE  \E g : /\ IsGiving(holders, st, w, days, Able(holders, w), g)
                /\ GiveInTurn(holders, st, w, days) = g[Able(holders, w)]
<1> DEFINE A == Able(holders, w)
           g == CHOOSE g : IsGiving(holders, st, w, days, A, g)
<1>0. A \subseteq DOMAIN holders BY DEF Able
<1>1. IsGiving(holders, st, w, days, A, g) BY <1>0, GivingExists
<1>2. GiveInTurn(holders, st, w, days) = g[A] BY DEF GiveInTurn, MapThenFoldSet, IsGiving, GiveStep
<1> QED BY <1>1, <1>2

----
(* A week of a role: who is given what. *)

Assigned(i, w, x) == [holder |-> i, week |-> w, days |-> x]

AssignedIn(w, share) == {Assigned(i, w, share[i]) : i \in DOMAIN Got(share)}

CapacityOfSome(holders, w, S) == SumFunction([i \in S |-> HolderCapacity(holders[i], w)])

(* What the members of S were given in week w: all of days, or all that
   they can do. *)
GaveTo(holders, st, w, days, S, t, share) ==
  /\ GiverTyped(holders, t)
  /\ DOMAIN share = S /\ NatsOf(share) /\ \A i \in S : share[i] <= HolderCapacity(holders[i], w)
  /\ t.given = st.given \cup AssignedIn(w, share)
  /\ t.left \in Nat /\ t.left + SumFunction(Got(share)) = days
  /\ t.left = IF days >= CapacityOfSome(holders, w, S) THEN days - CapacityOfSome(holders, w, S) ELSE 0

LEMMA AssignedIs ==
  ASSUME NEW i, NEW w, NEW x
  PROVE  Assigned(i, w, x).holder = i /\ Assigned(i, w, x).week = w /\ Assigned(i, w, x).days = x
BY DEF Assigned

LEMMA SomeCapacity ==
  ASSUME NEW holders, AskedOf(holders), NEW w, NEW S, S \subseteq DOMAIN holders
  PROVE  /\ IsFiniteSet(S) /\ CapacityOfSome(holders, w, S) \in Nat
         /\ \A j \in S : CapacityOfSome(holders, w, S) =
                           CapacityOfSome(holders, w, S \ {j}) + HolderCapacity(holders[j], w)
         /\ CapacityOfSome(holders, w, {}) = 0
<1> DEFINE f == [i \in S |-> HolderCapacity(holders[i], w)]
<1>1. IsFiniteSet(S) BY FS_Subset DEF AskedOf
<1>2. DOMAIN f = S /\ \A i \in S : f[i] \in Nat /\ f[i] = HolderCapacity(holders[i], w)
  BY DEF AskedOf
<1>3. CapacityOfSome(holders, w, S) = SumFunction(f) BY DEF CapacityOfSome
<1> HIDE DEF f
<1>4. Numbers(f) /\ \A i \in DOMAIN f : f[i] >= 0 BY <1>1, <1>2 DEF Numbers
<1>5. SumFunction(f) \in Nat BY <1>4, SumNat
<1>6. ASSUME NEW j \in S
      PROVE  CapacityOfSome(holders, w, S) =
               CapacityOfSome(holders, w, S \ {j}) + HolderCapacity(holders[j], w)
  <2> DEFINE e == [i \in S \ {j} |-> HolderCapacity(holders[i], w)]
  <2>1. DOMAIN e = S \ {j} /\ \A i \in DOMAIN e : e[i] = f[i] BY <1>2
  <2>2. CapacityOfSome(holders, w, S \ {j}) = SumFunction(e) BY DEF CapacityOfSome
  <2> HIDE DEF e
  <2>3. SumFunction(f) = SumFunction(e) + f[j] BY <1>2, <1>4, <2>1, SumAdded
  <2> QED BY <1>2, <1>3, <2>2, <2>3
<1>7. CapacityOfSome(holders, w, {}) = 0
  <2> DEFINE e == [i \in {} |-> HolderCapacity(holders[i], w)]
  <2>1. DOMAIN e = {} OBVIOUS
  <2> HIDE DEF e
  <2>2. SumFunction(e) = 0 BY <2>1, SumNone
  <2> QED BY <2>2 DEF e, CapacityOfSome
<1> QED BY <1>1, <1>3, <1>5, <1>6, <1>7

LEMMA GaveToNobody ==
  ASSUME NEW holders, AskedOf(holders), NEW st, GiverTyped(holders, st), NEW w, NEW days \in Nat
  PROVE  GaveTo(holders, st, w, days, {}, [st EXCEPT !.left = days], <<>>)
<1> DEFINE t == [st EXCEPT !.left = days]
<1>1. t = [given |-> st.given, total |-> st.total, last |-> st.last, left |-> days, unallocated |-> st.unallocated]
  <2> DEFINE a == st.given
             b == st.total
             c == st.last
             d == st.left
             e == st.unallocated
  <2>1. st = [given |-> a, total |-> b, last |-> c, left |-> d, unallocated |-> e]
    BY DEF GiverTyped, Record
  <2> HIDE DEF a, b, c, d, e
  <2>2. [st EXCEPT !.left = days] = [given |-> a, total |-> b, last |-> c, left |-> days, unallocated |-> e]
    BY <2>1
  <2> QED BY <2>2 DEF a, b, c, d, e
<1>2. /\ t.given = st.given /\ t.total = st.total /\ t.last = st.last /\ t.left = days
      /\ t.unallocated = st.unallocated
  BY <1>1
<1> HIDE DEF t
<1>3. GiverTyped(holders, t) BY <1>1, <1>2 DEF GiverTyped, Record
<1>4. DOMAIN Got(<<>>) = {} /\ DOMAIN <<>> = {} BY DEF Got
<1>5. SumFunction(Got(<<>>)) = 0 BY <1>4, SumNone
<1>6. NatsOf(<<>>) BY <1>4, FS_EmptySet DEF NatsOf
<1>7. CapacityOfSome(holders, w, {}) = 0 BY SomeCapacity
<1>8. AssignedIn(w, <<>>) = {} BY <1>4 DEF AssignedIn
<1> QED BY <1>2, <1>3, <1>4, <1>5, <1>6, <1>7, <1>8 DEF GaveTo, t

(* One more is given what is left or what they can do. *)
LEMMA GaveToOne ==
  ASSUME NEW holders, AskedOf(holders), NEW st, NEW w \in Int, NEW days \in Nat,
         NEW S, S \subseteq DOMAIN holders, NEW j \in S, NEW t, NEW share,
         GaveTo(holders, st, w, days, S \ {j}, t, share)
  PROVE  GaveTo(holders, st, w, days, S, Give(holders, w, t, j),
                With(share, j, ShareOf(t.left, HolderCapacity(holders[j], w))))
<1> DEFINE cap == HolderCapacity(holders[j], w)
           x == ShareOf(t.left, cap)
           more == With(share, j, x)
           u == Give(holders, w, t, j)
           left == t.left
           c == CapacityOfSome(holders, w, S \ {j})
           d == CapacityOfSome(holders, w, S)
<1>1. /\ GiverTyped(holders, t)
      /\ DOMAIN share = S \ {j} /\ NatsOf(share) /\ \A i \in S \ {j} : share[i] <= HolderCapacity(holders[i], w)
      /\ t.given = st.given \cup AssignedIn(w, share)
      /\ left \in Nat /\ left + SumFunction(Got(share)) = days
      /\ left = IF days >= c THEN days - c ELSE 0
  BY DEF GaveTo
<1>2. cap \in Nat /\ c \in Nat /\ d = c + cap
  <2>1. S \ {j} \subseteq DOMAIN holders /\ j \in DOMAIN holders OBVIOUS
  <2> QED BY <2>1, SomeCapacity DEF AskedOf
<1>3. u = IF x = 0 THEN t
          ELSE [given |-> t.given \cup {Assigned(j, w, x)}, total |-> [t.total EXCEPT ![j] = @ + x],
                last |-> [t.last EXCEPT ![j] = w], left |-> left - x, unallocated |-> t.unallocated]
  BY DEF Give, Assigned
<1>4. x = Min({left, cap}) BY DEF ShareOf
<1> HIDE DEF cap, x, u, left, c, d
<1>5. x = IF left <= cap THEN left ELSE cap
  <2>1. left \in Int /\ cap \in Int BY <1>1, <1>2
  <2> QED BY <1>4, <2>1, TwoOf
<1>6. x \in Nat /\ x <= cap /\ x <= left BY <1>1, <1>2, <1>5
<1>7. NatsOf(more) /\ SumFunction(Got(more)) = SumFunction(Got(share)) + x /\ SumFunction(Got(share)) \in Int
  <2>1. j \notin DOMAIN share BY <1>1
  <2>2. SumFunction(Got(share)) \in Int BY <1>1, GotNumbers, SumInt
  <2> QED BY <1>1, <1>6, <2>1, <2>2, GotMore
<1>8. DOMAIN more = S /\ more[j] = x /\ \A i \in S \ {j} : more[i] = share[i]
  <2>1. DOMAIN more = {j} \cup (S \ {j}) /\ more[j] = x /\ \A i \in S \ {j} : more[i] = share[i]
    BY <1>1 DEF With
  <2> QED BY <2>1
<1> HIDE DEF more
<1>9. \A i \in S : more[i] <= HolderCapacity(holders[i], w)
  <2> TAKE i \in S
  <2>1. CASE i = j BY <1>6, <1>8, <2>1 DEF cap
  <2>2. CASE i # j BY <1>1, <1>8, <2>2
  <2> QED BY <2>1, <2>2
<1>10. u.left = left - x BY <1>1, <1>3, <1>6 DEF left
<1>11. left - x \in Nat /\ left - x = IF days >= d THEN days - d ELSE 0 BY <1>1, <1>2, <1>5, <1>6
<1>12. (left - x) + SumFunction(Got(more)) = days BY <1>1, <1>6, <1>7
<1>13. AssignedIn(w, more) = IF x = 0 THEN AssignedIn(w, share) ELSE AssignedIn(w, share) \cup {Assigned(j, w, x)}
  <2>1. /\ DOMAIN Got(more) = {k \in S : more[k] > 0}
        /\ DOMAIN Got(share) = {k \in S \ {j} : share[k] > 0}
    BY <1>1, <1>8 DEF Got
  <2>2. DOMAIN Got(more) = IF x = 0 THEN DOMAIN Got(share) ELSE DOMAIN Got(share) \cup {j}
    <3>1. CASE x = 0 BY <1>8, <2>1, <3>1
    <3>2. CASE x # 0
      <4>1. x > 0 BY <1>6, <3>2
      <4> QED BY <1>8, <2>1, <3>2, <4>1
    <3> QED BY <3>1, <3>2
  <2>3. \A k \in DOMAIN Got(share) : Assigned(k, w, more[k]) = Assigned(k, w, share[k])
    BY <1>8, <2>1
  <2>4. CASE x = 0
    <3>1. DOMAIN Got(more) = DOMAIN Got(share) BY <2>2, <2>4
    <3> QED BY <2>3, <2>4, <3>1 DEF AssignedIn
  <2>5. CASE x # 0
    <3>1. DOMAIN Got(more) = DOMAIN Got(share) \cup {j} /\ Assigned(j, w, more[j]) = Assigned(j, w, x)
      BY <1>8, <2>2, <2>5
    <3> QED BY <2>3, <2>5, <3>1 DEF AssignedIn
  <2> QED BY <2>4, <2>5
<1>14. u.given = st.given \cup AssignedIn(w, more)
  <2>1. CASE x = 0 BY <1>1, <1>3, <1>13, <2>1
  <2>2. CASE x # 0
    <3>1. u.given = t.given \cup {Assigned(j, w, x)} BY <1>3, <2>2
    <3> QED BY <1>1, <1>13, <2>2, <3>1
  <2> QED BY <2>1, <2>2
<1>15. GiverTyped(holders, u)
  <2>1. CASE x = 0 BY <1>1, <1>3, <2>1
  <2>2. CASE x # 0
    <3>1. u = [given |-> t.given \cup {Assigned(j, w, x)}, total |-> [t.total EXCEPT ![j] = @ + x],
               last |-> [t.last EXCEPT ![j] = w], left |-> left - x, unallocated |-> t.unallocated]
      BY <1>3, <2>2
    <3>2. Record(u) BY <3>1 DEF Record
    <3>3. u.total \in [DOMAIN holders -> Int]
      <4>1. t.total \in [DOMAIN holders -> Int] /\ x \in Int /\ j \in DOMAIN holders
        BY <1>1, <1>6 DEF GiverTyped
      <4>2. t.total[j] + x \in Int BY <4>1
      <4>3. u.total = [t.total EXCEPT ![j] = t.total[j] + x] BY <3>1
      <4> QED BY <4>1, <4>2, <4>3
    <3>4. u.last \in [DOMAIN holders -> Int]
      <4>1. t.last \in [DOMAIN holders -> Int] /\ u.last = [t.last EXCEPT ![j] = w]
        BY <1>1, <3>1 DEF GiverTyped
      <4> QED BY <4>1
    <3> QED BY <3>2, <3>3, <3>4 DEF GiverTyped
  <2> QED BY <2>1, <2>2
<1> QED BY <1>7, <1>8, <1>9, <1>10, <1>11, <1>12, <1>14, <1>15 DEF GaveTo, u, more, x, cap, left, d

(* A share of each, no more than they can do, and all that is asked for or
   can be done. *)
SharedOut(holders, w, days, share) ==
  /\ DOMAIN share \subseteq DOMAIN holders /\ NatsOf(share)
  /\ \A i \in DOMAIN share : share[i] <= HolderCapacity(holders[i], w)
  /\ SumFunction(Got(share)) = Min({days, Together(holders, w)})

LEMMA AbleCapacity ==
  ASSUME NEW holders, AskedOf(holders), NEW w
  PROVE  /\ Able(holders, w) \subseteq DOMAIN holders
         /\ CapacityOfSome(holders, w, Able(holders, w)) = Together(holders, w)
         /\ Together(holders, w) \in Nat
<1> DEFINE A == Able(holders, w)
           f == [i \in DOMAIN holders |-> HolderCapacity(holders[i], w)]
           e == [i \in A |-> HolderCapacity(holders[i], w)]
<1>1. A = {i \in DOMAIN holders : HolderCapacity(holders[i], w) > 0} BY DEF Able
<1>2. Together(holders, w) = SumFunction(f) /\ CapacityOfSome(holders, w, A) = SumFunction(e)
  BY DEF Together, CapacityOfSome
<1>3. DOMAIN f = DOMAIN holders /\ DOMAIN e = A
      /\ (\A i \in DOMAIN holders : f[i] = HolderCapacity(holders[i], w))
      /\ \A i \in A : e[i] = HolderCapacity(holders[i], w)
  OBVIOUS
<1>4. \A i \in DOMAIN holders : HolderCapacity(holders[i], w) \in Nat BY DEF AskedOf
<1> HIDE DEF A, f, e
<1>5. Numbers(f) BY <1>3, <1>4 DEF Numbers, AskedOf
<1>6. \A i \in DOMAIN f : i \notin DOMAIN e => f[i] = 0 BY <1>1, <1>3, <1>4
<1>7. DOMAIN e \subseteq DOMAIN f /\ \A i \in DOMAIN e : e[i] = f[i] BY <1>1, <1>3
<1>8. SumFunction(f) = SumFunction(e) BY <1>5, <1>6, <1>7, SumSupport
<1>9. SumFunction(f) \in Nat
  <2>1. \A i \in DOMAIN f : f[i] >= 0 BY <1>3, <1>4
  <2> QED BY <1>5, <2>1, SumNat
<1> QED BY <1>1, <1>2, <1>8, <1>9 DEF A

LEMMA GivenInTurn ==
  ASSUME NEW holders, AskedOf(holders), NEW st, GiverTyped(holders, st), NEW w \in Int, NEW days \in Nat
  PROVE  \E share : GaveTo(holders, st, w, days, Able(holders, w), GiveInTurn(holders, st, w, days), share)
<1> DEFINE A == Able(holders, w)
<1>1. PICK g : IsGiving(holders, st, w, days, A, g) /\ GiveInTurn(holders, st, w, days) = g[A]
  BY GivingIs
<1>2. A \subseteq DOMAIN holders /\ IsFiniteSet(A) BY AbleCapacity, SomeCapacity
<1> HIDE DEF A
<1>3. \A S \in SUBSET A : g[S] = GiveStep(holders, st, w, days, g, S) BY <1>1 DEF IsGiving
<1> DEFINE Good(S) == \E share : GaveTo(holders, st, w, days, S, g[S], share)
           F == {S \in SUBSET A : ~ Good(S)}
<1>4. F = {}
  <2> SUFFICES ASSUME F # {}  PROVE FALSE OBVIOUS
  <2>1. PICK S \in F : \A x \in S : S \ {x} \notin F BY <1>2, Minimal
  <2>2. S \in SUBSET A /\ ~ Good(S) BY <2>1
  <2>3. S # {}
    <3>1. g[{}] = [st EXCEPT !.left = days] BY <1>3 DEF GiveStep
    <3>2. GaveTo(holders, st, w, days, {}, g[{}], <<>>) BY <3>1, GaveToNobody
    <3>3. Good({}) BY <3>2
    <3> QED BY <2>2, <3>3
  <2> DEFINE j == AskedLast(holders, st, w, S)
  <2>4. j \in S BY <1>2, <2>2, <2>3, LastAsked
  <2>5. g[S] = Give(holders, w, g[S \ {j}], j) BY <1>3, <2>2, <2>3 DEF GiveStep
  <2> HIDE DEF j
  <2>6. S \ {j} \notin F BY <2>1, <2>4
  <2>7. PICK share : GaveTo(holders, st, w, days, S \ {j}, g[S \ {j}], share) BY <2>2, <2>6
  <2> HIDE DEF F
  <2> DEFINE t == g[S \ {j}]
             more == With(share, j, ShareOf(t.left, HolderCapacity(holders[j], w)))
  <2>8. GaveTo(holders, st, w, days, S \ {j}, t, share) BY <2>7
  <2> HIDE DEF t
  <2>9. GaveTo(holders, st, w, days, S, Give(holders, w, t, j), more)
    <3>1. S \subseteq DOMAIN holders BY <1>2, <2>2
    <3> QED BY <2>4, <2>8, <3>1, GaveToOne
  <2> HIDE DEF more
  <2>10. GaveTo(holders, st, w, days, S, g[S], more) BY <2>5, <2>9 DEF t
  <2> QED BY <2>2, <2>10
<1>5. Good(A) BY <1>4
<1> QED BY <1>1, <1>5 DEF A

LEMMA GivenInWeek ==
  ASSUME NEW holders, AskedOf(holders), NEW st, GiverTyped(holders, st), NEW w \in Int, NEW days \in Nat
  PROVE  /\ GiverTyped(holders, GiveWeek(holders, st, w, days))
         /\ \E share : /\ SharedOut(holders, w, days, share)
                       /\ GiveWeek(holders, st, w, days).given = st.given \cup AssignedIn(w, share)
<1> DEFINE A == Able(holders, w)
           t == GiveInTurn(holders, st, w, days)
           u == GiveWeek(holders, st, w, days)
           c == CapacityOfSome(holders, w, A)
<1>1. PICK share : GaveTo(holders, st, w, days, A, t, share) BY GivenInTurn
<1>2. A \subseteq DOMAIN holders /\ c = Together(holders, w) /\ c \in Nat BY AbleCapacity
<1>3. u = [t EXCEPT !.unallocated = @ + t.left] BY DEF GiveWeek
<1> HIDE DEF A, t, u, c
<1>4. /\ GiverTyped(holders, t)
      /\ DOMAIN share = A /\ NatsOf(share) /\ \A i \in A : share[i] <= HolderCapacity(holders[i], w)
      /\ t.given = st.given \cup AssignedIn(w, share)
      /\ t.left \in Nat /\ t.left + SumFunction(Got(share)) = days
      /\ t.left = IF days >= c THEN days - c ELSE 0
  BY <1>1 DEF GaveTo, c
<1>5. u = [given |-> t.given, total |-> t.total, last |-> t.last, left |-> t.left,
           unallocated |-> t.unallocated + t.left]
  <2> DEFINE a == t.given
             b == t.total
             k == t.last
             d == t.left
             e == t.unallocated
  <2>1. t = [given |-> a, total |-> b, last |-> k, left |-> d, unallocated |-> e]
    BY <1>4 DEF GiverTyped, Record
  <2> HIDE DEF a, b, k, d, e
  <2>2. u = [t EXCEPT !.unallocated = e + d] BY <1>3 DEF d, e
  <2>3. u = [given |-> a, total |-> b, last |-> k, left |-> d, unallocated |-> e + d] BY <2>1, <2>2
  <2> QED BY <2>3 DEF a, b, k, d, e
<1>6. Record(u) /\ u.given = t.given /\ u.total = t.total /\ u.last = t.last BY <1>5 DEF Record
<1>7. GiverTyped(holders, u) BY <1>4, <1>6 DEF GiverTyped
<1>8. SharedOut(holders, w, days, share)
  <2>1. Min({days, c}) = IF days <= c THEN days ELSE c
    <3>1. days \in Int /\ c \in Int BY <1>2
    <3> QED BY <3>1, TwoOf
  <2>2. SumFunction(Got(share)) \in Int BY <1>4, GotNumbers, SumInt
  <2>3. SumFunction(Got(share)) = Min({days, c}) BY <1>2, <1>4, <2>1, <2>2
  <2> QED BY <1>2, <1>4, <2>3 DEF SharedOut
<1> QED BY <1>4, <1>6, <1>7, <1>8 DEF u

----
(* The weeks of a role. *)

(* Week by week: g after every part of the weeks. *)
WeekStep(holders, name, demand, g, U) ==
  IF U = {} THEN NothingGiven(holders)
  ELSE GiveWeek(holders, g[U \ {Max(U)}], Max(U), demand[<<Max(U), name>>])

IsWeeks(holders, name, demand, W, g) == g = [U \in SUBSET W |-> WeekStep(holders, name, demand, g, U)]

LEMMA WeeksExist ==
  ASSUME NEW holders, NEW name, NEW demand, NEW W, IsFiniteSet(W), W \subseteq Int
  PROVE  \E g : IsWeeks(holders, name, demand, W, g)
<1> DEFINE step(g, U) == WeekStep(holders, name, demand, g, U)
           UpTo(g, n) == /\ g = [U \in SUBSET W |-> g[U]]
                         /\ \A U \in SUBSET W : Cardinality(U) <= n => g[U] = step(g, U)
           N == {n \in Nat : ~ \E g : UpTo(g, n)}
<1>1. N = {}
  <2> SUFFICES ASSUME N # {}  PROVE FALSE OBVIOUS
  <2>1. PICK n \in N : n \in Nat /\ (n = 0 \/ (n - 1 \in Nat /\ n - 1 \notin N)) BY LeastFault
  <2>2. n # 0
    <3> DEFINE g == [U \in SUBSET W |-> NothingGiven(holders)]
    <3>1. UpTo(g, 0)
      <4>1. \A U \in SUBSET W : Cardinality(U) <= 0 => U = {} BY CountIs
      <4> QED BY <4>1 DEF WeekStep
    <3> QED BY <3>1
  <2>3. n - 1 \in Nat /\ n - 1 \notin N BY <2>1, <2>2
  <2>4. PICK g : UpTo(g, n - 1) BY <2>3
  <2> DEFINE h == [U \in SUBSET W |-> step(g, U)]
  <2>5. ASSUME NEW U \in SUBSET W, Cardinality(U) <= n  PROVE h[U] = step(h, U)
    <3>1. CASE U = {} BY <3>1 DEF WeekStep
    <3>2. CASE U # {}
      <4> DEFINE m == Max(U)
      <4>0. IsFiniteSet(U) /\ U \subseteq Int BY CountIs
      <4>1. m \in U BY <3>2, <4>0, MaxMin
      <4>2. Cardinality(U \ {m}) <= n - 1
        <5>2. Cardinality(U) \in Nat /\ Cardinality(U \ {m}) = Cardinality(U) - 1
          BY <4>0, <4>1, CountIs
        <5> QED BY <2>3, <2>5, <5>2
      <4>3. g[U \ {m}] = step(g, U \ {m}) BY <2>4, <4>2
      <4>4. h[U \ {m}] = g[U \ {m}] BY <4>3
      <4>5. h[U] = step(g, U) OBVIOUS
      <4> HIDE DEF h
      <4> QED BY <4>4, <4>5 DEF WeekStep
    <3> QED BY <3>1, <3>2
  <2>6. h = [U \in SUBSET W |-> h[U]] OBVIOUS
  <2> HIDE DEF h
  <2>7. UpTo(h, n) BY <2>5, <2>6
  <2> QED BY <2>1, <2>7
<1>2. Cardinality(W) \in Nat /\ \A U \in SUBSET W : Cardinality(U) <= Cardinality(W) BY CountIs
<1>3. PICK g : UpTo(g, Cardinality(W)) BY <1>1, <1>2
<1>4. \A U \in SUBSET W : g[U] = step(g, U) BY <1>2, <1>3
<1> QED BY <1>3, <1>4 DEF IsWeeks

(* What is given in the weeks of U, and nowhere else. *)
WeekShared(holders, w, days, t) ==
  \E share : SharedOut(holders, w, days, share) /\ {g \in t.given : g.week = w} = AssignedIn(w, share)

GivenWeeks(holders, name, demand, U, t) ==
  /\ GiverTyped(holders, t) /\ IsFiniteSet(t.given)
  /\ \A g \in t.given : g.week \in U
  /\ \A w \in U : WeekShared(holders, w, demand[<<w, name>>], t)

LEMMA AssignedFinite ==
  ASSUME NEW w, NEW share, NatsOf(share)
  PROVE  /\ IsFiniteSet(AssignedIn(w, share))
         /\ \A g \in AssignedIn(w, share) :
              g.week = w /\ g.holder \in DOMAIN share /\ g = Assigned(g.holder, w, share[g.holder])
                /\ g.days = share[g.holder] /\ g.days \in Nat
<1> DEFINE f == Got(share)
           h == [i \in DOMAIN f |-> Assigned(i, w, share[i])]
<1>1. DOMAIN f \subseteq DOMAIN share /\ IsFiniteSet(DOMAIN f) BY GotNumbers DEF Numbers, Got
<1>2. AssignedIn(w, share) = {h[i] : i \in DOMAIN h} /\ DOMAIN h = DOMAIN f BY DEF AssignedIn
<1>3. \A i \in DOMAIN f : share[i] \in Nat BY <1>1 DEF NatsOf
<1> HIDE DEF f
<1>4. IsFiniteSet({h[i] : i \in DOMAIN h})
  <2> HIDE DEF h
  <2> QED BY <1>1, <1>2, ImageFinite
<1>5. \A g \in AssignedIn(w, share) : \E i \in DOMAIN f : g = Assigned(i, w, share[i])
  BY DEF AssignedIn, f
<1>6. ASSUME NEW g \in AssignedIn(w, share)
      PROVE  g.week = w /\ g.holder \in DOMAIN share /\ g = Assigned(g.holder, w, share[g.holder])
               /\ g.days = share[g.holder] /\ g.days \in Nat
  <2>1. PICK i \in DOMAIN f : g = Assigned(i, w, share[i]) BY <1>5
  <2>2. g.holder = i /\ g.week = w /\ g.days = share[i] BY <2>1, AssignedIs
  <2> QED BY <1>1, <1>3, <2>1, <2>2
<1> QED BY <1>2, <1>4, <1>6

LEMMA NoWeeksGiven ==
  ASSUME NEW holders, NEW name, NEW demand
  PROVE  GivenWeeks(holders, name, demand, {}, NothingGiven(holders))
<1> DEFINE t == NothingGiven(holders)
<1>1. t = [given |-> {}, total |-> [i \in DOMAIN holders |-> 0],
           last |-> [i \in DOMAIN holders |-> -2], left |-> 0, unallocated |-> 0]
  BY DEF NothingGiven
<1>2. t.given = {} /\ t.total \in [DOMAIN holders -> Int] /\ t.last \in [DOMAIN holders -> Int]
  BY <1>1
<1>3. Record(t) BY <1>1 DEF Record
<1> HIDE DEF t
<1> QED BY <1>2, <1>3, FS_EmptySet DEF GivenWeeks, GiverTyped, t

LEMMA NextWeekGiven ==
  ASSUME NEW holders, AskedOf(holders), NEW name, NEW demand, NEW U, NEW w \in U, w \in Int,
         demand[<<w, name>>] \in Nat, NEW t, GivenWeeks(holders, name, demand, U \ {w}, t)
  PROVE  GivenWeeks(holders, name, demand, U, GiveWeek(holders, t, w, demand[<<w, name>>]))
<1> DEFINE days == demand[<<w, name>>]
           u == GiveWeek(holders, t, w, days)
<1>1. /\ GiverTyped(holders, t) /\ IsFiniteSet(t.given)
      /\ \A g \in t.given : g.week \in U \ {w}
      /\ \A v \in U \ {w} : WeekShared(holders, v, demand[<<v, name>>], t)
  BY DEF GivenWeeks
<1>0. days \in Nat OBVIOUS
<1> HIDE DEF days
<1>2. GiverTyped(holders, u)
      /\ \E share : SharedOut(holders, w, days, share) /\ u.given = t.given \cup AssignedIn(w, share)
  BY <1>0, <1>1, GivenInWeek
<1> HIDE DEF u
<1>3. PICK share : SharedOut(holders, w, days, share) /\ u.given = t.given \cup AssignedIn(w, share)
  BY <1>2
<1>4. IsFiniteSet(AssignedIn(w, share)) /\ \A g \in AssignedIn(w, share) : g.week = w
  BY <1>3, AssignedFinite DEF SharedOut
<1>5. IsFiniteSet(u.given)
  <2>1. IsFiniteSet(t.given) /\ IsFiniteSet(AssignedIn(w, share)) BY <1>1, <1>4
  <2> QED BY ONLY <1>3, <2>1, FS_Union
<1>6. \A g \in u.given : g.week \in U BY <1>1, <1>3, <1>4
<1>7. {g \in u.given : g.week = w} = AssignedIn(w, share) BY <1>1, <1>3, <1>4
<1>8. ASSUME NEW v \in U  PROVE WeekShared(holders, v, demand[<<v, name>>], u)
  <2>1. CASE v = w BY <1>3, <1>7, <2>1 DEF WeekShared, days
  <2>2. CASE v # w
    <3>1. {g \in u.given : g.week = v} = {g \in t.given : g.week = v} BY <1>3, <1>4, <2>2
    <3>2. WeekShared(holders, v, demand[<<v, name>>], t) BY <1>1, <2>2
    <3> QED BY <3>1, <3>2 DEF WeekShared
  <2> QED BY <2>1, <2>2
<1> QED BY <1>2, <1>5, <1>6, <1>8 DEF GivenWeeks, u, days

(* Demand by week and name of a role: days from the first week on. *)
IsDemand(demand) ==
  IsFiniteSet(DOMAIN demand) /\ \A k \in DOMAIN demand : k = <<k[1], k[2]>> /\ k[1] \in Int /\ demand[k] \in Nat

WeeksAsked(demand, name) == {k[1] : k \in RowsOf(demand, name)}

LEMMA WeeksAre ==
  ASSUME NEW demand, IsDemand(demand), NEW name
  PROVE  /\ IsFiniteSet(WeeksAsked(demand, name)) /\ WeeksAsked(demand, name) \subseteq Int
         /\ \A w : w \in WeeksAsked(demand, name) <=>
                     <<w, name>> \in DOMAIN demand /\ demand[<<w, name>>] > 0
         /\ \A w \in WeeksAsked(demand, name) : demand[<<w, name>>] \in Nat
<1> DEFINE R == RowsOf(demand, name)
           f == [k \in R |-> k[1]]
<1>1. R \subseteq DOMAIN demand /\ \A k : k \in R <=> k \in DOMAIN demand /\ k[2] = name /\ demand[k] > 0
  BY DEF RowsOf
<1>2. WeeksAsked(demand, name) = {f[k] : k \in DOMAIN f} /\ DOMAIN f = R /\ \A k \in R : f[k] = k[1]
  BY DEF WeeksAsked
<1> HIDE DEF R, f
<1>3. IsFiniteSet(R) BY <1>1, FS_Subset DEF IsDemand
<1>4. IsFiniteSet(WeeksAsked(demand, name)) BY <1>2, <1>3, ImageFinite
<1>5. \A k \in R : k[1] \in Int /\ k = <<k[1], name>> /\ demand[k] \in Nat BY <1>1 DEF IsDemand
<1>6. ASSUME NEW w
      PROVE  w \in WeeksAsked(demand, name) <=> <<w, name>> \in DOMAIN demand /\ demand[<<w, name>>] > 0
  <2>1. ASSUME w \in WeeksAsked(demand, name)
        PROVE  <<w, name>> \in DOMAIN demand /\ demand[<<w, name>>] > 0
    <3>1. PICK k \in R : w = k[1] BY <1>2, <2>1
    <3>2. k = <<w, name>> BY <1>5, <3>1
    <3> QED BY <1>1, <3>1, <3>2
  <2>2. ASSUME <<w, name>> \in DOMAIN demand, demand[<<w, name>>] > 0
        PROVE  w \in WeeksAsked(demand, name)
    <3>1. <<w, name>> \in R /\ <<w, name>>[1] = w BY <1>1, <2>2
    <3> QED BY <1>2, <3>1
  <2> QED BY <2>1, <2>2
<1>7. \A w \in WeeksAsked(demand, name) : demand[<<w, name>>] \in Nat /\ w \in Int
  <2> TAKE w \in WeeksAsked(demand, name)
  <2>1. PICK k \in R : w = k[1] BY <1>2
  <2> QED BY <1>5, <2>1
<1> QED BY <1>4, <1>6, <1>7

LEMMA AssignmentIs ==
  ASSUME NEW resolved, NEW demand, IsDemand(demand),
         AskedOf(Holders(resolved, RowsOf(demand, resolved.name) # {}))
  PROVE  GivenWeeks(Holders(resolved, RowsOf(demand, resolved.name) # {}), resolved.name, demand,
                    WeeksAsked(demand, resolved.name), Assignment(resolved, demand))
<1> DEFINE name == resolved.name
           holders == Holders(resolved, RowsOf(demand, name) # {})
           W == WeeksAsked(demand, name)
           g == CHOOSE g : IsWeeks(holders, name, demand, W, g)
<1>1. IsFiniteSet(W) /\ W \subseteq Int /\ \A w \in W : demand[<<w, name>>] \in Nat BY WeeksAre
<1>2. IsWeeks(holders, name, demand, W, g)
  <2> HIDE DEF holders, name, W
  <2> QED BY <1>1, WeeksExist
<1>3. Assignment(resolved, demand) = g[W]
  BY DEF Assignment, MapThenFoldSet, IsWeeks, WeekStep, WeeksAsked
<1> HIDE DEF g
<1>4. \A U \in SUBSET W : g[U] = WeekStep(holders, name, demand, g, U) BY <1>2 DEF IsWeeks
<1>0. AskedOf(holders) OBVIOUS
<1> HIDE DEF name, holders, W
<1> DEFINE Good(U) == GivenWeeks(holders, name, demand, U, g[U])
           F == {U \in SUBSET W : ~ Good(U)}
<1>5. F = {}
  <2> SUFFICES ASSUME F # {}  PROVE FALSE OBVIOUS
  <2>1. PICK U \in F : \A x \in U : U \ {x} \notin F BY <1>1, Minimal
  <2>2. U \in SUBSET W /\ ~ Good(U) BY <2>1
  <2>3. U # {}
    <3>1. g[{}] = NothingGiven(holders) BY <1>4 DEF WeekStep
    <3>2. Good({}) BY <3>1, NoWeeksGiven
    <3> QED BY <2>2, <3>2
  <2> DEFINE w == Max(U)
  <2>4. IsFiniteSet(U) /\ U \subseteq Int BY <1>1, <2>2, CountIs
  <2>5. w \in U BY <2>3, <2>4, MaxMin
  <2>6. g[U] = GiveWeek(holders, g[U \ {w}], w, demand[<<w, name>>])
    BY <1>4, <2>2, <2>3 DEF WeekStep
  <2> HIDE DEF w
  <2>7. U \ {w} \notin F BY <2>1, <2>5
  <2>8. Good(U \ {w}) BY <2>2, <2>7
  <2>9. w \in Int /\ demand[<<w, name>>] \in Nat BY <1>1, <2>2, <2>5
  <2> DEFINE t == g[U \ {w}]
  <2>10. GivenWeeks(holders, name, demand, U \ {w}, t) BY <2>8
  <2> HIDE DEF t, F
  <2>11. GivenWeeks(holders, name, demand, U, GiveWeek(holders, t, w, demand[<<w, name>>]))
    BY <1>0, <2>5, <2>9, <2>10, NextWeekGiven
  <2> QED BY <2>2, <2>6, <2>11 DEF t
<1>6. Good(W) BY <1>5
<1> QED BY <1>3, <1>6 DEF name, holders, W

LEMMA DaysOver ==
  ASSUME NEW S, IsFiniteSet(S), \A g \in S : g.days \in Nat, NEW g \in S
  PROVE  Days(S) >= g.days
<1>1. IsFiniteSet(S \ {g}) /\ g \notin S \ {g} /\ S = (S \ {g}) \cup {g} BY CountIs
<1>2. Days(S) = Days(S \ {g}) + g.days
  <2>1. Days((S \ {g}) \cup {g}) = Days(S \ {g}) + g.days BY <1>1, DaysAdded
  <2> QED BY <1>1, <2>1
<1>3. Days(S \ {g}) \in Nat
  <2> DEFINE f == [x \in S \ {g} |-> x.days]
  <2>1. Numbers(f) /\ \A x \in DOMAIN f : f[x] >= 0 BY <1>1, DaysInt
  <2>2. Days(S \ {g}) = SumFunction(f) BY DEF Days
  <2> HIDE DEF f
  <2> QED BY <2>1, <2>2, SumNat
<1> QED BY <1>2, <1>3

(* Around each week there is a run of weeks. *)
LEMMA RunAround ==
  ASSUME NEW W, IsFiniteSet(W), W \subseteq Int, NEW w \in W
  PROVE  \E a, b \in W : a <= w /\ w <= b /\ a .. b \subseteq W /\ a - 1 \notin W /\ b + 1 \notin W
<1> DEFINE A == {a \in W : a <= w /\ a .. w \subseteq W}
           B == {b \in W : w <= b /\ w .. b \subseteq W}
           a == Min(A)
           b == Max(B)
<1>1. w .. w = {w} /\ w \in Int OBVIOUS
<1>2. w \in A /\ w \in B BY <1>1
<1>3. IsFiniteSet(A) /\ IsFiniteSet(B) /\ A \subseteq Int /\ B \subseteq Int BY FS_Subset
<1>4. a \in A /\ (\A x \in A : a <= x) /\ b \in B /\ \A x \in B : x <= b BY <1>2, <1>3, MaxMin
<1> HIDE DEF a, b
<1>5. a \in W /\ a \in Int /\ a <= w /\ a .. w \subseteq W /\ b \in W /\ b \in Int /\ w <= b /\ w .. b \subseteq W
  BY <1>4
<1>6. a .. b \subseteq W
  <2> SUFFICES ASSUME NEW x \in a .. b  PROVE x \in W
    OBVIOUS
  <2>1. x \in a .. w \/ x \in w .. b BY <1>1, <1>5
  <2> QED BY <1>5, <2>1
<1>7. a - 1 \notin W
  <2> SUFFICES ASSUME a - 1 \in W  PROVE FALSE OBVIOUS
  <2>1. (a - 1) .. w = {a - 1} \cup (a .. w) BY <1>1, <1>5
  <2>2. a - 1 <= w BY <1>1, <1>5
  <2>3. a - 1 \in A BY <1>5, <2>1, <2>2
  <2>4. a <= a - 1 BY <1>4, <2>3
  <2> QED BY <1>5, <2>4
<1>8. b + 1 \notin W
  <2> SUFFICES ASSUME b + 1 \in W  PROVE FALSE OBVIOUS
  <2>1. w .. (b + 1) = {b + 1} \cup (w .. b) BY <1>1, <1>5
  <2>2. w <= b + 1 BY <1>1, <1>5
  <2>3. b + 1 \in B BY <1>5, <2>1, <2>2
  <2>4. b + 1 <= b BY <1>4, <2>3
  <2> QED BY <1>5, <2>4
<1> QED BY <1>5, <1>6, <1>7, <1>8

LEMMA SpanAround ==
  ASSUME NEW made, IsFiniteSet(made.given), \A g \in made.given : g.week \in Int /\ g.days \in Nat,
         NEW g \in made.given
  PROVE  \E s \in AssignedSegments(made, g.holder) : s.from <= g.week /\ g.week <= s.to /\ s.days >= g.days
<1> DEFINE mine == {h \in made.given : h.holder = g.holder}
           f == [h \in mine |-> h.week]
           W == {h.week : h \in mine}
           within(c, d) == {h \in mine : h.week \in c .. d}
           span(c, d) == [from |-> c, to |-> d, days |-> SumOver(within(c, d), LAMBDA h : h.days)]
<1>1. IsFiniteSet(mine) BY FS_Subset
<1>2. IsFiniteSet(W)
  <2>1. W = {f[h] : h \in DOMAIN f} OBVIOUS
  <2> HIDE DEF mine
  <2> QED BY <1>1, <2>1, ImageFinite
<1>3. W \subseteq Int /\ g.week \in W OBVIOUS
<1> HIDE DEF W
<1>4. PICK a \in W, b \in W : a <= g.week /\ g.week <= b /\ a .. b \subseteq W /\ a - 1 \notin W /\ b + 1 \notin W
  BY <1>2, <1>3, RunAround
<1>5. AssignedSegments(made, g.holder) =
        {span(s[1], s[2]) : s \in {s \in W \X W : /\ s[1] <= s[2] /\ s[1] .. s[2] \subseteq W
                                                 /\ s[1] - 1 \notin W /\ s[2] + 1 \notin W}}
  BY DEF AssignedSegments, W
<1>6. a \in Int /\ b \in Int /\ g.week \in Int /\ a <= b BY <1>3, <1>4
<1>7. span(a, b) \in AssignedSegments(made, g.holder)
  <2> DEFINE s == <<a, b>>
  <2>1. s \in W \X W /\ s[1] = a /\ s[2] = b BY <1>4
  <2> HIDE DEF s, span
  <2> QED BY <1>4, <1>5, <1>6, <2>1
<1>8. span(a, b).days >= g.days
  <2> DEFINE S == within(a, b)
  <2>1. span(a, b).days = Days(S) BY DaysIs
  <2>2. IsFiniteSet(S) /\ \A h \in S : h.days \in Nat BY <1>1, FS_Subset
  <2>3. g \in S BY <1>4, <1>6
  <2> HIDE DEF S, span
  <2> QED BY <2>1, <2>2, <2>3, DaysOver
<1>9. span(a, b).from = a /\ span(a, b).to = b OBVIOUS
<1> QED BY <1>4, <1>7, <1>8, <1>9

(* A week of an assignment. *)
LEMMA WeekIs ==
  ASSUME NEW holders, AskedOf(holders), NEW w, NEW days, NEW share, SharedOut(holders, w, days, share)
  PROVE  LET G == AssignedIn(w, share)
         IN  /\ Days(G) = Min({days, Together(holders, w)})
             /\ \A g, h \in G : g.holder = h.holder => g = h
             /\ \A g \in G : /\ g.holder \in DOMAIN holders /\ g.days \in Nat
                             /\ g.days <= HolderCapacity(holders[g.holder], w)
<1> DEFINE G == AssignedIn(w, share)
           f == Got(share)
           h == [i \in DOMAIN f |-> Assigned(i, w, share[i])]
<1>1. NatsOf(share) /\ DOMAIN share \subseteq DOMAIN holders
      /\ (\A i \in DOMAIN share : share[i] <= HolderCapacity(holders[i], w))
      /\ SumFunction(f) = Min({days, Together(holders, w)})
  BY DEF SharedOut
<1>2. \A g \in G : /\ g.holder \in DOMAIN share /\ g = Assigned(g.holder, w, share[g.holder])
                   /\ g.days = share[g.holder] /\ g.days \in Nat
  BY <1>1, AssignedFinite
<1>3. G = {h[i] : i \in DOMAIN h} /\ DOMAIN h = DOMAIN f BY DEF AssignedIn
<1>4. Numbers(f) /\ \A i \in DOMAIN f : f[i] = share[i] BY <1>1, GotNumbers DEF Got
<1>5. \A i \in DOMAIN f : h[i] = Assigned(i, w, share[i]) OBVIOUS
<1> HIDE DEF f, h, G
<1>6. \A i \in DOMAIN f : h[i].days = f[i] /\ h[i].holder = i BY <1>4, <1>5, AssignedIs
<1>7. \A i, j \in DOMAIN f : h[i] = h[j] => i = j BY <1>6
<1>8. Days(G) = SumFunction(f) BY <1>3, <1>4, <1>6, <1>7, DaysNamed
<1>9. \A g, k \in G : g.holder = k.holder => g = k BY <1>2
<1> QED BY <1>1, <1>2, <1>8, <1>9 DEF G

AskedIn(demand, name, w) == IF <<w, name>> \in DOMAIN demand THEN demand[<<w, name>>] ELSE 0

GivenAt(made, w) == {g \in made.given : g.week = w}

(* Nothing is given in weeks nobody is asked for anything. *)
LEMMA GivenAre ==
  ASSUME NEW holders, AskedOf(holders), NEW name, NEW demand, IsDemand(demand), NEW made,
         GivenWeeks(holders, name, demand, WeeksAsked(demand, name), made)
  PROVE  /\ \A g \in made.given : /\ g.week \in Int /\ g.days \in Nat /\ g.holder \in DOMAIN holders
                                  /\ g.days <= HolderCapacity(holders[g.holder], g.week)
         /\ \A w : Days(GivenAt(made, w)) = Min({AskedIn(demand, name, w), Together(holders, w)})
         /\ \A w : \A g, h \in GivenAt(made, w) : g.holder = h.holder => g = h
         /\ IsFiniteSet(made.given) /\ DOMAIN made.total = DOMAIN holders
<1> DEFINE W == WeeksAsked(demand, name)
<1>1. /\ W \subseteq Int
      /\ \A w : w \in W <=> <<w, name>> \in DOMAIN demand /\ demand[<<w, name>>] > 0
  BY WeeksAre
<1> HIDE DEF W
<1>2. /\ IsFiniteSet(made.given) /\ DOMAIN made.total = DOMAIN holders
      /\ \A g \in made.given : g.week \in W
      /\ \A w \in W : WeekShared(holders, w, demand[<<w, name>>], made)
  BY DEF GivenWeeks, GiverTyped, W
<1>3. ASSUME NEW w \in W
      PROVE  /\ Days(GivenAt(made, w)) = Min({AskedIn(demand, name, w), Together(holders, w)})
             /\ \A g, h \in GivenAt(made, w) : g.holder = h.holder => g = h
             /\ \A g \in GivenAt(made, w) : /\ g.holder \in DOMAIN holders /\ g.days \in Nat
                                            /\ g.days <= HolderCapacity(holders[g.holder], w)
  <2>1. PICK share : SharedOut(holders, w, demand[<<w, name>>], share) /\ GivenAt(made, w) = AssignedIn(w, share)
    BY <1>2 DEF WeekShared, GivenAt
  <2>2. AskedIn(demand, name, w) = demand[<<w, name>>] BY <1>1 DEF AskedIn
  <2> QED BY <2>1, <2>2, WeekIs
<1>4. ASSUME NEW w, w \notin W
      PROVE  /\ Days(GivenAt(made, w)) = Min({AskedIn(demand, name, w), Together(holders, w)})
             /\ GivenAt(made, w) = {}
  <2>1. GivenAt(made, w) = {} BY <1>2, <1>4 DEF GivenAt
  <2>2. Days({}) = 0 BY SumNone DEF Days
  <2>3. AskedIn(demand, name, w) = 0
    <3>1. CASE <<w, name>> \in DOMAIN demand
      <4>1. demand[<<w, name>>] \in Nat /\ ~ (demand[<<w, name>>] > 0)
        BY <1>1, <1>4, <3>1 DEF IsDemand
      <4> QED BY <3>1, <4>1 DEF AskedIn
    <3>2. CASE <<w, name>> \notin DOMAIN demand BY <3>2 DEF AskedIn
    <3> QED BY <3>1, <3>2
  <2> DEFINE c == Together(holders, w)
  <2>4. c \in Nat BY AbleCapacity
  <2> HIDE DEF c
  <2>5. Min({0, c}) = 0
    <3>1. Min({0, c}) = IF 0 <= c THEN 0 ELSE c BY <2>4, TwoOf
    <3> QED BY <2>4, <3>1
  <2> QED BY <2>1, <2>2, <2>3, <2>5 DEF c
<1>5. ASSUME NEW g \in made.given
      PROVE  /\ g.week \in Int /\ g.days \in Nat /\ g.holder \in DOMAIN holders
             /\ g.days <= HolderCapacity(holders[g.holder], g.week)
  <2>1. g.week \in W /\ g \in GivenAt(made, g.week) BY <1>2 DEF GivenAt
  <2> QED BY <1>1, <1>3, <2>1
<1> QED BY <1>2, <1>3, <1>4, <1>5

(* What a role is given of what it is asked, week by week. *)
UsedUp(resolved, shown, demand, w) ==
  /\ SumOver(GivenAt(shown, w), LAMBDA g : g.days)
       = Min({AskedIn(demand, resolved.name, w), WeeklyCapacity(resolved, w)})
  /\ \A g, h \in GivenAt(shown, w) : g.holder = h.holder => g = h
  /\ \A g \in GivenAt(shown, w) :
       \E s \in shown.spans[g.holder] : s.from <= w /\ w <= s.to /\ s.days >= g.days
  /\ \A g \in GivenAt(shown, w) : g.days <= HolderCapacity(Holders(resolved, TRUE)[g.holder], w)

LEMMA MadeIs ==
  ASSUME NEW role, Read(role), NEW demand, IsDemand(demand)
  PROVE  LET resolved == Resolve(role)
             holders == Holders(resolved, RowsOf(demand, resolved.name) # {})
             made == Assignment(resolved, demand)
         IN  /\ AskedOf(holders) /\ DOMAIN made.total = DOMAIN holders
             /\ RowsOf(demand, resolved.name) = {} => made.given = {}
             /\ \A w : Days(GivenAt(made, w)) = Min({AskedIn(demand, resolved.name, w), WeeklyCapacity(resolved, w)})
             /\ \A w : \A g, h \in GivenAt(made, w) : g.holder = h.holder => g = h
             /\ IsFiniteSet(made.given)
             /\ \A g \in made.given : /\ g.week \in Int /\ g.days \in Nat /\ g.holder \in DOMAIN holders
                                      /\ holders = Holders(resolved, TRUE)
                                      /\ g.days <= HolderCapacity(holders[g.holder], g.week)
<1> DEFINE resolved == Resolve(role)
           name == resolved.name
           asked == RowsOf(demand, name) # {}
           holders == Holders(resolved, asked)
           all == Holders(resolved, TRUE)
           made == Assignment(resolved, demand)
           W == WeeksAsked(demand, name)
<1>1. asked \in BOOLEAN OBVIOUS
<1>2. AskedOf(holders) /\ AskedOf(all) /\ \A w : Together(all, w) = WeeklyCapacity(resolved, w)
  <2> HIDE DEF asked
  <2> QED BY <1>1, HoldersAre
<1>3. GivenWeeks(holders, name, demand, W, made)
  <2>1. AskedOf(holders) BY <1>2
  <2> HIDE DEF resolved
  <2> QED BY <2>1, AssignmentIs
<1>4. asked => holders = all
  <2> HIDE DEF resolved
  <2> QED  OBVIOUS
<1>5. ~asked => W = {} BY DEF WeeksAsked
<1> HIDE DEF resolved, asked, holders, all, made
<1>6. /\ \A g \in made.given : /\ g.week \in Int /\ g.days \in Nat /\ g.holder \in DOMAIN holders
                               /\ g.days <= HolderCapacity(holders[g.holder], g.week)
      /\ \A w : Days(GivenAt(made, w)) = Min({AskedIn(demand, name, w), Together(holders, w)})
      /\ \A w : \A g, h \in GivenAt(made, w) : g.holder = h.holder => g = h
      /\ IsFiniteSet(made.given) /\ DOMAIN made.total = DOMAIN holders
  BY <1>2, <1>3, GivenAre
<1>7. ~asked => made.given = {} BY <1>3, <1>5 DEF GivenWeeks
<1>8. ASSUME NEW w  PROVE Days(GivenAt(made, w)) = Min({AskedIn(demand, name, w), WeeklyCapacity(resolved, w)})
  <2>1. CASE asked BY <1>2, <1>4, <1>6, <2>1
  <2>2. CASE ~asked
    <3>1. AskedIn(demand, name, w) = 0
      <4>1. CASE <<w, name>> \in DOMAIN demand
        <5>1. demand[<<w, name>>] \in Nat BY <4>1 DEF IsDemand
        <5>2. ~ (demand[<<w, name>>] > 0) BY <1>5, <2>2, <4>1, WeeksAre
        <5> QED BY <4>1, <5>1, <5>2 DEF AskedIn
      <4>2. CASE <<w, name>> \notin DOMAIN demand BY <4>2 DEF AskedIn
      <4> QED BY <4>1, <4>2
    <3> DEFINE c == WeeklyCapacity(resolved, w)
    <3>2. c \in Nat
      <4>1. Together(all, w) \in Nat BY <1>2, AbleCapacity
      <4> QED BY <1>2, <4>1
    <3> HIDE DEF c
    <3>3. Min({0, c}) = 0
      <4>1. Min({0, c}) = IF 0 <= c THEN 0 ELSE c BY <3>2, TwoOf
      <4> QED BY <3>2, <4>1
    <3>4. Days(GivenAt(made, w)) = 0
      <4>1. GivenAt(made, w) = {} BY <1>7, <2>2 DEF GivenAt
      <4>2. Days({}) = 0 BY SumNone DEF Days
      <4> QED BY <4>1, <4>2
    <3> QED BY <3>1, <3>3, <3>4 DEF c
  <2> QED BY <2>1, <2>2
<1>9. \A g \in made.given : holders = all BY <1>4, <1>7
<1> QED BY <1>2, <1>6, <1>7, <1>8, <1>9 DEF resolved, asked, holders, all, made

LEMMA RoleUsedUp ==
  ASSUME NEW role, Read(role), NEW demand, IsDemand(demand), NEW w
  PROVE  UsedUp(Resolve(role), ShownAssignment(Resolve(role), demand), demand, w)
<1> DEFINE resolved == Resolve(role)
           name == resolved.name
           asked == RowsOf(demand, name) # {}
           holders == Holders(resolved, asked)
           all == Holders(resolved, TRUE)
           made == Assignment(resolved, demand)
           shown == ShownAssignment(resolved, demand)
<1>1. /\ DOMAIN made.total = DOMAIN holders
      /\ Days(GivenAt(made, w)) = Min({AskedIn(demand, name, w), WeeklyCapacity(resolved, w)})
      /\ \A g, h \in GivenAt(made, w) : g.holder = h.holder => g = h
      /\ IsFiniteSet(made.given)
      /\ \A g \in made.given : /\ g.week \in Int /\ g.days \in Nat /\ g.holder \in DOMAIN holders
                               /\ holders = all
                               /\ g.days <= HolderCapacity(holders[g.holder], g.week)
  BY MadeIs
<1>2. shown.given = made.given /\ shown.spans = [i \in DOMAIN made.total |-> AssignedSegments(made, i)]
  BY DEF ShownAssignment, Shown
<1> HIDE DEF resolved, name, asked, holders, all, made, shown
<1>3. GivenAt(shown, w) = GivenAt(made, w) BY <1>2 DEF GivenAt
<1>4. SumOver(GivenAt(shown, w), LAMBDA g : g.days) = Min({AskedIn(demand, name, w), WeeklyCapacity(resolved, w)})
  BY <1>1, <1>3, DaysIs
<1>5. ASSUME NEW g \in GivenAt(shown, w)
      PROVE  \E s \in shown.spans[g.holder] : s.from <= w /\ w <= s.to /\ s.days >= g.days
  <2>1. g \in made.given /\ g.week = w BY <1>3, <1>5 DEF GivenAt
  <2>2. \E s \in AssignedSegments(made, g.holder) : s.from <= g.week /\ g.week <= s.to /\ s.days >= g.days
    BY <1>1, <2>1, SpanAround
  <2>3. shown.spans[g.holder] = AssignedSegments(made, g.holder) BY <1>1, <1>2, <2>1
  <2> QED BY <2>1, <2>2, <2>3
<1>6. \A g \in GivenAt(shown, w) : g.days <= HolderCapacity(all[g.holder], w)
  BY <1>1, <1>3 DEF GivenAt
<1>7. \A g, h \in GivenAt(shown, w) : g.holder = h.holder => g = h BY <1>1, <1>3
<1> QED BY <1>4, <1>5, <1>6, <1>7 DEF UsedUp, resolved, name, all, shown

----
(* What a plannable project demands. *)

LEMMA PlannableIs ==
  ASSUME NEW p, IsPlannable(p)
  PROVE  /\ IsFiniteSet(DOMAIN p.roles) /\ DOMAIN p.roles \subseteq Nat /\ \A i \in DOMAIN p.roles : IsStaffed(p.roles[i])
         /\ IsFiniteSet(DOMAIN p.features)
         /\ \A i \in DOMAIN p.features : IsFeature(p.features[i], Ids(p)) /\ IsScheduled(p.features[i])
         /\ IsFiniteSet(DOMAIN p.cache) /\ DOMAIN p.cache \subseteq Nat
         /\ \A i \in DOMAIN p.cache : p.cache[i].week \in Nat /\ p.cache[i].days \in Nat
         /\ IsFiniteSet(Ids(p)) /\ p.buffer \in Nat /\ p.onboarding \in Nat
<1> DEFINE roles == p.roles
           fs == p.features
           rows == p.cache
           ids == [i \in DOMAIN roles |-> roles[i].id]
<1>1. /\ InSeq(roles) /\ \A i \in DOMAIN roles : IsStaffed(roles[i])
      /\ InSeq(fs) /\ \A i \in DOMAIN fs : IsFeature(fs[i], Ids(p)) /\ IsScheduled(fs[i])
      /\ InSeq(rows) /\ \A i \in DOMAIN rows : rows[i].week \in Nat /\ rows[i].days \in Nat
      /\ p.buffer \in Nat /\ p.onboarding \in Nat
  BY DEF IsPlannable
<1>2. Ids(p) = {ids[i] : i \in DOMAIN ids} /\ DOMAIN ids = DOMAIN roles BY DEF Ids
<1> HIDE DEF roles, fs, rows, ids
<1>3. /\ IsFiniteSet(DOMAIN roles) /\ DOMAIN roles = 1 .. Len(roles) /\ Len(roles) \in Nat
      /\ IsFiniteSet(DOMAIN fs)
      /\ IsFiniteSet(DOMAIN rows) /\ DOMAIN rows = 1 .. Len(rows) /\ Len(rows) \in Nat
  BY <1>1, SeqIs
<1>4. IsFiniteSet(Ids(p)) BY <1>2, <1>3, ImageFinite
<1>5. DOMAIN roles \subseteq Nat /\ DOMAIN rows \subseteq Nat BY <1>3
<1> QED BY <1>1, <1>3, <1>4, <1>5 DEF roles, fs, rows

LEMMA TenthNat ==
  ASSUME NEW x \in Nat  PROVE ToTenth(x) \in Nat
<1>1. ToTenth(x) = 12 * ((2 * x + 12) \div 24) BY DEF ToTenth, Day
<1>2. (2 * x + 12) \div 24 \in Nat OBVIOUS
<1> QED BY <1>1, <1>2

(* Entries with a length, on the timeline. *)
LEMMA EntriesAre ==
  ASSUME NEW p, IsPlannable(p)
  PROVE  /\ IsFiniteSet(ActiveEntries(p)) /\ ActiveEntries(p) \subseteq DOMAIN p.features
         /\ \A i \in ActiveEntries(p) : p.features[i].from \in Nat /\ p.features[i].length \in Nat
<1>1. ActiveEntries(p) \subseteq DOMAIN p.features /\ \A i \in ActiveEntries(p) : p.features[i].from # None
  BY DEF ActiveEntries
<1> QED BY <1>1, PlannableIs, FS_Subset DEF IsScheduled

LEMMA SpreadIs ==
  ASSUME NEW e, NEW ids, IsFeature(e, ids), NEW p, ids = Ids(p), e.from \in Nat, e.length \in Nat, e.length > 0,
         NEW id \in Ids(p) \cup {None}, NEW w \in Int
  PROVE  Spread(p, e, id, w) \in Nat
<1> DEFINE a == Breakdown(p, e)[id]
           b == Overlap(e, w)
           n == e.length
<1>1. Spread(p, e, id, w) = (a * b) \div n BY DEF Spread
<1>2. a \in Nat
  <2>1. a = ToTenth(EffortOf(e, id)) BY DEF Breakdown
  <2>2. EffortOf(e, id) \in Nat BY EffortNat
  <2> QED BY <2>1, <2>2, TenthNat
<1>3. b \in Nat
  <2>1. b = OverlapOf(e.from, e.from + e.length, w) BY DEF Overlap, OverlapOf
  <2>2. e.from \in Int /\ e.from + e.length \in Int OBVIOUS
  <2> HIDE DEF b
  <2> QED BY <2>1, <2>2, OverlapNat
<1>4. n \in Nat /\ n > 0 OBVIOUS
<1> HIDE DEF a, b, n
<1> DEFINE c == a * b
<1>5. c \in Nat BY <1>2, <1>3
<1> HIDE DEF c
<1>6. c \div n \in Nat BY <1>4, <1>5
<1> QED BY <1>1, <1>6 DEF c

LEMMA WeeksFinite ==
  ASSUME NEW e, e.from \in Nat, e.length \in Nat
  PROVE  IsFiniteSet(WeeksOf(e)) /\ WeeksOf(e) \subseteq Int
<1> DEFINE a == e.from \div TicksPerWeek
           b == CeilDiv(e.from + e.length, TicksPerWeek) - 1
<1>1. a \in Int /\ b \in Int
  <2>1. TicksPerWeek \in Int /\ TicksPerWeek > 0 BY ViewAssumption
  <2>2. e.from \div TicksPerWeek \in Int BY <2>1
  <2>3. CeilDiv(e.from + e.length, TicksPerWeek) \in Int
    <3>1. e.from + e.length \in Int OBVIOUS
    <3> QED BY <2>1, <3>1, CeilInt
  <2> QED BY <2>2, <2>3
<1>2. WeeksOf(e) \subseteq a .. b BY DEF WeeksOf
<1> HIDE DEF a, b
<1>3. IsFiniteSet(a .. b) /\ a .. b \subseteq Int BY <1>1, FS_Interval
<1> QED BY <1>2, <1>3, FS_Subset

(* Several finite sets are a finite set. *)
LEMMA UnionFinite ==
  ASSUME NEW f, IsFiniteSet(DOMAIN f), \A x \in DOMAIN f : IsFiniteSet(f[x])
  PROVE  IsFiniteSet(UNION {f[x] : x \in DOMAIN f})
<1> DEFINE S == {f[x] : x \in DOMAIN f}
<1>1. IsFiniteSet(S) /\ \A s \in S : IsFiniteSet(s) BY ImageFinite
<1> HIDE DEF S
<1>2. IsFiniteSet(UNION S) BY <1>1, FS_UNION
<1> QED BY <1>2 DEF S

LEMMA FallbackIs ==
  ASSUME NEW p, IsPlannable(p)
  PROVE  IsDemand(FallbackDemand(p))
<1> DEFINE es == p.features
           long == {i \in ActiveEntries(p) : es[i].length > 0}
           named(e, n) == {id \in Mentioned(p, e) : NameOfId(p, id) = n}
           rows(i) == {<<w, NameOfId(p, id)>> : w \in WeeksOf(es[i]), id \in Mentioned(p, es[i])}
           keys == UNION {rows(i) : i \in long}
           part(i, key) == SumOver(named(es[i], key[2]), LAMBDA id : Spread(p, es[i], id, key[1]))
           sum(key) == SumOver(long, LAMBDA i : part(i, key))
           demand == FallbackDemand(p)
<1>1. demand = [key \in keys |-> ToTenth(sum(key))] BY DEF FallbackDemand
<1>2. /\ IsFiniteSet(long)
      /\ \A i \in long : /\ IsFeature(es[i], Ids(p)) /\ es[i].from \in Nat /\ es[i].length \in Nat /\ es[i].length > 0
  BY EntriesAre, PlannableIs, FS_Subset
<1>3. \A i \in long : IsFiniteSet(WeeksOf(es[i])) /\ WeeksOf(es[i]) \subseteq Int
  BY <1>2, WeeksFinite
<1>4. \A e : IsFiniteSet(Mentioned(p, e)) /\ Mentioned(p, e) \subseteq Ids(p) \cup {None}
  <2>1. IsFiniteSet(Ids(p) \cup {None}) BY PlannableIs, FS_AddElement
  <2>2. \A e : Mentioned(p, e) \subseteq Ids(p) \cup {None} BY DEF Mentioned
  <2> QED BY <2>1, <2>2, FS_Subset
<1>5. \A i \in long : IsFiniteSet(rows(i)) /\ \A k \in rows(i) : k = <<k[1], k[2]>> /\ k[1] \in Int
  <2> SUFFICES ASSUME NEW i \in long
               PROVE  IsFiniteSet(rows(i)) /\ \A k \in rows(i) : k = <<k[1], k[2]>> /\ k[1] \in Int
    OBVIOUS
  <2> DEFINE W == WeeksOf(es[i])
             M == Mentioned(p, es[i])
             h == [x \in W \X M |-> <<x[1], NameOfId(p, x[2])>>]
  <2>1. IsFiniteSet(W) /\ IsFiniteSet(M) /\ W \subseteq Int BY <1>3, <1>4
  <2>2. rows(i) = {h[x] : x \in DOMAIN h}
    <3>1. rows(i) = {<<w, NameOfId(p, id)>> : w \in W, id \in M} OBVIOUS
    <3> HIDE DEF W, M, rows
    <3>2. ASSUME NEW k \in rows(i)  PROVE k \in {h[x] : x \in DOMAIN h}
      <4>1. PICK w \in W, id \in M : k = <<w, NameOfId(p, id)>> BY <3>1
      <4>2. <<w, id>> \in DOMAIN h /\ h[<<w, id>>] = k BY <4>1
      <4> QED BY <4>2
    <3>3. ASSUME NEW k \in {h[x] : x \in DOMAIN h}  PROVE k \in rows(i)
      <4>1. PICK x \in DOMAIN h : k = h[x] OBVIOUS
      <4>2. x \in W \X M BY <4>1
      <4>3. x[1] \in W /\ x[2] \in M /\ k = <<x[1], NameOfId(p, x[2])>> BY <4>1, <4>2
      <4> QED BY <3>1, <4>3
    <3> QED BY <3>2, <3>3
  <2>3. IsFiniteSet(DOMAIN h)
    <3> HIDE DEF W, M
    <3>1. IsFiniteSet(W \X M) BY <2>1, FS_Product
    <3> QED BY <3>1
  <2>4. IsFiniteSet(rows(i))
    <3> HIDE DEF h, rows
    <3> QED BY <2>2, <2>3, ImageFinite
  <2>5. ASSUME NEW k \in rows(i)  PROVE k = <<k[1], k[2]>> /\ k[1] \in Int
    <3>1. PICK w \in W, id \in M : k = <<w, NameOfId(p, id)>> OBVIOUS
    <3> DEFINE n == NameOfId(p, id)
    <3>2. k = <<w, n>> /\ w \in Int BY <2>1, <3>1
    <3> HIDE DEF n
    <3> QED BY <3>2
  <2> QED BY <2>4, <2>5
<1>6. IsFiniteSet(keys)
  <2> DEFINE g == [i \in long |-> rows(i)]
  <2>1. IsFiniteSet(DOMAIN g) /\ \A i \in DOMAIN g : IsFiniteSet(g[i])
    <3>1. \A i \in long : IsFiniteSet(rows(i)) BY <1>5
    <3> HIDE DEF rows, long
    <3> QED BY <1>2, <3>1
  <2>2. keys = UNION {g[i] : i \in DOMAIN g}
    <3> HIDE DEF rows, long
    <3> QED  OBVIOUS
  <2> HIDE DEF g, keys
  <2> QED BY <2>1, <2>2, UnionFinite
<1>7. ASSUME NEW k \in keys  PROVE k = <<k[1], k[2]>> /\ k[1] \in Int
  <2>1. PICK i \in long : k \in rows(i) OBVIOUS
  <2> HIDE DEF rows, long
  <2> QED BY <1>5, <2>1
<1>8. ASSUME NEW k \in keys, NEW i \in long  PROVE part(i, k) \in Nat
  <2> DEFINE S == named(es[i], k[2])
             f == [id \in S |-> Spread(p, es[i], id, k[1])]
  <2>1. part(i, k) = SumFunction(f) BY DEF SumOver
  <2>2. IsFiniteSet(S) /\ S \subseteq Ids(p) \cup {None} BY <1>4, FS_Subset
  <2>3. \A id \in S : Spread(p, es[i], id, k[1]) \in Nat
    <3> HIDE DEF S, es, keys
    <3> QED BY <1>2, <1>7, <2>2, SpreadIs
  <2>4. DOMAIN f = S /\ \A id \in S : f[id] \in Nat BY <2>3
  <2> HIDE DEF f, S
  <2>5. Numbers(f) /\ \A x \in DOMAIN f : f[x] >= 0 BY <2>2, <2>4 DEF Numbers
  <2>6. SumFunction(f) \in Nat BY <2>5, SumNat
  <2> HIDE DEF part
  <2> QED BY <2>1, <2>6
<1>9. ASSUME NEW k \in keys  PROVE ToTenth(sum(k)) \in Nat
  <2> DEFINE f == [i \in long |-> part(i, k)]
  <2>1. sum(k) = SumFunction(f) BY DEF SumOver
  <2>2. DOMAIN f = long /\ \A i \in long : f[i] \in Nat
    <3>1. \A i \in long : part(i, k) \in Nat
      <4> HIDE DEF part, long, keys
      <4> QED BY <1>8
    <3> HIDE DEF part, long
    <3> QED BY <3>1
  <2> HIDE DEF f, sum, long
  <2>3. Numbers(f) /\ \A x \in DOMAIN f : f[x] >= 0 BY <1>2, <2>2 DEF Numbers
  <2>4. SumFunction(f) \in Nat BY <2>3, SumNat
  <2> QED BY <2>1, <2>4, TenthNat
<1> HIDE DEF demand, keys, sum
<1>10. DOMAIN demand = keys /\ \A k \in keys : demand[k] \in Nat BY <1>1, <1>9
<1> QED BY <1>6, <1>7, <1>10 DEF IsDemand, demand

LEMMA ConvertedIs ==
  ASSUME NEW p, IsPlannable(p)
  PROVE  IsDemand(ConvertedCache(p))
<1> DEFINE rows == DOMAIN p.cache
           key == [i \in rows |-> <<p.cache[i].week, NameOfKey(p, p.cache[i].key)>>]
           keys == {key[i] : i \in rows}
           of(k) == {i \in rows : key[i] = k}
           demand == ConvertedCache(p)
<1>1. demand = [k \in keys |-> p.cache[Max(of(k))].days]
  <2>1. keys = {<<p.cache[i].week, NameOfKey(p, p.cache[i].key)>> : i \in rows} OBVIOUS
  <2>2. \A k : of(k) = {i \in rows : <<p.cache[i].week, NameOfKey(p, p.cache[i].key)>> = k} OBVIOUS
  <2> HIDE DEF key, keys, of
  <2> QED BY <2>1, <2>2 DEF ConvertedCache
<1>2. IsFiniteSet(rows) /\ rows \subseteq Nat /\ \A i \in rows : p.cache[i].week \in Nat /\ p.cache[i].days \in Nat
  BY PlannableIs
<1>3. DOMAIN key = rows /\ \A i \in rows : key[i] = <<p.cache[i].week, NameOfKey(p, p.cache[i].key)>>
  OBVIOUS
<1> HIDE DEF rows, key, demand
<1>4. IsFiniteSet(keys) BY <1>2, <1>3, ImageFinite
<1>5. ASSUME NEW k \in keys
      PROVE  k = <<k[1], k[2]>> /\ k[1] \in Int /\ p.cache[Max(of(k))].days \in Nat
  <2>1. PICK i \in rows : k = key[i] OBVIOUS
  <2>2. IsFiniteSet(of(k)) /\ of(k) # {} /\ of(k) \subseteq Int /\ of(k) \subseteq rows
    <3>1. i \in of(k) /\ of(k) \in SUBSET rows BY <2>1
    <3> HIDE DEF of
    <3>2. IsFiniteSet(of(k)) BY ONLY <1>2, <3>1, FS_Subset
    <3>3. rows \subseteq Int BY ONLY <1>2
    <3> QED BY ONLY <3>1, <3>2, <3>3
  <2> DEFINE w == p.cache[i].week
             n == NameOfKey(p, p.cache[i].key)
  <2>3. k = <<w, n>> /\ w \in Nat BY <1>2, <1>3, <2>1
  <2> HIDE DEF w, n, of, keys
  <2>4. Max(of(k)) \in of(k) BY <2>2, MaxMin
  <2>5. k = <<k[1], k[2]>> /\ k[1] \in Int BY <2>3
  <2> QED BY <1>2, <2>2, <2>4, <2>5
<1> HIDE DEF keys, of
<1>6. DOMAIN demand = keys /\ \A k \in keys : demand[k] \in Nat BY <1>1, <1>5
<1> QED BY <1>4, <1>5, <1>6 DEF IsDemand, demand

LEMMA MergedIs ==
  ASSUME NEW fallback, IsDemand(fallback), NEW cached, IsDemand(cached)
  PROVE  IsDemand(MergedDemand(fallback, cached))
<1> DEFINE D == DOMAIN cached \cup Uncached(fallback, cached)
           both == [k \in D |-> IF k \in DOMAIN cached THEN cached[k] ELSE fallback[k]]
           P == {k \in DOMAIN both : both[k] > 0}
           merged == MergedDemand(fallback, cached)
<1>1. merged = [k \in P |-> both[k]] BY DEF MergedDemand, Restrict
<1>2. Uncached(fallback, cached) \subseteq DOMAIN fallback BY DEF Uncached
<1>3. IsFiniteSet(D) BY <1>2, FS_Subset, FS_Union DEF IsDemand
<1>4. ASSUME NEW k \in D  PROVE k = <<k[1], k[2]>> /\ k[1] \in Int /\ both[k] \in Nat
  BY <1>2 DEF IsDemand
<1>5. DOMAIN both = D OBVIOUS
<1> HIDE DEF D, both, merged
<1>6. P \subseteq D /\ IsFiniteSet(P) BY <1>3, <1>5, FS_Subset
<1> HIDE DEF P
<1>7. DOMAIN merged = P /\ \A k \in P : merged[k] = both[k] BY <1>1
<1> QED BY <1>4, <1>6, <1>7 DEF IsDemand, merged

LEMMA DemandIs ==
  ASSUME NEW p, IsPlannable(p)
  PROVE  IsDemand(WeeklyDemand(p))
BY FallbackIs, ConvertedIs, MergedIs DEF WeeklyDemand

----
(* The days of segments. *)

(* Segments one after the other, all before the horizon. *)
Lined(ss) ==
  /\ InSeq(ss)
  /\ \A k \in DOMAIN ss : ss[k].percent \in Nat /\ ss[k].from \in Nat /\ ss[k].to \in ss[k].from .. Horizon
  /\ \A j, k \in DOMAIN ss : j # k => ss[j].to < ss[k].from \/ ss[k].to < ss[j].from

LEMMA LinedOnce ==
  ASSUME NEW ss, Lined(ss), NEW w \in Int, NEW j \in DOMAIN ss, NEW k \in DOMAIN ss,
         Covers(ss[j], w), Covers(ss[k], w)
  PROVE  j = k
<1>1. /\ ss[j].from \in Int /\ ss[j].to \in Int /\ ss[k].from \in Int /\ ss[k].to \in Int
      /\ j # k => ss[j].to < ss[k].from \/ ss[k].to < ss[j].from
  BY StaffingAssumption DEF Lined
<1> QED BY <1>1 DEF Covers

LEMMA LinedPercent ==
  ASSUME NEW ss, Lined(ss), NEW w \in Int
  PROVE  /\ \A k \in DOMAIN ss : Covers(ss[k], w) => PercentAt(ss, w) = ss[k].percent
         /\ (\A k \in DOMAIN ss : ~ Covers(ss[k], w)) => PercentAt(ss, w) = 0
<1> DEFINE I == {k \in 1 .. Len(ss) : Covers(ss[k], w)}
           i == IF I # {} THEN Min(I) ELSE 0
<1>1. PercentAt(ss, w) = IF i = 0 THEN 0 ELSE ss[i].percent BY DEF PercentAt, SelectInSeq
<1>2. Len(ss) \in Nat /\ DOMAIN ss = 1 .. Len(ss) BY SeqIs DEF Lined
<1>3. I \subseteq DOMAIN ss /\ IsFiniteSet(I) /\ I \subseteq Int /\ \A k : k \in I <=> k \in DOMAIN ss /\ Covers(ss[k], w)
  <2>1. IsFiniteSet(1 .. Len(ss)) BY <1>2, FS_Interval
  <2> QED BY <1>2, <2>1, FS_Subset
<1>4. ASSUME NEW k \in DOMAIN ss, Covers(ss[k], w)  PROVE PercentAt(ss, w) = ss[k].percent
  <2>1. I # {} BY <1>3, <1>4
  <2>2. i = Min(I) BY <2>1
  <2> HIDE DEF I, i
  <2>3. i \in I BY <1>3, <2>1, <2>2, MaxMin
  <2>4. i = k BY <1>3, <1>4, <2>3, LinedOnce
  <2>5. k # 0 BY <1>2
  <2> QED BY <1>1, <2>4, <2>5
<1>5. (\A k \in DOMAIN ss : ~ Covers(ss[k], w)) => I = {} BY <1>3
<1> HIDE DEF I
<1> QED BY <1>1, <1>4, <1>5

(* What a segment counts for. *)
Counts(ss, k) == Point * ss[k].percent * SegmentWeeks(ss[k])

(* u is what the segments of K say, week by week. *)
Said(ss, K, u) ==
  /\ DOMAIN u = Weeks
  /\ \A w \in Weeks : /\ \A k \in K : Covers(ss[k], w) => u[w] = Point * ss[k].percent
                      /\ (\A k \in K : ~ Covers(ss[k], w)) => u[w] = 0

LEMMA SaidInts ==
  ASSUME NEW ss, Lined(ss), NEW K, K \subseteq DOMAIN ss, NEW u, Said(ss, K, u)
  PROVE  Numbers(u) /\ IsFiniteSet(Weeks) /\ Weeks \subseteq Int
<1>1. IsFiniteSet(Weeks) /\ Weeks \subseteq Int BY StaffingAssumption, FS_Interval DEF Weeks
<1>2. ASSUME NEW w \in Weeks  PROVE u[w] \in Int
  <2>1. CASE \E k \in K : Covers(ss[k], w)
    <3>1. PICK k \in K : Covers(ss[k], w) BY <2>1
    <3>2. ss[k].percent \in Nat BY DEF Lined
    <3>3. Point * ss[k].percent \in Int BY <3>2 DEF Point, Day
    <3> QED BY <3>1, <3>3 DEF Said
  <2>2. CASE \A k \in K : ~ Covers(ss[k], w) BY <2>2 DEF Said
  <2> QED BY <2>1, <2>2
<1> QED BY <1>1, <1>2 DEF Numbers, Said

LEMMA OneSaid ==
  ASSUME NEW ss, Lined(ss), NEW k \in DOMAIN ss, NEW v, DOMAIN v = Weeks,
         \A w \in Weeks : v[w] = IF Covers(ss[k], w) THEN Point * ss[k].percent ELSE 0
  PROVE  Numbers(v) /\ SumFunction(v) = Counts(ss, k) /\ Counts(ss, k) \in Nat
<1> DEFINE a == ss[k].from
           b == ss[k].to
           c == Point * ss[k].percent
           e == [w \in a .. b |-> c]
<1>1. ss[k].percent \in Nat /\ a \in Nat /\ b \in Int /\ a <= b /\ b <= Horizon /\ Horizon \in Nat
  BY StaffingAssumption DEF Lined
<1>2. c \in Nat BY <1>1 DEF Point, Day
<1>3. \A w : Covers(ss[k], w) <=> a <= w /\ w <= b BY DEF Covers
<1>4. SegmentWeeks(ss[k]) = Max({0, b - a + 1}) BY DEF SegmentWeeks
<1>5. Counts(ss, k) = c * SegmentWeeks(ss[k]) BY DEF Counts
<1> HIDE DEF a, b, c
<1>6. IsFiniteSet(Weeks) /\ Weeks = 0 .. Horizon BY <1>1, FS_Interval DEF Weeks
<1>7. a .. b \subseteq Weeks /\ IsFiniteSet(a .. b) /\ Cardinality(a .. b) = b - a + 1
  <2>1. a .. b \subseteq Weeks BY <1>1, <1>6
  <2>2. a \in Int /\ ~ (a > b) BY <1>1
  <2>3. IsFiniteSet(a .. b) /\ Cardinality(a .. b) = IF a > b THEN 0 ELSE b - a + 1
    BY <1>1, <2>2, FS_Interval
  <2> QED BY <2>1, <2>2, <2>3
<1>8. SegmentWeeks(ss[k]) = b - a + 1 /\ b - a + 1 \in Nat
  <2> DEFINE n == b - a + 1
  <2>1. n \in Int /\ n >= 0 BY <1>1
  <2> HIDE DEF n
  <2>2. Max({0, n}) = n
    <3>1. Max({0, n}) = IF 0 >= n THEN 0 ELSE n BY <2>1, TwoOf
    <3> QED BY <2>1, <3>1
  <2>3. n \in Nat BY <2>1
  <2> QED BY <1>4, <2>2, <2>3 DEF n
<1>9. DOMAIN e = a .. b /\ \A w \in a .. b : e[w] = c OBVIOUS
<1> HIDE DEF e
<1>10. SumFunction(e) = c * (b - a + 1)
  <2>1. SumFunction(e) = c * Cardinality(a .. b)
    <3>1. c \in Int BY <1>2
    <3> DEFINE S == a .. b
    <3>2. IsFiniteSet(S) /\ DOMAIN e = S /\ \A w \in S : e[w] = c BY <1>7, <1>9
    <3> HIDE DEF S
    <3>3. SumFunction(e) = c * Cardinality(S) BY <3>1, <3>2, SumSame
    <3> QED BY <3>3 DEF S
  <2> QED BY <1>7, <2>1
<1>11. \A w \in Weeks : v[w] = IF a <= w /\ w <= b THEN c ELSE 0 BY <1>3 DEF c
<1>12. Numbers(v) BY <1>2, <1>6, <1>11 DEF Numbers
<1>13. SumFunction(v) = SumFunction(e)
  <2>1. \A w \in DOMAIN e : e[w] = v[w] BY <1>1, <1>7, <1>9, <1>11
  <2>2. \A w \in DOMAIN v : w \notin DOMAIN e => v[w] = 0 BY <1>1, <1>6, <1>9, <1>11
  <2> QED BY <1>7, <1>9, <1>12, <2>1, <2>2, SumSupport
<1>14. Counts(ss, k) \in Nat
  <2> DEFINE n == b - a + 1
  <2>1. n \in Nat /\ c \in Nat /\ Counts(ss, k) = c * n BY <1>2, <1>5, <1>8
  <2> HIDE DEF n
  <2> QED BY <2>1
<1> QED BY <1>5, <1>8, <1>10, <1>12, <1>13, <1>14

LEMMA SaidLess ==
  ASSUME NEW ss, Lined(ss), NEW K, K \subseteq DOMAIN ss, NEW k \in K, NEW u, Said(ss, K, u)
  PROVE  \E t : Said(ss, K \ {k}, t) /\ SumFunction(u) = SumFunction(t) + Counts(ss, k)
<1> DEFINE t == [w \in Weeks |-> IF Covers(ss[k], w) THEN 0 ELSE u[w]]
           v == [w \in Weeks |-> IF Covers(ss[k], w) THEN Point * ss[k].percent ELSE 0]
<1>1. DOMAIN t = Weeks /\ DOMAIN v = Weeks /\ DOMAIN u = Weeks BY DEF Said
<1>2. /\ \A w \in Weeks : t[w] = IF Covers(ss[k], w) THEN 0 ELSE u[w]
      /\ \A w \in Weeks : v[w] = IF Covers(ss[k], w) THEN Point * ss[k].percent ELSE 0
  OBVIOUS
<1> HIDE DEF t, v
<1>3. Weeks \subseteq Int /\ Numbers(u) BY SaidInts
<1>4. \A w \in Weeks : /\ \A j \in K : Covers(ss[j], w) => u[w] = Point * ss[j].percent
                       /\ (\A j \in K : ~ Covers(ss[j], w)) => u[w] = 0
  BY DEF Said
<1>5. Said(ss, K \ {k}, t)
  <2>1. ASSUME NEW w \in Weeks, NEW j \in K \ {k}, Covers(ss[j], w)  PROVE t[w] = Point * ss[j].percent
    <3>1. ~ Covers(ss[k], w) BY <1>3, <2>1, LinedOnce
    <3> QED BY <1>2, <1>4, <2>1, <3>1
  <2>2. ASSUME NEW w \in Weeks, \A j \in K \ {k} : ~ Covers(ss[j], w)  PROVE t[w] = 0
    BY <1>2, <1>4, <2>2
  <2> QED BY <1>1, <2>1, <2>2 DEF Said
<1>6. Numbers(t) BY <1>5, SaidInts
<1>7. Numbers(v) /\ SumFunction(v) = Counts(ss, k) BY <1>1, <1>2, OneSaid
<1>8. \A w \in Weeks : u[w] = t[w] + v[w]
  <2> SUFFICES ASSUME NEW w \in Weeks  PROVE u[w] = t[w] + v[w]
    OBVIOUS
  <2>1. u[w] \in Int BY <1>1, <1>3 DEF Numbers
  <2>2. CASE Covers(ss[k], w)
    <3>1. u[w] = Point * ss[k].percent BY <1>4, <2>2
    <3>2. t[w] = 0 /\ v[w] = u[w] BY <1>2, <2>2, <3>1
    <3> QED BY <2>1, <3>2
  <2>3. CASE ~ Covers(ss[k], w)
    <3>1. t[w] = u[w] /\ v[w] = 0 BY <1>2, <2>3
    <3> QED BY <2>1, <3>1
  <2> QED BY <2>2, <2>3
<1>9. SumFunction(u) = SumFunction(t) + SumFunction(v) BY <1>1, <1>6, <1>7, <1>8, SumPlus
<1> QED BY <1>5, <1>7, <1>9

LEMMA AllSaid ==
  ASSUME NEW ss, Lined(ss), NEW u, Said(ss, DOMAIN ss, u)
  PROVE  SumFunction(u) = SumFunction([k \in DOMAIN ss |-> Counts(ss, k)])
<1> DEFINE D == DOMAIN ss
           f(K) == [k \in K |-> Counts(ss, k)]
           Good(K) == \A t : Said(ss, K, t) => SumFunction(t) = SumFunction(f(K))
           F == {K \in SUBSET D : ~ Good(K)}
<1>1. IsFiniteSet(D) BY SeqIs DEF Lined
<1>2. \A K \in SUBSET D : Numbers(f(K))
  <2>1. \A k \in D : Counts(ss, k) \in Nat
    <3> TAKE k \in D
    <3> DEFINE v == [w \in Weeks |-> IF Covers(ss[k], w) THEN Point * ss[k].percent ELSE 0]
    <3>1. DOMAIN v = Weeks /\ \A w \in Weeks : v[w] = IF Covers(ss[k], w) THEN Point * ss[k].percent ELSE 0
      OBVIOUS
    <3> HIDE DEF v
    <3> QED BY <3>1, OneSaid
  <2> QED BY <1>1, <2>1, CountIs DEF Numbers
<1>3. F = {}
  <2> SUFFICES ASSUME F # {}  PROVE FALSE OBVIOUS
  <2>1. PICK K \in F : \A x \in K : K \ {x} \notin F BY <1>1, Minimal
  <2>2. K \in SUBSET D /\ ~ Good(K) BY <2>1
  <2>3. PICK t : Said(ss, K, t) /\ SumFunction(t) # SumFunction(f(K)) BY <2>2
  <2>4. K # {}
    <3> SUFFICES ASSUME K = {}  PROVE FALSE OBVIOUS
    <3>1. SumFunction(f(K)) = 0
      <4>1. DOMAIN f(K) = {} OBVIOUS
      <4> HIDE DEF f
      <4> QED BY <4>1, SumNone
    <3>2. DOMAIN t = Weeks /\ \A w \in Weeks : t[w] = 0 BY <2>3 DEF Said
    <3>3. Numbers(t) BY <2>2, <2>3, SaidInts
    <3> DEFINE e == [w \in {} |-> 0]
    <3>4. DOMAIN e = {} OBVIOUS
    <3> HIDE DEF e
    <3>5. SumFunction(t) = SumFunction(e) BY <3>2, <3>3, <3>4, SumSupport
    <3>6. SumFunction(e) = 0 BY <3>4, SumNone
    <3> QED BY <2>3, <3>1, <3>5, <3>6
  <2>5. PICK k \in K : TRUE BY <2>4
  <2>6. PICK q : Said(ss, K \ {k}, q) /\ SumFunction(t) = SumFunction(q) + Counts(ss, k)
    <3>1. \E q : Said(ss, K \ {k}, q) /\ SumFunction(t) = SumFunction(q) + Counts(ss, k)
      <4>1. K \subseteq DOMAIN ss /\ k \in K /\ Said(ss, K, t) BY <2>2, <2>3, <2>4, <2>5
      <4> HIDE DEF F, D
      <4> QED BY <4>1, SaidLess
    <3> QED BY <3>1
  <2>7. K \ {k} \notin F BY <2>1, <2>5
  <2>8. Good(K \ {k}) BY <2>2, <2>7
  <2>9. SumFunction(q) = SumFunction(f(K \ {k})) BY <2>6, <2>8
  <2>10. SumFunction(f(K)) = SumFunction(f(K \ {k})) + Counts(ss, k)
    <3> DEFINE g == f(K)
               h == f(K \ {k})
    <3>1. DOMAIN g = K /\ DOMAIN h = K \ {k} /\ g[k] = Counts(ss, k) /\ \A j \in DOMAIN h : h[j] = g[j]
      OBVIOUS
    <3>2. Numbers(g) BY <1>2, <2>2
    <3> HIDE DEF g, h
    <3>3. SumFunction(g) = SumFunction(h) + g[k] BY <3>1, <3>2, SumAdded
    <3> QED BY <3>1, <3>3 DEF g, h
  <2> QED BY <2>3, <2>6, <2>9, <2>10
<1>4. Good(D) BY <1>3
<1> QED BY <1>4

(* The days a person is costed for are those they can be assigned. *)
LEMMA SegmentDaysAre ==
  ASSUME NEW ss, Lined(ss), NEW u, DOMAIN u = Weeks, \A w \in Weeks : u[w] = Point * PercentAt(ss, w)
  PROVE  SumFunction(u) = SegmentDays(ss)
<1>1. Said(ss, DOMAIN ss, u)
  <2>1. Weeks \subseteq Int BY StaffingAssumption DEF Weeks
  <2>2. ASSUME NEW w \in Weeks, NEW k \in DOMAIN ss, Covers(ss[k], w)  PROVE u[w] = Point * ss[k].percent
    BY <2>1, <2>2, LinedPercent
  <2>3. ASSUME NEW w \in Weeks, \A k \in DOMAIN ss : ~ Covers(ss[k], w)  PROVE u[w] = 0
    <3>1. PercentAt(ss, w) = 0 BY <2>1, <2>3, LinedPercent
    <3> QED BY <3>1 DEF Point, Day
  <2> QED BY <2>2, <2>3 DEF Said
<1>2. {k \in DOMAIN ss : ss[k].to < Forever} = DOMAIN ss
  <2>1. \A k \in DOMAIN ss : ss[k].to < Forever
    BY StaffingAssumption, ProjectAssumption, ViewAssumption DEF Lined
  <2> QED BY <2>1
<1>3. SegmentDays(ss) = SumFunction([k \in DOMAIN ss |-> Counts(ss, k)])
  BY <1>2 DEF SegmentDays, SumOver, Counts
<1> QED BY <1>1, <1>3, AllSaid

----
(* What people cost. *)

LEMMA ModesAre ==
  ASSUME NEW basis
  PROVE  /\ ModeOf(basis) \in {"TIMELINE", "FULL_PROJECT", "CAPACITY_PLAN", "EFFORT"}
         /\ ModeOf(basis) = "CAPACITY_PLAN" <=> basis = "capacityProfile"
BY DEF ModeOf

LEMMA ProjectedIs ==
  ASSUME NEW p, IsStructured(p)
  PROVE  LET d == Projection(p)
         IN  /\ d.mode \in {"TIMELINE", "FULL_PROJECT", "CAPACITY_PLAN", "EFFORT"}
             /\ d.mode = "CAPACITY_PLAN" =>
                  p.segments # <<>> \/ Segments(p) = <<Window(0, Forever, 0)>>
             /\ d.mode # "CAPACITY_PLAN" =>
                  d.percent \in Nat /\ d.from \in Nat \cup {None} /\ d.to \in Nat \cup {None}
<1> DEFINE ss == p.segments
           d == Projection(p)
           percent == 100 * Or(p.percent, 100)
           shape(mode, from, to) == [mode |-> mode, percent |-> percent, from |-> from, to |-> to, lossy |-> FALSE]
<1>1. /\ p.percent \in Nat \cup {None} /\ p.from \in Nat \cup {None} /\ p.to \in Nat \cup {None}
      /\ ss = <<>> \/ p.basis = "capacityProfile"
      /\ ss = <<>> /\ p.basis = "capacityProfile" => p.percent = 0
  BY DEF IsStructured, IsProfile
<1>2. percent \in Nat BY <1>1 DEF Or
<1>3. CASE ss = <<>> /\ (p.from # None \/ p.to # None)
  <2>1. d = shape("TIMELINE", p.from, p.to) BY <1>3 DEF Projection
  <2> HIDE DEF d, percent
  <2>2. d.mode = "TIMELINE" /\ d.percent = percent /\ d.from = p.from /\ d.to = p.to BY <2>1
  <2> QED BY <1>1, <1>2, <2>2 DEF d
<1>4. CASE ss = <<>> /\ p.from = None /\ p.to = None
  <2> DEFINE mode == ModeOf(p.basis)
  <2>1. d = shape(mode, None, None) BY <1>4 DEF Projection
  <2> HIDE DEF d, percent, mode
  <2>2. d.mode = mode /\ d.percent = percent /\ d.from = None /\ d.to = None BY <2>1
  <2>3. mode \in {"TIMELINE", "FULL_PROJECT", "CAPACITY_PLAN", "EFFORT"}
        /\ (mode = "CAPACITY_PLAN" <=> p.basis = "capacityProfile")
    BY ModesAre DEF mode
  <2>4. ASSUME d.mode = "CAPACITY_PLAN"  PROVE Segments(p) = <<Window(0, Forever, 0)>>
    <3>1. p.percent = 0 BY <1>1, <1>4, <2>2, <2>3, <2>4
    <3>2. Or(p.from, 0) = 0 /\ Or(p.to, Forever) = Forever BY <1>4 DEF Or
    <3>3. Or(p.percent, 100) = 0 BY <3>1, ViewAssumption DEF Or
    <3>4. Segments(p) = <<Window(Or(p.from, 0), Or(p.to, Forever), Or(p.percent, 100))>>
      BY <1>4 DEF Segments
    <3> QED BY <3>2, <3>3, <3>4
  <2> QED BY <1>2, <2>2, <2>3, <2>4 DEF d
<1>5. CASE ss # <<>>
  <2>1. ModeOf(p.basis) = "CAPACITY_PLAN" BY <1>1, <1>5, ModesAre
  <2>2. d.mode = "CAPACITY_PLAN"
    <3>1. CASE Len(ss) = 1 BY <1>5, <2>1, <3>1 DEF Projection
    <3>2. CASE Len(ss) # 1 BY <1>5, <2>1, <3>2 DEF Projection
    <3> QED BY <3>1, <3>2
  <2> HIDE DEF d, ss
  <2> QED BY <1>5, <2>2 DEF d, ss
<1> QED BY <1>3, <1>4, <1>5

(* A window in which nobody works. *)
LEMMA NobodyWorks ==
  /\ SegmentDays(<<Window(0, Forever, 0)>>) = 0
  /\ \A w : PercentAt(<<Window(0, Forever, 0)>>, w) = 0
<1> DEFINE win == Window(0, Forever, 0)
           D == {k \in DOMAIN <<win>> : <<win>>[k].to < Forever}
<1>1. win.to = Forever /\ win.percent = 0 BY DEF Window
<1> HIDE DEF win
<1>2. D = {}
  <2>1. \A k \in DOMAIN <<win>> : <<win>>[k] = win OBVIOUS
  <2>2. ~ (Forever < Forever) BY ViewAssumption
  <2> QED BY <1>1, <2>1, <2>2
<1> DEFINE f == [k \in D |-> Point * <<win>>[k].percent * SegmentWeeks(<<win>>[k])]
<1>3. SegmentDays(<<win>>) = SumFunction(f) BY DEF SegmentDays, SumOver
<1>4. DOMAIN f = {} BY <1>2
<1> HIDE DEF f
<1>5. SegmentDays(<<win>>) = 0 BY <1>3, <1>4, SumNone
<1>6. \A w : PercentAt(<<win>>, w) = 0 BY <1>1, OneSegment
<1> QED BY <1>5, <1>6 DEF win

(* The people of a role as they are shown. *)
LEMMA DisplayedIs ==
  ASSUME NEW role, Read(role), NEW i \in DOMAIN role.people
  PROVE  LET q == Resolve(role).people[i]
             d == q.display
         IN  /\ d.mode \in {"TIMELINE", "FULL_PROJECT", "CAPACITY_PLAN", "EFFORT"}
             /\ d.mode = "CAPACITY_PLAN" => Lined(q.segments) \/ q.segments = <<Window(0, Forever, 0)>>
             /\ d.mode # "CAPACITY_PLAN" =>
                  d.percent \in Nat /\ d.from \in Nat \cup {None} /\ d.to \in Nat \cup {None}
<1> DEFINE q == Resolve(role).people[i]
           away == Suppressed(role, role.people[i])
           p == TheProfile(role.people[i].profiles)
<1>1. /\ q.segments = PersonSegments(role, role.people[i])
      /\ q.display = IF away THEN [mode |-> "CAPACITY_PLAN", percent |-> 0, from |-> None, to |-> None, lossy |-> FALSE]
                     ELSE Projection(p)
  BY DEF Resolve
<1>2. IsStructured(p) BY ReadProfiles
<1>3. PersonSegments(role, role.people[i]) = IF away THEN <<Window(0, Forever, 0)>> ELSE Segments(p)
  BY DEF PersonSegments
<1> HIDE DEF q, away, p
<1>4. CASE away
  <2>1. q.display.mode = "CAPACITY_PLAN" /\ q.segments = <<Window(0, Forever, 0)>>
    BY <1>1, <1>3, <1>4
  <2> QED BY <2>1 DEF q
<1>5. CASE ~away
  <2>1. q.display = Projection(p) /\ q.segments = Segments(p) BY <1>1, <1>3, <1>5
  <2>2. p.segments # <<>> => Segments(p) = p.segments /\ Lined(p.segments)
    BY <1>2 DEF Segments, Lined, IsStructured, IsProfile, HasSegments
  <2>3. LET d == Projection(p)
        IN  /\ d.mode \in {"TIMELINE", "FULL_PROJECT", "CAPACITY_PLAN", "EFFORT"}
            /\ d.mode = "CAPACITY_PLAN" =>
                  p.segments # <<>> \/ Segments(p) = <<Window(0, Forever, 0)>>
            /\ d.mode # "CAPACITY_PLAN" =>
                  d.percent \in Nat /\ d.from \in Nat \cup {None} /\ d.to \in Nat \cup {None}
    BY <1>2, ProjectedIs
  <2> QED BY <2>1, <2>2, <2>3 DEF q
<1> QED BY <1>4, <1>5

LEMMA PersonCostsCapacity ==
  ASSUME NEW role, Read(role), NEW i \in DOMAIN role.people,
         Resolve(role).people[i].display.mode = "CAPACITY_PLAN"
  PROVE  /\ SegmentDays(Resolve(role).people[i].segments)
              = SumFunction([w \in Weeks |-> HolderCapacity(Resolve(role).people[i], w)])
         /\ SegmentDays(Resolve(role).people[i].segments) \in Int
<1> DEFINE q == Resolve(role).people[i]
           ss == q.segments
           u == [w \in Weeks |-> HolderCapacity(q, w)]
<1>1. Lined(ss) \/ ss = <<Window(0, Forever, 0)>> BY DisplayedIs
<1>2. \A w : PercentAt(ss, w) \in Nat BY ReadPercents
<1>3. DOMAIN u = Weeks /\ (\A w \in Weeks : u[w] = Point * PercentAt(ss, w)) BY DEF HolderCapacity
<1> HIDE DEF ss, u
<1>4. Numbers(u)
  <2>1. IsFiniteSet(Weeks) BY StaffingAssumption, FS_Interval DEF Weeks
  <2>2. \A w \in Weeks : Point * PercentAt(ss, w) \in Int BY <1>2 DEF Point, Day
  <2> QED BY <1>3, <2>1, <2>2 DEF Numbers
<1>5. SumFunction(u) \in Int BY <1>4, SumInt
<1>6. SegmentDays(ss) = SumFunction(u)
  <2>1. CASE Lined(ss) BY <1>3, <2>1, SegmentDaysAre
  <2>2. CASE ss = <<Window(0, Forever, 0)>>
    <3>1. SegmentDays(ss) = 0 /\ \A w : PercentAt(ss, w) = 0 BY <2>2, NobodyWorks
    <3>2. \A w \in Weeks : u[w] = 0 BY <1>3, <3>1 DEF Point, Day
    <3> DEFINE e == [w \in {} |-> 0]
    <3>3. DOMAIN e = {} OBVIOUS
    <3> HIDE DEF e
    <3>4. SumFunction(u) = SumFunction(e) BY <1>3, <1>4, <3>2, <3>3, SumSupport
    <3> QED BY <3>1, <3>3, <3>4, SumNone
  <2> QED BY <1>1, <2>1, <2>2
<1> QED BY <1>5, <1>6 DEF ss, u

(* Times are numbers or None. *)
IsTime(x) == x \in Int \cup {None}

LEMMA OrInt ==
  ASSUME NEW x, IsTime(x), NEW y \in Int
  PROVE  Or(x, y) \in Int
BY DEF IsTime, Or

LEMMA TicksTime ==
  ASSUME NEW week \in Nat \cup {None}
  PROVE  IsTime(Ticks(week))
<1>1. CASE week = None BY <1>1 DEF Ticks, IsTime
<1>2. CASE week # None
  <2>1. Ticks(week) = week * TicksPerWeek /\ week \in Nat /\ TicksPerWeek \in Nat
    BY <1>2, ViewAssumption DEF Ticks
  <2> DEFINE n == TicksPerWeek
  <2>2. Ticks(week) = week * n /\ n \in Nat BY <2>1
  <2> HIDE DEF n
  <2>3. week * n \in Int BY <2>1, <2>2
  <2> QED BY <2>2, <2>3 DEF IsTime
<1> QED BY <1>1, <1>2

LEMMA DaysOfInt ==
  ASSUME NEW ticks \in Int, NEW percent \in Nat
  PROVE  DaysOf(ticks, percent) \in Int
<1> DEFINE n == 100 * TicksPerWeek
           a == ticks * Point * percent
<1>1. DaysOf(ticks, percent) = a \div n BY DEF DaysOf
<1>2. n \in Nat /\ n > 0
  <2> DEFINE t == TicksPerWeek
  <2>1. t \in Nat /\ t > 0 BY ViewAssumption
  <2> HIDE DEF t
  <2>2. 100 * t \in Nat /\ 100 * t > 0 BY <2>1
  <2> QED BY <2>2 DEF t
<1>3. a \in Int
  <2>1. Point \in Int BY DEF Point, Day
  <2>2. ticks * Point \in Int BY <2>1
  <2> DEFINE b == ticks * Point
  <2>3. b \in Int /\ a = b * percent BY <2>2
  <2> HIDE DEF a, b
  <2> QED BY <2>3
<1> HIDE DEF a, n
<1> QED BY <1>1, <1>2, <1>3

LEMMA TotalNat ==
  ASSUME NEW p, IsPlannable(p), NEW id \in Ids(p)
  PROVE  TotalDays(p, id) \in Nat
<1> DEFINE S == ActiveFeatures(p)
           f == [i \in S |-> EffortOf(p.features[i], id)]
<1>1. S \subseteq DOMAIN p.features /\ IsFiniteSet(S)
  <2>1. S \subseteq DOMAIN p.features BY DEF ActiveFeatures
  <2> QED BY <2>1, PlannableIs, FS_Subset
<1>2. TotalDays(p, id) = SumFunction(f) BY DEF TotalDays, SumOver
<1>3. \A i \in S : EffortOf(p.features[i], id) \in Nat BY <1>1, PlannableIs, EffortNat
<1> HIDE DEF S
<1>4. DOMAIN f = S /\ \A i \in S : f[i] \in Nat BY <1>3
<1> HIDE DEF f
<1>5. Numbers(f) /\ \A x \in DOMAIN f : f[x] >= 0 BY <1>1, <1>4 DEF Numbers
<1> QED BY <1>2, <1>5, SumNat

LEMMA ProjectTicksInt ==
  ASSUME NEW p, IsPlannable(p)
  PROVE  ProjectTicks(p) \in Int
<1> DEFINE es == p.features
           S == ActiveEntries(p)
           f == [i \in S |-> es[i].from + es[i].length]
           pad == (p.buffer + p.onboarding) * TicksPerWeek
<1>1. MaxTick(p) = IF S = {} THEN None ELSE Max({f[i] : i \in DOMAIN f}) + pad
  <2>1. {f[i] : i \in DOMAIN f} = {es[i].from + es[i].length : i \in S} OBVIOUS
  <2> HIDE DEF f
  <2> QED BY <2>1 DEF MaxTick
<1>2. IsFiniteSet(S) /\ \A i \in S : es[i].from \in Nat /\ es[i].length \in Nat BY EntriesAre
<1>3. pad \in Int
  <2>1. p.buffer + p.onboarding \in Nat /\ TicksPerWeek \in Nat BY PlannableIs, ViewAssumption
  <2> DEFINE a == p.buffer + p.onboarding
             b == TicksPerWeek
  <2>2. a \in Nat /\ b \in Nat /\ pad = a * b BY <2>1
  <2> HIDE DEF a, b, pad
  <2> QED BY <2>2
<1>4. DOMAIN f = S /\ \A i \in S : f[i] \in Int BY <1>2
<1> HIDE DEF f, pad, S
<1>5. IsTime(MaxTick(p))
  <2>1. CASE S = {} BY <1>1, <2>1 DEF IsTime
  <2>2. CASE S # {}
    <3> DEFINE T == {f[i] : i \in DOMAIN f}
    <3>1. IsFiniteSet(T) BY <1>2, <1>4, ImageFinite
    <3>2. T # {} /\ T \subseteq Int BY <1>4, <2>2
    <3> HIDE DEF T
    <3>3. Max(T) \in Int BY <3>1, <3>2, MaxMin
    <3> QED BY <1>1, <1>3, <2>2, <3>3 DEF IsTime, T
  <2> QED BY <2>1, <2>2
<1> QED BY <1>5, OrInt DEF ProjectTicks

(* From when to when there are tasks. *)
LEMMA BarsAre ==
  ASSUME NEW p, IsPlannable(p), NEW id \in Ids(p)
  PROVE  IsFiniteSet(Bars(p, id)) /\ \A b \in Bars(p, id) : b[1] \in Nat /\ b[2] \in Nat
<1> DEFINE S == ActiveFeatures(p)
           of(i) == {k \in ActiveStories(p.features[i]) : p.features[i].stories[k].hours[id] > 0}
           bar(i, k) == IF p.features[i].stories[k].bar # None THEN p.features[i].stories[k].bar
                        ELSE <<p.features[i].from, p.features[i].length>>
           rows == [i \in S |-> {bar(i, k) : k \in of(i)}]
           all == UNION {rows[i] : i \in DOMAIN rows}
<1>1. Bars(p, id) = {b \in all : b[1] # None}
  <2>1. {rows[i] : i \in DOMAIN rows} = {{bar(i, k) : k \in of(i)} : i \in S} OBVIOUS
  <2> HIDE DEF rows
  <2> QED BY <2>1 DEF Bars
<1>2. S \subseteq DOMAIN p.features /\ IsFiniteSet(S)
  <2>1. S \subseteq DOMAIN p.features BY DEF ActiveFeatures
  <2> QED BY <2>1, PlannableIs, FS_Subset
<1>3. \A i \in S : IsFeature(p.features[i], Ids(p)) /\ IsScheduled(p.features[i])
  BY <1>2, PlannableIs
<1>4. DOMAIN rows = S /\ \A i \in S : rows[i] = {bar(i, k) : k \in of(i)} OBVIOUS
<1> HIDE DEF S, rows
<1>5. ASSUME NEW i \in S  PROVE IsFiniteSet(rows[i])
  <2> DEFINE K == of(i)
             h == [k \in K |-> bar(i, k)]
  <2>1. K \subseteq DOMAIN p.features[i].stories BY DEF ActiveStories
  <2>2. IsFiniteSet(K) BY <1>3, <2>1, SeqIs, FS_Subset DEF IsFeature
  <2>3. rows[i] = {h[k] : k \in DOMAIN h}
    <3>1. {h[k] : k \in DOMAIN h} = {bar(i, k) : k \in K} OBVIOUS
    <3> HIDE DEF h, bar
    <3> QED BY <1>4, <3>1
  <2>4. DOMAIN h = K OBVIOUS
  <2> HIDE DEF h, K
  <2> QED BY <2>2, <2>3, <2>4, ImageFinite
<1>6. IsFiniteSet(all) BY <1>2, <1>4, <1>5, UnionFinite
<1>7. IsFiniteSet(Bars(p, id))
  <2>1. Bars(p, id) \subseteq all BY <1>1
  <2> QED BY <1>6, <2>1, FS_Subset
<1>8. ASSUME NEW b \in Bars(p, id)  PROVE b[1] \in Nat /\ b[2] \in Nat
  <2>1. b \in all /\ b[1] # None BY <1>1
  <2>2. PICK i \in S : b \in rows[i] BY <1>4, <2>1
  <2>3. PICK k \in of(i) : b = bar(i, k) BY <1>4, <2>2
  <2> DEFINE f == p.features[i]
             own == f.stories[k].bar
  <2>4. own \in (Nat \X Nat) \cup {None} /\ (f.from # None => f.from \in Nat /\ f.length \in Nat)
    <3>1. k \in DOMAIN f.stories BY DEF ActiveStories
    <3>2. IsScheduled(f) BY <1>3
    <3> HIDE DEF f
    <3> QED BY <3>1, <3>2 DEF IsScheduled
  <2>5. b = IF own # None THEN own ELSE <<f.from, f.length>> BY <2>3
  <2> HIDE DEF own, f
  <2>6. CASE own # None
    <3>1. b \in Nat \X Nat BY <2>4, <2>5, <2>6
    <3> QED BY <3>1
  <2>7. CASE own = None
    <3>1. b = <<f.from, f.length>> /\ b[1] = f.from /\ b[2] = f.length BY <2>5, <2>7
    <3> QED BY <2>1, <2>4, <3>1
  <2> QED BY <2>6, <2>7
<1> QED BY <1>7, <1>8

LEMMA DemandWindowIs ==
  ASSUME NEW p, IsPlannable(p), NEW id \in Ids(p)
  PROVE  IsTime(DemandWindow(p, id)[1]) /\ IsTime(DemandWindow(p, id)[2])
<1> DEFINE bars == Bars(p, id)
           f == [b \in bars |-> b[1]]
           g == [b \in bars |-> b[1] + b[2]]
           S == {f[b] : b \in DOMAIN f}
           T == {g[b] : b \in DOMAIN g}
<1>1. IsFiniteSet(bars) /\ \A b \in bars : b[1] \in Nat /\ b[2] \in Nat BY BarsAre
<1>2. DemandWindow(p, id) = IF bars = {} THEN <<None, None>> ELSE <<Min(S), Max(T)>>
  <2>1. S = {b[1] : b \in bars} /\ T = {b[1] + b[2] : b \in bars} OBVIOUS
  <2> HIDE DEF S, T
  <2> QED BY <2>1 DEF DemandWindow
<1> HIDE DEF bars
<1>3. DOMAIN f = bars /\ DOMAIN g = bars /\ \A b \in bars : f[b] \in Int /\ g[b] \in Int BY <1>1
<1> HIDE DEF f, g
<1>4. IsFiniteSet(S) /\ IsFiniteSet(T) /\ S \subseteq Int /\ T \subseteq Int
  <2>1. IsFiniteSet(S) /\ IsFiniteSet(T) BY <1>1, <1>3, ImageFinite
  <2> QED BY <1>3, <2>1
<1>5. bars # {} => S # {} /\ T # {} BY <1>3
<1> HIDE DEF S, T
<1>6. CASE bars = {}
  <2>1. DemandWindow(p, id)[1] = None /\ DemandWindow(p, id)[2] = None BY <1>2, <1>6
  <2> QED BY <2>1 DEF IsTime
<1>7. CASE bars # {}
  <2>1. Min(S) \in Int /\ Max(T) \in Int BY <1>4, <1>5, <1>7, MaxMin
  <2>2. DemandWindow(p, id)[1] = Min(S) /\ DemandWindow(p, id)[2] = Max(T) BY <1>2, <1>7
  <2> QED BY <2>1, <2>2 DEF IsTime
<1> QED BY <1>6, <1>7

LEMMA PlannedAre ==
  ASSUME NEW plan, InSeq(plan), \A k \in DOMAIN plan : {plan[k].from, plan[k].until} \subseteq Nat
  PROVE  IsFiniteSet(PlannedWeeks(plan)) /\ PlannedWeeks(plan) \subseteq Nat
<1> DEFINE f == [k \in DOMAIN plan |-> plan[k].from .. plan[k].until - 1]
<1>1. IsFiniteSet(DOMAIN plan) /\ \A k \in DOMAIN plan : plan[k].from \in Nat /\ plan[k].until \in Nat
  BY SeqIs
<1>2. DOMAIN f = DOMAIN plan /\ \A k \in DOMAIN plan : f[k] = plan[k].from .. plan[k].until - 1
  OBVIOUS
<1>3. PlannedWeeks(plan) = UNION {f[k] : k \in DOMAIN f}
  <2>1. {f[k] : k \in DOMAIN f} = {plan[k].from .. plan[k].until - 1 : k \in DOMAIN plan} OBVIOUS
  <2> HIDE DEF f
  <2> QED BY <2>1 DEF PlannedWeeks
<1> HIDE DEF f
<1>4. \A k \in DOMAIN f : IsFiniteSet(f[k]) /\ f[k] \subseteq Nat
  <2> TAKE k \in DOMAIN f
  <2> DEFINE a == plan[k].from
             b == plan[k].until - 1
  <2>1. a \in Nat /\ b \in Int /\ f[k] = a .. b BY <1>1, <1>2
  <2> HIDE DEF a, b
  <2>2. IsFiniteSet(a .. b) /\ a .. b \subseteq Nat BY <2>1, FS_Interval
  <2> QED BY <2>1, <2>2
<1>5. IsFiniteSet(PlannedWeeks(plan)) BY <1>1, <1>2, <1>3, <1>4, UnionFinite
<1> QED BY <1>3, <1>4, <1>5

LEMMA DerivedIs ==
  ASSUME NEW p, IsPlannable(p), NEW role, IsStaffed(role), role.id \in Ids(p)
  PROVE  IsTime(DerivedWindow(p, role)[1]) /\ IsTime(DerivedWindow(p, role)[2])
<1> DEFINE weeks == PlannedWeeks(role.plan)
           planned == RoleMode(role) = "CAPACITY_PLAN" /\ weeks # {}
           a == Ticks(Min(weeks))
           b == Ticks(Max(weeks) + 1)
<1>1. DerivedWindow(p, role) = IF planned THEN <<a, b>> ELSE DemandWindow(p, role.id)
  BY DEF DerivedWindow
<1>2. IsFiniteSet(weeks) /\ weeks \subseteq Nat BY PlannedAre DEF IsStaffed
<1> HIDE DEF weeks
<1>3. CASE planned
  <2>1. Min(weeks) \in Nat /\ Max(weeks) + 1 \in Nat
    <3>1. weeks # {} /\ weeks \subseteq Int BY <1>2, <1>3
    <3>2. Min(weeks) \in weeks /\ Max(weeks) \in weeks BY <1>2, <3>1, MaxMin
    <3>3. Min(weeks) \in Nat /\ Max(weeks) \in Nat BY <1>2, <3>2
    <3> QED BY <3>3
  <2>2. IsTime(a) /\ IsTime(b) BY <2>1, TicksTime
  <2> HIDE DEF a, b, planned
  <2> QED BY <1>1, <1>3, <2>2
<1>4. CASE ~planned
  <2> HIDE DEF planned
  <2> QED BY <1>1, <1>4, DemandWindowIs
<1> QED BY <1>3, <1>4

LEMMA PersonDaysInt ==
  ASSUME NEW p, IsPlannable(p), NEW role, Read(role), role.id \in Ids(p), NEW i \in DOMAIN role.people
  PROVE  PersonDays(p, role, i) \in Int
<1> DEFINE q == Resolve(role).people[i]
           d == q.display
           derived == DerivedWindow(p, role)
           start == Or(Ticks(d.from), Or(derived[1], 0))
           end == Or(Ticks(d.to), Or(derived[2], start))
           total == TotalDays(p, role.id)
           n == Len(role.people)
           days == PersonDays(p, role, i)
<1>1. /\ d.mode = "CAPACITY_PLAN" => days = SegmentDays(q.segments)
      /\ d.mode = "EFFORT" => days = total \div n
      /\ d.mode = "TIMELINE" => days = DaysOf(Max({0, end - start}), d.percent)
      /\ d.mode = "FULL_PROJECT" => days = DaysOf(ProjectTicks(p), d.percent)
  <2> HIDE DEF q
  <2>1. days = PersonDaysIn(p, role, q, derived) BY DEF PersonDays, q
  <2> HIDE DEF derived, total, n, days
  <2> QED BY <2>1 DEF PersonDaysIn, total, n
<1>2. /\ d.mode \in {"TIMELINE", "FULL_PROJECT", "CAPACITY_PLAN", "EFFORT"}
      /\ d.mode # "CAPACITY_PLAN" =>
           d.percent \in Nat /\ d.from \in Nat \cup {None} /\ d.to \in Nat \cup {None}
  BY DisplayedIs
<1>3. IsTime(derived[1]) /\ IsTime(derived[2]) BY DerivedIs DEF Read
<1>4. total \in Nat BY TotalNat
<1>5. n \in Nat /\ n > 0
  <2>1. n \in Nat /\ DOMAIN role.people = 1 .. n BY ReadProfiles, SeqIs
  <2> QED BY <2>1
<1>6. d.mode = "CAPACITY_PLAN" => SegmentDays(q.segments) \in Int BY PersonCostsCapacity
<1> HIDE DEF q, derived, total, n, days
<1>7. CASE d.mode = "CAPACITY_PLAN" BY <1>1, <1>6, <1>7 DEF days
<1>8. CASE d.mode = "EFFORT"
  <2>1. total \div n \in Int BY <1>4, <1>5
  <2> QED BY <1>1, <1>8, <2>1 DEF days
<1>9. CASE d.mode = "TIMELINE"
  <2>1. d.percent \in Nat /\ d.from \in Nat \cup {None} /\ d.to \in Nat \cup {None} BY <1>2, <1>9
  <2>2. IsTime(Ticks(d.from)) /\ IsTime(Ticks(d.to)) BY <2>1, TicksTime
  <2>3. start \in Int
    <3>1. Or(derived[1], 0) \in Int BY <1>3, OrInt
    <3> QED BY <2>2, <3>1, OrInt
  <2> HIDE DEF start
  <2>4. end \in Int
    <3>1. Or(derived[2], start) \in Int BY <1>3, <2>3, OrInt
    <3> QED BY <2>2, <3>1, OrInt
  <2> HIDE DEF end
  <2>5. end - start \in Int BY <2>3, <2>4
  <2> DEFINE length == end - start
  <2>6. Max({0, length}) \in Int
    <3> HIDE DEF length
    <3>1. length \in Int BY <2>5 DEF length
    <3>2. Max({0, length}) = IF 0 >= length THEN 0 ELSE length BY <3>1, TwoOf
    <3> QED BY <3>1, <3>2
  <2>7. DaysOf(Max({0, end - start}), d.percent) \in Int BY <2>1, <2>6, DaysOfInt
  <2> QED BY <1>1, <1>9, <2>7 DEF days
<1>10. CASE d.mode = "FULL_PROJECT"
  <2>1. DaysOf(ProjectTicks(p), d.percent) \in Int BY <1>2, <1>10, ProjectTicksInt, DaysOfInt
  <2> QED BY <1>1, <1>10, <2>1 DEF days
<1> QED BY <1>2, <1>7, <1>8, <1>9, <1>10

(* A role with people is costed for what it is assigned at least. *)
LEMMA AllocatedEnough ==
  ASSUME NEW p, IsPlannable(p), NEW role, Read(role), role.id \in Ids(p), role.people # <<>>,
         NEW demand, IsDemand(demand)
  PROVE  AllocatedDays(p, role, demand) >= Days(Assignment(Resolve(role), demand).given)
<1> DEFINE resolved == Resolve(role)
           made == Assignment(resolved, demand)
           f == [i \in DOMAIN role.people |-> PersonDays(p, role, i)]
           own == {g \in made.given : Holders(resolved, TRUE)[g.holder].synthetic}
           a == SumFunction(f)
           b == Days(own)
           c == Days(made.given)
<1>1. AllocatedDays(p, role, demand) = Max({a + b, c})
  <2>1. SumOver(DOMAIN role.people, LAMBDA i : PersonDays(p, role, i)) = a BY DEF SumOver
  <2>2. SyntheticDays(resolved, made) = b
    <3>1. SyntheticDays(resolved, made) = SumOver(own, LAMBDA g : g.days) BY DEF SyntheticDays
    <3> HIDE DEF own
    <3> QED BY <3>1, DaysIs
  <2>3. SumOver(made.given, LAMBDA g : g.days) = c
    <3> HIDE DEF made
    <3> QED BY DaysIs
  <2>4. AllocatedDays(p, role, demand) =
          Max({SumOver(DOMAIN role.people, LAMBDA i : PersonDays(p, role, i)) + SyntheticDays(resolved, made),
               SumOver(made.given, LAMBDA g : g.days)})
    BY DEF AllocatedDays, AllocatedWith
  <2> HIDE DEF a, b, c, made, resolved
  <2> QED BY <2>1, <2>2, <2>3, <2>4
<1>2. IsFiniteSet(made.given) /\ \A g \in made.given : g.days \in Nat BY MadeIs
<1>3. a \in Int
  <2>1. IsFiniteSet(DOMAIN role.people) BY ReadProfiles, SeqIs
  <2>2. \A i \in DOMAIN role.people : PersonDays(p, role, i) \in Int BY PersonDaysInt
  <2>3. Numbers(f) BY <2>1, <2>2 DEF Numbers
  <2> HIDE DEF f
  <2> QED BY <2>3, SumInt
<1> HIDE DEF made, a
<1>5. b \in Int
  <2>1. IsFiniteSet(own) /\ \A g \in own : g.days \in Nat BY <1>2, FS_Subset
  <2> HIDE DEF own
  <2> QED BY <2>1, DaysInt
<1>6. c \in Int BY <1>2, DaysInt
<1> HIDE DEF b, c
<1> DEFINE s == a + b
<1>7. s \in Int BY <1>3, <1>5
<1> HIDE DEF s
<1>8. Max({s, c}) >= c
  <2>1. Max({s, c}) = IF s >= c THEN s ELSE c BY <1>6, <1>7, TwoOf
  <2> QED BY <1>6, <1>7, <2>1
<1> QED BY <1>1, <1>8 DEF s, c, made

----
(* The answer for a project. *)

(* What is answered of a project was computed from it, if it can be read. *)
ProjectRight ==
  /\ question.kind = "project" => question.project \in Projects
  /\ answer.kind = "project" =>
       /\ question.kind = "project"
       /\ \A i \in DOMAIN question.project.roles : Resolvable(question.project.roles[i])
       /\ answer = ProjectAnswer(question.project, Model(question.project),
                                 ResourceRows(question.project, WeeklyDemand(question.project)))

LEMMA ProjectCapacity ==
  ASSUME ProjectRight, Answered
  PROVE  CapacityUsedUp
<1> DEFINE p == question.project
           demand == WeeklyDemand(p)
<1>1. /\ IsPlannable(p) /\ \A i \in DOMAIN p.roles : Resolvable(p.roles[i])
      /\ answer = ProjectAnswer(p, Model(p), ResourceRows(p, demand))
  BY ProjectAssumption DEF ProjectRight, Answered
<1>2. answer.model = Model(p) BY <1>1 DEF ProjectAnswer
<1>3. /\ answer.model.demand = demand
      /\ \A i \in DOMAIN p.roles : answer.model.assignments[i] = ShownAssignment(Resolve(p.roles[i]), demand)
  BY <1>2 DEF Model, ModelOf, ResolvedRoles
<1>4. IsDemand(demand) BY <1>1, DemandIs
<1> HIDE DEF demand
<1>5. ASSUME NEW i \in DOMAIN p.roles, NEW w \in Weeks
      PROVE  UsedUp(Resolve(p.roles[i]), answer.model.assignments[i], demand, w)
  <2> DEFINE role == p.roles[i]
  <2>1. Read(role) BY <1>1, PlannableIs DEF Read
  <2> HIDE DEF role
  <2>2. UsedUp(Resolve(role), ShownAssignment(Resolve(role), demand), demand, w)
    BY <1>4, <2>1, RoleUsedUp
  <2> QED BY <1>3, <2>2 DEF role
<1> QED BY <1>3, <1>5 DEF CapacityUsedUp, UsedUp, GivenAt, AskedIn, Role

LEMMA ProjectCosted ==
  ASSUME ProjectRight, Answered
  PROVE  CapacityCosted
<1> DEFINE p == question.project
           demand == WeeklyDemand(p)
<1>1. /\ IsPlannable(p) /\ \A i \in DOMAIN p.roles : Resolvable(p.roles[i])
      /\ answer = ProjectAnswer(p, Model(p), ResourceRows(p, demand))
  BY ProjectAssumption DEF ProjectRight, Answered
<1>2. answer.model = Model(p) /\ answer.rows = ResourceRows(p, demand) BY <1>1 DEF ProjectAnswer
<1>3. \A i \in DOMAIN p.roles : answer.model.assignments[i] = ShownAssignment(Resolve(p.roles[i]), demand)
  BY <1>2 DEF Model, ModelOf, ResolvedRoles
<1>4. IsDemand(demand) BY <1>1, DemandIs
<1>5. /\ DOMAIN answer.rows \subseteq DOMAIN p.roles
      /\ \A i \in DOMAIN answer.rows : answer.rows[i].allocated = AllocatedDays(p, p.roles[i], demand)
  BY <1>2 DEF ResourceRows
<1> HIDE DEF demand
<1>6. ASSUME NEW i \in DOMAIN answer.rows
      PROVE  LET resolved == Resolve(Role(i))
             IN  /\ \A j \in DOMAIN resolved.people :
                      resolved.people[j].display.mode = "CAPACITY_PLAN" =>
                        PersonDays(p, Role(i), j) = SumFunction([w \in Weeks |-> HolderCapacity(resolved.people[j], w)])
                 /\ Role(i).people # <<>> =>
                      answer.rows[i].allocated >= Days(answer.model.assignments[i].given)
  <2> DEFINE role == p.roles[i]
             resolved == Resolve(role)
  <2>1. i \in DOMAIN p.roles BY <1>5
  <2>2. Read(role) /\ role.id \in Ids(p) BY <1>1, <2>1, PlannableIs DEF Read, Ids
  <2>3. Role(i) = role BY DEF Role
  <2> HIDE DEF role
  <2>4. ASSUME NEW j \in DOMAIN resolved.people, resolved.people[j].display.mode = "CAPACITY_PLAN"
        PROVE  PersonDays(p, role, j) = SumFunction([w \in Weeks |-> HolderCapacity(resolved.people[j], w)])
    <3>1. DOMAIN resolved.people = DOMAIN role.people BY DEF Resolve
    <3>2. PersonDays(p, role, j) = SegmentDays(resolved.people[j].segments)
      BY <2>4 DEF PersonDays, PersonDaysIn
    <3>3. SegmentDays(resolved.people[j].segments) = SumFunction([w \in Weeks |-> HolderCapacity(resolved.people[j], w)])
      BY <2>2, <2>4, <3>1, PersonCostsCapacity
    <3> QED BY <3>2, <3>3
  <2>5. ASSUME role.people # <<>>
        PROVE  answer.rows[i].allocated >= Days(answer.model.assignments[i].given)
    <3>1. answer.rows[i].allocated = AllocatedDays(p, role, demand) BY <1>5 DEF role
    <3> DEFINE made == answer.model.assignments[i]
    <3>0. made = ShownAssignment(Resolve(role), demand) BY <1>3, <2>1 DEF role
    <3> HIDE DEF made, resolved
    <3>2. made.given = Assignment(Resolve(role), demand).given BY <3>0 DEF ShownAssignment, Shown
    <3>3. AllocatedDays(p, role, demand) >= Days(Assignment(Resolve(role), demand).given)
      BY <1>1, <1>4, <2>2, <2>5, AllocatedEnough
    <3> QED BY <3>1, <3>2, <3>3 DEF made
  <2> QED BY <2>3, <2>4, <2>5
<1> QED BY <1>6 DEF CapacityCosted, SumOver, Days

LEMMA ProjectPriced ==
  ASSUME ProjectRight
  PROVE  PeopleCostTheirCapacity
<1>1. CASE Answered BY <1>1, ProjectCapacity, ProjectCosted DEF PeopleCostTheirCapacity
<1>2. CASE ~Answered BY <1>2 DEF PeopleCostTheirCapacity, CapacityUsedUp, CapacityCosted
<1> QED BY <1>1, <1>2

----
(* The questions. *)

(* A plan that is being made is sound so far, for what was asked. *)
PlannedRight ==
  /\ question.kind = "weeks" => question.staffing \in Staffings
  /\ answer.kind = "weeks" => question.kind = "weeks" /\ PlanInv(question.staffing, answer.plan)

(* Levelled starts are those of what was asked. *)
LevelledRight ==
  /\ question.kind = "level" => question.staffing \in Levels
  /\ answer.kind = "level" => question.kind = "level" /\ answer.starts = Starting(question.staffing)

(* What was searched is what was asked, and what was applied is one of the
   candidates or the baseline, where it could be. *)
SearchedRight ==
  LET search == question.search
      scope == DOMAIN search.ranges
  IN  /\ question.kind = "search" => search \in Searches
      /\ answer.kind = "search" =>
           question.kind = "search" /\ answer.best = Best(search) /\ answer.baseline = Baseline(search)
      /\ answer.kind = "applied" =>
           /\ question.kind = "search" /\ answer.candidate \in Best(search) \cup {Baseline(search)}
           /\ Applicable(search.project, answer.candidate, scope)
           /\ answer.project = Applied(search.project, answer.candidate, scope)

IInv == AnsweredInTurn /\ AuditedRight /\ PlannedRight /\ LevelledRight /\ SearchedRight /\ ProjectRight

LEMMA InvInit == Init => IInv
BY DEF Init, Nothing, IInv, AnsweredInTurn, AuditedRight, PlannedRight, LevelledRight, SearchedRight, ProjectRight

LEMMA InvStep == IInv /\ [Next]_vars => IInv'
<1> SUFFICES ASSUME IInv, [Next]_vars  PROVE IInv'
  OBVIOUS
<1> USE DEF IInv, AnsweredInTurn, AuditedRight, PlannedRight, LevelledRight, SearchedRight, ProjectRight, Nothing
<1>1. CASE AskPlan \/ AskProject \/ AskSearch \/ AskWeeks \/ AskLevel \/ AskSquad
  BY <1>1 DEF AskPlan, AskProject, AskSearch, AskWeeks, AskLevel, AskSquad, Ask
<1>2. CASE AskAudit BY <1>2 DEF AskAudit, Ask
<1>3. CASE AnswerPlan \/ AnswerLevel \/ AnswerSearch
  BY <1>3 DEF AnswerPlan, AnswerLevel, AnswerSearch, Idle, PlanAnswer, LevelAnswer
<1>13. CASE AnswerProject
  <2> DEFINE p == question.project
             told == ProjectAnswer(p, Model(p), ResourceRows(p, WeeklyDemand(p)))
             read == \A i \in DOMAIN p.roles : Resolvable(p.roles[i])
  <2>1. /\ question.kind = "project" /\ p \in Projects /\ question' = question
        /\ answer' = IF read THEN told ELSE [kind |-> "refused"]
    BY <1>13 DEF AnswerProject, Idle
  <2>2. told.kind = "project" BY DEF ProjectAnswer
  <2>3. question' # Nothing BY <2>1
  <2>4. CASE read
    <3>1. answer' = told /\ answer'.kind = "project" BY <2>1, <2>2, <2>4
    <3> QED BY <2>1, <2>3, <2>4, <3>1
  <2>5. CASE ~read
    <3>1. answer'.kind = "refused" BY <2>1, <2>5
    <3> QED BY <2>1, <2>3, <3>1
  <2> QED BY <2>4, <2>5
<1>4. CASE AnswerCosts \/ ApplySquad BY <1>4 DEF AnswerCosts, ApplySquad, CostAnswer, Review
<1>12. CASE AnswerApply
  <2> DEFINE search == question.search
             scope == DOMAIN search.ranges
  <2>1. /\ question.kind = "search" /\ search \in Searches /\ question' = question
        /\ answer.best = Best(search) /\ answer.baseline = Baseline(search)
        /\ \E c \in answer.best \cup {answer.baseline} :
             answer' = IF Applicable(search.project, c, scope)
                       THEN [kind |-> "applied", candidate |-> c, project |-> Applied(search.project, c, scope)]
                       ELSE [kind |-> "refused"]
    BY <1>12 DEF AnswerApply
  <2>2. PICK c \in Best(search) \cup {Baseline(search)} :
          answer' = IF Applicable(search.project, c, scope)
                    THEN [kind |-> "applied", candidate |-> c, project |-> Applied(search.project, c, scope)]
                    ELSE [kind |-> "refused"]
    BY <2>1
  <2>3. question' # Nothing BY <2>1
  <2>4. CASE Applicable(search.project, c, scope)
    <3>1. answer'.kind = "applied" /\ answer'.candidate = c
          /\ answer'.project = Applied(search.project, c, scope)
      BY <2>2, <2>4
    <3> QED BY <2>1, <2>2, <2>3, <2>4, <3>1
  <2>5. CASE ~Applicable(search.project, c, scope)
    <3>1. answer'.kind = "refused" BY <2>2, <2>5
    <3> QED BY <2>1, <2>3, <3>1
  <2> QED BY <2>4, <2>5
<1>5. CASE AnswerAudit BY <1>5 DEF AnswerAudit, Idle
<1>6. CASE RepairAudit BY <1>6 DEF RepairAudit
<1>7. CASE BeginWeeks
  <2>1. question.kind = "weeks" /\ question.staffing \in Staffings /\ question' = question
        /\ answer' = [kind |-> "weeks", plan |-> Begin(question.staffing), over |-> FALSE]
    BY <1>7 DEF BeginWeeks, Idle
  <2>2. PlanInv(question.staffing, Begin(question.staffing)) BY <2>1, StaffingAssumption, BeginInv
  <2> QED BY <2>1, <2>2
<1>8. CASE PlanWeek
  <2> DEFINE p == question.staffing
             s == answer.plan
  <2>1. /\ question.kind = "weeks" /\ p \in Staffings /\ PlanInv(p, s) /\ question' = question
        /\ answer = [kind |-> "weeks", plan |-> s, over |-> answer.over]
        /\ answer' = IF Over(p, s) THEN [answer EXCEPT !.over = TRUE] ELSE [answer EXCEPT !.plan = Step(p, @)]
    BY <1>8 DEF PlanWeek
  <2>2. ~Over(p, s) => PlanInv(p, Step(p, s))
    <3> HIDE DEF p, s
    <3> QED BY <2>1, StaffingAssumption, StepInv
  <2>3. CASE Over(p, s)
    <3>1. answer' = [answer EXCEPT !.over = TRUE] BY <2>1, <2>3
    <3>2. answer' = [kind |-> "weeks", plan |-> s, over |-> TRUE]
      <4> DEFINE o == answer.over
      <4>1. answer = [kind |-> "weeks", plan |-> s, over |-> o] BY <2>1
      <4> HIDE DEF s, o
      <4> QED BY <3>1, <4>1
    <3>3. answer'.kind = "weeks" /\ answer'.plan = s /\ answer'.over = TRUE BY <3>2
    <3>4. question' # Nothing BY <2>1
    <3> QED BY <2>1, <3>2, <3>3, <3>4
  <2>4. CASE ~Over(p, s)
    <3> DEFINE t == Step(p, s)
               o == answer.over
    <3>1. answer' = [answer EXCEPT !.plan = t] BY <2>1, <2>4
    <3>2. answer' = [kind |-> "weeks", plan |-> t, over |-> o]
      <4>1. answer = [kind |-> "weeks", plan |-> s, over |-> o] BY <2>1
      <4> HIDE DEF s, t, o
      <4> QED BY <3>1, <4>1
    <3>3. PlanInv(p, t) BY <2>2, <2>4
    <3> HIDE DEF t, o
    <3>4. answer'.kind = "weeks" /\ answer'.plan = t /\ answer'.over = o BY <3>2
    <3>5. question' # Nothing BY <2>1
    <3> QED BY <2>1, <3>2, <3>3, <3>4, <3>5
  <2> QED BY <2>3, <2>4
<1>9. CASE BeginSquad \/ PlanSquad BY <1>9 DEF BeginSquad, PlanSquad, Idle, Searching
<1>10. CASE Close BY <1>10 DEF Close
<1>11. CASE UNCHANGED vars BY <1>11 DEF vars
<1> QED BY <1>1, <1>2, <1>3, <1>4, <1>5, <1>6, <1>7, <1>8, <1>9, <1>10, <1>11, <1>12, <1>13 DEF Next

(* AuditSound (PlanningAnswers): a repair loses nothing that a profile
   says and touches only rows as they were audited, and planning can read
   every role of tables that are found ready (repairIdenticalDuplicates,
   runProductionMigrationReadiness). *)
THEOREM SoundAudit == Spec => []AuditSound
<1>1. IInv => RepairKeepsCapacity
  <2> SUFFICES ASSUME IInv, answer # Nothing, answer.kind = "repaired"
               PROVE  LET removed == answer.fresh \ answer.rows
                      IN  /\ answer.rows \subseteq answer.fresh
                          /\ \A p \in answer.fresh : \E q \in answer.rows : SaysSame(p, q)
                          /\ removed \subseteq question.rows
                          /\ \/ removed # {}
                             \/ answer.fresh = question.rows /\ OnlyIdenticalGroups(question.rows)
                             => Clean(answer.rows)
    BY DEF RepairKeepsCapacity
  <2> DEFINE rows == question.rows
             fresh == answer.fresh
             R == Repairable(rows)
  <2>1. rows \in Databases /\ fresh \in Databases /\ answer.rows = Repaired(R, fresh)
    BY DEF IInv, AuditedRight
  <2>2. answer.rows = IF Unchanged(R, fresh) /\ Clean(Kept(R, fresh)) THEN Kept(R, fresh) ELSE fresh
    BY <2>1, RepairedIs
  <2>3. Kept(R, fresh) \subseteq fresh BY DEF Kept
  <2>4. Unchanged(R, fresh) => /\ \A p \in fresh : \E q \in Kept(R, fresh) : SaysSame(p, q)
                              /\ fresh \ Kept(R, fresh) \subseteq rows
    BY <2>1, NothingLost, OnlyAuditedGoes
  <2>5. fresh = rows /\ OnlyIdenticalGroups(rows) => Unchanged(R, fresh) /\ Clean(Kept(R, fresh))
    BY <2>1, RepairSucceeds
  <2> QED BY <2>2, <2>3, <2>4, <2>5, SameFields
<1>2. IInv => ReadyMeansReadable BY ReadyReads DEF IInv, AuditedRight, ReadyMeansReadable
<1>3. IInv /\ [Next]_vars => IInv' BY InvStep
<1>4. IInv => AuditSound BY <1>1, <1>2 DEF AuditSound
<1> QED BY InvInit, <1>3, <1>4, PTL DEF Spec

(* WeeklyPlanSound (PlanningAnswers): from week to week, whatever roles,
   features and pinned stories runSAPlanner is asked to plan, nobody is
   given more than there is beside the pinned work of the week or than a
   feature may take, no work is lost or made, and nothing is worked on
   before what it waits for is done, nor outside its manual window. *)
THEOREM SoundWeeklyPlan == Spec => []WeeklyPlanSound
<1>1. IInv => WeeklyPlanSound
  <2> SUFFICES ASSUME IInv, answer # Nothing, answer.kind = "weeks", ~answer.plan.refused
               PROVE  /\ StaffedWithinCapacity(question.staffing, answer.plan)
                      /\ WorkConserved(question.staffing, answer.plan)
                      /\ WorkedInOrder(question.staffing, answer.plan)
    BY DEF WeeklyPlanSound
  <2> DEFINE p == question.staffing
             s == answer.plan
  <2>1. p \in Staffings /\ PlanInv(p, s) /\ ~s.refused BY DEF IInv, PlannedRight
  <2>2. IsStaffing(p) BY <2>1, StaffingAssumption
  <2> HIDE DEF p, s
  <2>3. PlanTyped(p, s) /\ StaffedSoFar(p, s) /\ ConservedSoFar(p, s) /\ OrderedSoFar(p, s)
    BY <2>1 DEF PlanInv, SoundSoFar
  <2>4. StaffedWithinCapacity(p, s) /\ WorkConserved(p, s) /\ WorkedInOrder(p, s)
    BY <2>2, <2>3, SoundStaff, SoundWork, SoundOrder
  <2> QED BY <2>4 DEF p, s
<1> QED BY <1>1, InvInit, InvStep, PTL DEF Spec

(* LevelledInOrder (PlanningAnswers): whatever is levelled, where nothing
   waits for itself no feature starts before what it waits for has ended,
   and features that fit alone fit together, in the weeks that
   levelEpicStarts searches. *)
THEOREM LevelledStarts == Spec => []LevelledInOrder
<1>1. IInv => LevelledInOrder
  <2> DEFINE p == question.staffing
             starts == answer.starts
             last == CeilDiv(answer.ends, Fine)
  <2> SUFFICES ASSUME IInv, answer # Nothing, answer.kind = "level"
               PROVE  /\ ~Circles(p) =>
                           \A i \in Features(p) : \A j \in WaitsFor(p, i) :
                             Fine * starts[i] >= FinishOf(p, starts, j)
                      /\ FitAlone(p) /\ Searchable(p) =>
                           \A r \in Roles(p), w \in 0 .. last :
                             UsedBy(p, starts, {i \in Features(p) : r \in HoldUp(p, i)}, r, w) <= WeekZero(p, r)
    BY DEF LevelledInOrder
  <2>1. p \in Levels /\ starts = Starting(p) BY DEF IInv, LevelledRight
  <2>2. IsLevelling(p) BY <2>1, LevelAssumption
  <2> HIDE DEF p, starts, last
  <2>3. /\ SomePlaced(p, starts) /\ DOMAIN starts = Features(p)
        /\ ~Circles(p) => KeptOrder(p, starts)
        /\ FitAlone(p) /\ Searchable(p) => KeptLevel(p, starts)
    BY <2>1, <2>2, StartingIs
  <2>4. ASSUME ~Circles(p), NEW i \in Features(p), NEW j \in WaitsFor(p, i)
        PROVE  Fine * starts[i] >= FinishOf(p, starts, j)
    <3>1. FinishOf(p, starts, j) <= Fine * starts[i] BY <2>3, <2>4 DEF KeptOrder
    <3>2. FinishOf(p, starts, j) \in Nat /\ starts[i] \in Nat
      BY <2>2, <2>3, <2>4, WaitsWithin, FinishIs DEF SomePlaced
    <3> QED BY <3>1, <3>2 DEF Fine
  <2>5. ASSUME FitAlone(p), Searchable(p), NEW r \in Roles(p), NEW w \in 0 .. last
        PROVE  UsedBy(p, starts, {i \in Features(p) : r \in HoldUp(p, i)}, r, w) <= WeekZero(p, r)
    <3>1. w \in Int OBVIOUS
    <3> QED BY <2>3, <2>5, <3>1 DEF KeptLevel, Held
  <2> QED BY <2>4, <2>5
<1>2. IInv /\ [Next]_vars => IInv' BY InvStep
<1> QED BY InvInit, <1>1, <1>2, PTL DEF Spec

(* SearchIsUseful (PlanningAnswers): whatever project, ranges, limits and
   mode the optimiser is asked to search, nothing within the limits is as
   soon, as cheap and as well used as what it ranks first and better; and
   to apply a candidate delivers when it said, keeps the people of Squad
   Planner, takes nothing from a person after they start, lets nobody stay
   longer, and changes nothing the second time (runOptimiser,
   applyOptimiserCandidate). *)
THEOREM UsefulSearch == Spec => []SearchIsUseful
<1>1. IInv => BestIsNotDominated
  <2> DEFINE search == question.search
  <2> SUFFICES ASSUME IInv, answer # Nothing, answer.kind = "search",
                      NEW c \in answer.best, NEW d \in Feasible(search), NoWorse(d, c)
               PROVE  d.metrics.delivery = c.metrics.delivery /\ d.metrics.utilisation = c.metrics.utilisation
    BY DEF BestIsNotDominated, NoWorse
  <2>1. search \in Searches /\ c \in Best(search) BY DEF IInv, SearchedRight
  <2>2. IsSearch(search) BY <2>1, SearchAssumption
  <2> HIDE DEF search
  <2> QED BY <2>1, <2>2, NothingBetter
<1>2. IInv => CandidateApplies
  <2> DEFINE search == question.search
             p == search.project
             c == answer.candidate
             is == answer.project
             scope == DOMAIN search.ranges
             percent(role, i, w) == PercentAt(PersonSegments(role, role.people[i]), w)
             Faithful(was, now, start) ==
               /\ PlannerManaged(was) => was = now
               /\ \A i \in DOMAIN now.people : now.people[i] # was.people[i] =>
                    /\ \A w \in Weeks : w < start => percent(now, i, w) = 0
                    /\ \A w \in Weeks : w >= start => percent(now, i, w) >= percent(was, i, w)
                    /\ (\E w \in Weeks : percent(was, i, w) > 0) /\ percent(was, i, Horizon) = 0
                         => percent(now, i, Horizon) = 0
  <2> SUFFICES ASSUME IInv, answer # Nothing, answer.kind = "applied"
               PROVE  /\ Delivery(is) = c.metrics.delivery
                      /\ (\A id \in DOMAIN c.starts : c.starts[id] = 0) => Metrics(is, search.rates) = c.metrics
                      /\ \A r \in DOMAIN is.roles : Faithful(p.roles[r], is.roles[r], c.starts[is.roles[r].id])
                      /\ Applicable(is, c, scope) /\ Applied(is, c, scope) = is
    BY DEF CandidateApplies
  <2>1. /\ search \in Searches /\ c \in Best(search) \cup {Baseline(search)}
        /\ Applicable(p, c, scope) /\ is = Applied(p, c, scope)
    BY DEF IInv, SearchedRight
  <2>2. IsSearch(search) BY <2>1, SearchAssumption
  <2>3. IsProject(p) BY <2>2 DEF IsSearch
  <2> HIDE DEF search, c, is, scope
  <2>4. PICK counts \in Heads(p) : c = Candidate(search, counts) BY <2>1, <2>2, ChoiceIs
  <2>5. /\ c.counts = counts /\ c.starts = SuggestedStarts(search)
        /\ c.metrics = Metrics(Scheduled(p, counts), search.rates)
    BY <2>4 DEF Candidate
  <2>6. c.counts \in Heads(p) /\ c.starts \in [Ids(p) -> Nat] BY <2>2, <2>5, StartsNat
  <2> HIDE DEF p
  <2>7. /\ Delivery(is) = Delivery(Scheduled(p, counts))
        /\ DOMAIN is.roles = DOMAIN p.roles
        /\ \A r \in DOMAIN p.roles : is.roles[r] = RoleApplied(p.roles[r], c, scope)
        /\ (\A id \in Ids(p) : c.starts[id] = 0) => is = Scheduled(p, counts)
        /\ Applicable(is, c, scope) /\ Applied(is, c, scope) = is
    BY <2>1, <2>3, <2>5, <2>6, AppliedIs
  <2>8. Delivery(is) = c.metrics.delivery
    <3> DEFINE s == Scheduled(p, counts)
    <3>1. Metrics(s, search.rates).delivery = Delivery(s) BY MetricsDelivery
    <3>2. c.metrics = Metrics(s, search.rates) /\ Delivery(is) = Delivery(s) BY <2>5, <2>7
    <3> HIDE DEF s
    <3> QED BY <3>1, <3>2
  <2>9. (\A id \in DOMAIN c.starts : c.starts[id] = 0) => Metrics(is, search.rates) = c.metrics
    BY <2>5, <2>6, <2>7
  <2>10. ASSUME NEW r \in DOMAIN is.roles
         PROVE  Faithful(p.roles[r], is.roles[r], c.starts[is.roles[r].id])
    <3> DEFINE was == p.roles[r]
               now == is.roles[r]
               start == c.starts[was.id]
    <3>1. IsRole(was) /\ was.id \in Ids(p) /\ RoleApplicable(was, c, scope) /\ now = RoleApplied(was, c, scope)
      BY <2>1, <2>3, <2>7 DEF IsProject, Ids, Applicable
    <3>2. c.counts[was.id] \in Nat \ {0} /\ c.starts[was.id] \in Nat BY <2>6, <3>1 DEF Heads
    <3> HIDE DEF was, now
    <3>3. /\ now.id = was.id /\ (PlannerManaged(was) => was = now)
          /\ \A i \in DOMAIN now.people : now.people[i] # was.people[i] =>
               NoLess(was, was.people[i], now, now.people[i], start)
      BY <3>1, <3>2, RoleKeeps
    <3>4. Weeks \subseteq Nat /\ Weeks = 0 .. Horizon /\ Horizon \in Nat
      BY StaffingAssumption DEF Weeks
    <3> HIDE DEF start
    <3>5. now.id = was.id /\ Faithful(was, now, start) BY <3>3, <3>4 DEF NoLess
    <3> HIDE DEF Faithful
    <3> QED BY <3>5 DEF was, now, start
  <2> QED BY <2>7, <2>8, <2>9, <2>10 DEF p
<1>3. IInv => SearchIsUseful BY <1>1, <1>2 DEF SearchIsUseful
<1>4. IInv /\ [Next]_vars => IInv' BY InvStep
<1> QED BY InvInit, <1>3, <1>4, PTL DEF Spec

(* PeopleCostTheirCapacity (PlanningAnswers): whatever project planning
   can read, each week a role is given all that it is asked for or all
   that its people and itself can do, nobody is given more than they can
   do, the weeks shown of each hold what they are given; people with a
   capacity profile cost exactly what they can do and a role no less than
   what it is given (deriveNamedResourceAssignments, resourceProfile.ts). *)
THEOREM CapacityPaidFor == Spec => []PeopleCostTheirCapacity
<1>1. IInv => PeopleCostTheirCapacity BY ProjectPriced DEF IInv
<1> QED BY InvInit, InvStep, <1>1, PTL DEF Spec
=============================================================================
