---------------------- MODULE CapacityOwnership_proofs ----------------------
(* Proofs about CapacityOwnership, for any set of roles, any number of      *)
(* resources and any set of shapes the editor accepts.                      *)
EXTENDS CapacityOwnership, FiniteSetTheorems, TLAPS

(* Sets of resources are finite.                                            *)
LEMMA ResourcesFinite ==
  ASSUME NEW S \in SUBSET Resource
  PROVE  IsFiniteSet(S) /\ Cardinality(S) \in Nat
<1>1. IsFiniteSet(Resource)
  BY FS_Interval, ConstantsAssumption DEF Resource
<1>2. IsFiniteSet(S)
  BY <1>1, FS_Subset
<1>3. QED
  BY <1>2, FS_CardinalityType

(* What the writers store is a profile.                                     *)
LEMMA WrittenProfiles ==
  /\ WindowShape \in Shape /\ AsNeededShape \in Shape
  /\ \A k \in Kind, p \in Nat, g \in BOOLEAN : PlannerProfile(k, p, g) \in Profile
  /\ \A k \in Kind : AsNeeded(k) \in Profile
  /\ \A k \in Nat : AggregateRole(k) \in Profile /\ AggregateRole(k).kind = "ROLE"
  /\ ZeroResource \in Profile /\ ZeroResource.kind = "PLANNED_RESOURCE"
  /\ SlotResource \in Profile /\ SlotResource.kind = "PLANNED_RESOURCE"
<1>1. WindowShape \in Shape /\ AsNeededShape \in Shape
  BY DEF WindowShape, AsNeededShape, Shape, Basis
<1>2. \A k \in Kind, p \in Nat, g \in BOOLEAN : PlannerProfile(k, p, g) \in Profile
  BY DEF PlannerProfile, Profile, Shape, Basis, Source, Provenance
<1>3. \A k \in Kind : AsNeeded(k) \in Profile
  BY <1>1 DEF AsNeeded, Profile, Source, Provenance
<1>4. \A k \in Nat : 100 * k \in Nat
  OBVIOUS
<1>5. \A k \in Nat : AggregateRole(k) \in Profile /\ AggregateRole(k).kind = "ROLE"
  BY <1>2, <1>4 DEF AggregateRole, Kind, PlannerProfile
<1>6. ZeroResource \in Profile /\ ZeroResource.kind = "PLANNED_RESOURCE"
  BY <1>2 DEF ZeroResource, Kind, PlannerProfile
<1>7. SlotResource \in Profile /\ SlotResource.kind = "PLANNED_RESOURCE"
  BY <1>2 DEF SlotResource, Kind, PlannerProfile
<1>8. QED
  BY <1>1, <1>2, <1>3, <1>5, <1>6, <1>7

(* A role is never the marker of absence, and the planner's authority names *)
(* roles only.                                                              *)
LEMMA RolesAreRoles ==
  ASSUME TypeOK
  PROVE  /\ None \notin roles
         /\ Authority \subseteq Role
         /\ \A r \in Role : \A n \in Staff(r) : n \in Resource /\ n \in Live
         /\ \A r \in Role : \A n \in Managed(r) : n \in Staff(r)
<1>1. None \notin Role
  BY ConstantsAssumption
<1>2. \A n \in Live : home[n] \in Role
  BY DEF TypeOK, Live
<1>3. Authority \subseteq Role
  BY <1>2 DEF TypeOK, Authority
<1>4. \A r \in Role : \A n \in Staff(r) : n \in Resource /\ n \in Live
  BY <1>1 DEF Staff, Live
<1>5. QED
  BY <1>1, <1>3, <1>4 DEF Managed, TypeOK

(* An id handed out is one nobody has.                                      *)
LEMMA NewIds ==
  \A k : \A n \in NextIds(k) : n \in Resource /\ home[n] = None
BY DEF NextIds, Fresh, Live, Resource

(* The rows a plan writes are rows of the project once it is applied, and   *)
(* the rows it fills are among the rows it touches.                         *)
LEMMA PlanRows ==
  ASSUME TypeOK, NEW plan, DOMAIN plan \subseteq roles,
         NEW new \in [Resource -> DOMAIN plan \cup {None}]
  PROVE  /\ Filled(plan, new) \subseteq Touched(plan, new)
         /\ \A n \in Touched(plan, new) : n \in Resource /\ (n \in Live \/ new[n] # None)
<1>1. \A r \in DOMAIN plan : \A n \in Pool(r, new) : n \in Resource /\ (n \in Live \/ new[n] # None)
  BY RolesAreRoles DEF TypeOK, Pool
<1>2. \A r \in Omitted(plan) : \A n \in Managed(r) : n \in Resource /\ n \in Live
  BY RolesAreRoles DEF Omitted
<1>3. Filled(plan, new) \subseteq Touched(plan, new)
  BY DEF Filled, Touched, Oldest
<1>4. QED
  BY <1>1, <1>2, <1>3 DEF Touched

----------------------------------------------------------------------------
(* Types.                                                                   *)

LEMMA NewRoleFacts ==
  /\ NewRoleProfile \in Profile /\ NewRoleProfile # None
  /\ NewRoleProfile.kind = "ROLE" /\ NewRoleProfile.source = "AVAILABILITY_WINDOW"
  /\ Structural(NewRoleProfile)
<1>1. NewRoleProfile \in Profile
  BY DEF NewRoleProfile, WindowShape, Profile, Kind, Shape, Basis, Source, Provenance
<1>2. QED
  BY <1>1, ConstantsAssumption DEF NewRoleProfile, WindowShape, Structural

LEMMA TypeInit == Init => TypeOK
<1> SUFFICES ASSUME Init PROVE TypeOK
  OBVIOUS
<1>1. roleProfile \in [Role -> Profile \cup {None}] /\ count \in [Role -> Nat]
  BY NewRoleFacts DEF Init
<1>2. QED
  BY <1>1, NewRoleFacts, ConstantsAssumption DEF Init, TypeOK, Live

LEMMA TypeIdentity == TypeOK /\ Identity => TypeOK'
<1> SUFFICES ASSUME TypeOK, Identity PROVE TypeOK'
  OBVIOUS
<1> USE ConstantsAssumption, RolesAreRoles
<1>1. ASSUME NEW r \in Role, CreateRole(r) PROVE TypeOK'
  <2>1. NextIds(1) \subseteq Resource
    BY DEF NextIds, Fresh
  <2>2. [kind |-> "NAMED_PERSON", shape |-> AsNeededShape,
         source |-> "FIXED", prov |-> "LEGACY_MAPPER"] \in Profile
    BY WrittenProfiles DEF Profile, Kind, Source, Provenance
  <2>3. [kind |-> "ROLE", shape |-> WindowShape,
         source |-> "AVAILABILITY_WINDOW", prov |-> "LEGACY_MAPPER"] \in Profile
    BY WrittenProfiles DEF Profile, Kind, Source, Provenance
  <2>4. QED
    BY <1>1, <2>1, <2>2, <2>3 DEF CreateRole, NewRoleProfile, NewPersonProfile, TypeOK, Live
<1>2. ASSUME NEW r \in Role, DeleteRole(r) PROVE TypeOK'
  BY <1>2 DEF DeleteRole, TypeOK, Live, Staff
<1>3. ASSUME NEW r \in Role, CreatePerson(r) PROVE TypeOK'
  <2>1. NextIds(1) \subseteq Resource
    BY DEF NextIds, Fresh
  <2>2. RoleClone(r) \in Profile /\ RoleClone(r).kind = "NAMED_PERSON"
    BY <1>3 DEF CreatePerson, Authoritative, TypeOK, RoleClone, Profile, Kind, Source, Provenance
  <2>3. Cardinality(Staff(r)) + 1 \in Nat
    BY ResourcesFinite DEF Staff
  <2>4. QED
    BY <1>3, <2>1, <2>2, <2>3 DEF CreatePerson, TypeOK, Live
<1>4. ASSUME NEW r \in Role, NEW c \in 0..MaxCount, SetCount(r, c) PROVE TypeOK'
  BY <1>4 DEF SetCount, TypeOK, Live
<1>5. ASSUME NEW r \in Role, NEW c \in 0..MaxCount, RaiseCount(r, c) PROVE TypeOK'
  <2>1. \A k : NextIds(k) \subseteq Resource
    BY DEF NextIds, Fresh
  <2>2. RoleClone(r) \in Profile /\ RoleClone(r).kind = "NAMED_PERSON"
    BY <1>5 DEF RaiseCount, Patchable, Authoritative, TypeOK, RoleClone, Profile, Kind, Source, Provenance
  <2>3. QED
    BY <1>5, <2>1, <2>2 DEF RaiseCount, Patchable, TypeOK, Live
<1>6. ASSUME NEW r \in Role, NEW c \in 0..MaxCount, LowerCount(r, c) PROVE TypeOK'
  <2>1. \A S : Cardinality(Staff(r) \ S) \in Nat
    BY ResourcesFinite DEF Staff
  <2>2. QED
    BY <1>6, <2>1 DEF LowerCount, TypeOK, Live
<1>7. ASSUME NEW n \in Resource, DeletePerson(n) PROVE TypeOK'
  <2>1. \A r : Cardinality(Staff(r) \ {n}) \in Nat
    BY ResourcesFinite DEF Staff
  <2>2. QED
    BY <1>7, <2>1 DEF DeletePerson, TypeOK, Live
<1>8. QED
  BY <1>1, <1>2, <1>3, <1>4, <1>5, <1>6, <1>7 DEF Identity

LEMMA TypeEdit == TypeOK /\ Edit => TypeOK'
<1> SUFFICES ASSUME TypeOK, Edit PROVE TypeOK'
  OBVIOUS
<1> USE ConstantsAssumption, RolesAreRoles
<1>1. \A k \in Kind, s \in ManualShape :
        [kind |-> k, shape |-> s, source |-> "MANUAL", prov |-> "null"] \in Profile
  BY DEF Profile, Source, Provenance
<1>2. ASSUME NEW r \in Role, NEW s \in ManualShape, ReplaceRole(r, s) PROVE TypeOK'
  <2>1. s \in Shape
    OBVIOUS
  <2>2. \A p \in Profile : /\ [p EXCEPT !.shape = s] \in Profile
                           /\ [p EXCEPT !.shape = s].kind = p.kind
    BY <2>1 DEF Profile
  <2>3. \A n \in Mirrors(r) : resProfile[n] # None
    BY DEF Mirrors, Inherited
  <2>4. QED
    BY <1>1, <1>2, <2>2, <2>3 DEF ReplaceRole, CanReplaceRole, TypeOK, Live, Kind
<1>3. ASSUME NEW n \in Resource, NEW s \in ManualShape, ReplacePerson(n, s) PROVE TypeOK'
  BY <1>1, <1>3 DEF ReplacePerson, CanReplacePerson, TypeOK, Live, Kind
<1>4. QED
  BY <1>2, <1>3 DEF Edit

LEMMA TypePlanner == TypeOK /\ Planner => TypeOK'
<1> SUFFICES ASSUME TypeOK, Planner PROVE TypeOK'
  OBVIOUS
<1> USE ConstantsAssumption, RolesAreRoles
<1>1. ASSUME NEW P \in SUBSET roles, NEW plan \in [P -> 0..MaxSlots], ApplyPlan(plan) PROVE TypeOK'
  <2>1. PICK new \in [Resource -> DOMAIN plan \cup {None}] :
          /\ home' = [n \in Resource |-> IF new[n] # None THEN new[n] ELSE home[n]]
          /\ resProfile' = [n \in Resource |->
               IF n \in Filled(plan, new) THEN SlotResource
               ELSE IF n \in Touched(plan, new) THEN ZeroResource ELSE resProfile[n]]
          /\ count' = [r \in Role |->
               IF r \in DOMAIN plan
                 THEN Cardinality(Staff(r) \ Managed(r)) + Cardinality(Pool(r, new))
               ELSE IF r \in Omitted(plan) THEN 0 ELSE count[r]]
    BY <1>1 DEF ApplyPlan
  <2>2. DOMAIN plan \subseteq roles /\ Omitted(plan) \subseteq roles
    BY <1>1 DEF ApplyPlan, OwnerConflict
  <2>3. /\ planning' = planning /\ roles' = roles /\ activePlan' \subseteq Role
    BY <1>1, <2>2 DEF ApplyPlan, TypeOK
  <2>4. count' \in [Role -> Nat]
    <3>1. \A r \in Role : Cardinality(Staff(r) \ Managed(r)) + Cardinality(Pool(r, new)) \in Nat
      BY ResourcesFinite DEF Staff, Managed, Pool
    <3>2. QED
      BY <2>1, <3>1 DEF TypeOK
  <2>5. home' \in [Resource -> roles \cup {None}]
    BY <2>1, <2>2 DEF TypeOK
  <2>6. /\ resProfile' \in [Resource -> Profile \cup {None}]
        /\ \A n \in Resource : resProfile'[n] # None => home'[n] # None /\ resProfile'[n].kind # "ROLE"
    BY <2>1, <2>2, PlanRows, WrittenProfiles DEF TypeOK, Live
  <2>7. /\ roleProfile' \in [Role -> Profile \cup {None}]
        /\ \A r \in Role : roleProfile'[r] # None => r \in roles /\ roleProfile'[r].kind = "ROLE"
    <3>1. \A r \in DOMAIN plan : plan[r] \in Nat
      OBVIOUS
    <3>2. 0 \in Nat
      OBVIOUS
    <3>3. QED
      BY <1>1, <2>2, <3>1, <3>2, WrittenProfiles DEF ApplyPlan, TypeOK
  <2>8. QED
    BY <2>3, <2>4, <2>5, <2>6, <2>7 DEF TypeOK, Live
<1>2. ASSUME NEW r \in Role, Transfer(r) PROVE TypeOK'
  <2>1. \A p \in Profile : Transferred(p) \in Profile /\ Transferred(p).kind = p.kind
    BY DEF Transferred, Profile, Source, Provenance
  <2>2. \A n : PlannerPerson(n) => resProfile[n] # None
    BY DEF PlannerPerson, PlannerShaped, PlannerOwned
  <2>3. roleProfile[r] \in Profile
    BY <1>2 DEF Transfer, Authoritative, TypeOK
  <2>4. QED
    BY <1>2, <2>1, <2>2, <2>3 DEF Transfer, TypeOK, Live
<1>3. QED
  BY <1>1, <1>2 DEF Planner

LEMMA TypeReplan == TypeOK /\ Replan => TypeOK'
<1> SUFFICES ASSUME TypeOK, Replan PROVE TypeOK'
  OBVIOUS
<1> USE ConstantsAssumption, RolesAreRoles
<1>1. CASE ResetPlanning
  BY <1>1 DEF ResetPlanning, TypeOK, Live
<1>2. CASE BulkRolesAsNeeded
  BY <1>2, WrittenProfiles DEF BulkRolesAsNeeded, TypeOK, Live, Kind, AsNeeded
<1>3. CASE BulkPeopleAsNeeded
  BY <1>3, WrittenProfiles DEF BulkPeopleAsNeeded, TypeOK, Live, Kind, AsNeeded
<1>4. CASE CompleteReplanning
  BY <1>4 DEF CompleteReplanning, TypeOK, Live
<1>5. QED
  BY <1>1, <1>2, <1>3, <1>4 DEF Replan

LEMMA TypeStep == TypeOK /\ [Next]_vars => TypeOK'
<1>1. TypeOK /\ UNCHANGED vars => TypeOK'
  BY DEF TypeOK, Live, vars
<1>2. QED
  BY <1>1, TypeIdentity, TypeEdit, TypePlanner, TypeReplan DEF Next

(* Every reachable state is well typed: no route leaves a person without a  *)
(* role, a profile without an owner, or one owner with a profile of the     *)
(* wrong kind (the cascades and unique indexes of the schema).              *)
THEOREM Typing == Spec => []TypeOK
<1>1. QED
  BY TypeInit, TypeStep, PTL DEF Spec

----------------------------------------------------------------------------
(* The inductive invariant.  The properties the runs check are not          *)
(* inductive one by one: that a mirror is repairable needs to know which    *)
(* profiles carry the ROLE_DEFAULT marker, and that an apply finds every    *)
(* planned resource of a role needs the agreement between the two owners.   *)

(* Only a generated person carries the ROLE_DEFAULT marker.                 *)
CloneMarked ==
  \A n \in Resource : resProfile[n] # None /\ resProfile[n].prov = "ROLE_DEFAULT" =>
    resProfile[n].source = "DERIVED" /\ resProfile[n].kind = "NAMED_PERSON"

(* A role the planner owns has segments.                                    *)
PlannerRoleShaped ==
  \A r \in Role : PlannerOwned(roleProfile[r]) =>
    roleProfile[r].shape.basis = "CAPACITY_PROFILE"

IInv ==
  /\ TypeOK /\ CloneMarked /\ PlannerRoleShaped
  /\ OnlyMirrorsExceed /\ PlannerCoherent /\ CurrentIsComplete

(* The marks first: they are kept by each action alone.                     *)
LEMMA MarksStep ==
  ASSUME TypeOK, CloneMarked, PlannerRoleShaped, Next
  PROVE  CloneMarked' /\ PlannerRoleShaped'
<1> USE ConstantsAssumption
<1>1. ASSUME NEW r \in Role, CreateRole(r) PROVE CloneMarked' /\ PlannerRoleShaped'
  BY <1>1 DEF CreateRole, NewRoleProfile, NewPersonProfile, TypeOK, CloneMarked, PlannerRoleShaped, PlannerOwned
<1>2. ASSUME NEW r \in Role, DeleteRole(r) PROVE CloneMarked' /\ PlannerRoleShaped'
  BY <1>2 DEF DeleteRole, TypeOK, CloneMarked, PlannerRoleShaped, PlannerOwned
<1>3. ASSUME NEW r \in Role, CreatePerson(r) PROVE CloneMarked' /\ PlannerRoleShaped'
  BY <1>3 DEF CreatePerson, RoleClone, TypeOK, CloneMarked, PlannerRoleShaped, PlannerOwned
<1>4. ASSUME NEW r \in Role, NEW c \in 0..MaxCount, SetCount(r, c) \/ RaiseCount(r, c) \/ LowerCount(r, c)
      PROVE CloneMarked' /\ PlannerRoleShaped'
  BY <1>4 DEF SetCount, RaiseCount, LowerCount, RoleClone, TypeOK, CloneMarked, PlannerRoleShaped, PlannerOwned
<1>5. ASSUME NEW n \in Resource, DeletePerson(n) PROVE CloneMarked' /\ PlannerRoleShaped'
  BY <1>5 DEF DeletePerson, TypeOK, CloneMarked, PlannerRoleShaped, PlannerOwned
<1>6. ASSUME NEW r \in Role, NEW s \in ManualShape, ReplaceRole(r, s)
      PROVE CloneMarked' /\ PlannerRoleShaped'
  <2>1. PlannerRoleShaped'
    BY <1>6 DEF ReplaceRole, TypeOK, PlannerRoleShaped, PlannerOwned
  <2>2. \A p \in Profile : LET q == [p EXCEPT !.shape = s]
                           IN  q.prov = p.prov /\ q.source = p.source /\ q.kind = p.kind
    BY DEF Profile
  <2>3. \A n \in Mirrors(r) : resProfile[n] # None /\ resProfile[n] \in Profile
    BY DEF Mirrors, Inherited, TypeOK, Staff
  <2>4. CloneMarked'
    BY <1>6, <2>2, <2>3 DEF ReplaceRole, TypeOK, CloneMarked
  <2>5. QED
    BY <2>1, <2>4
<1>7. ASSUME NEW n \in Resource, NEW s \in ManualShape, ReplacePerson(n, s)
      PROVE CloneMarked' /\ PlannerRoleShaped'
  BY <1>7 DEF ReplacePerson, TypeOK, CloneMarked, PlannerRoleShaped, PlannerOwned
<1>8. ASSUME NEW P \in SUBSET roles, NEW plan \in [P -> 0..MaxSlots], ApplyPlan(plan)
      PROVE CloneMarked' /\ PlannerRoleShaped'
  <2>1. \A k : AggregateRole(k).shape.basis = "CAPACITY_PROFILE"
    BY DEF AggregateRole, PlannerProfile
  <2>2. ZeroResource.prov = "null" /\ SlotResource.prov = "null"
    BY DEF ZeroResource, SlotResource, PlannerProfile
  <2>3. CloneMarked'
    BY <1>8, <2>2 DEF ApplyPlan, CloneMarked
  <2>4. PlannerRoleShaped'
    BY <1>8, <2>1 DEF ApplyPlan, PlannerRoleShaped, PlannerOwned
  <2>5. QED
    BY <2>3, <2>4
<1>9. ASSUME NEW r \in Role, Transfer(r) PROVE CloneMarked' /\ PlannerRoleShaped'
  <2>1. \A p \in Profile : /\ Transferred(p).source = "MANUAL" /\ Transferred(p).kind = p.kind
                           /\ Transferred(p).prov \in {p.prov, "TRANSFERRED_FROM_SQUAD_PLANNER"}
    BY DEF Transferred, Profile
  <2>2. \A n : PlannerPerson(n) => resProfile[n] # None /\ resProfile[n].source = "SQUAD_PLANNER"
    BY DEF PlannerPerson, PlannerShaped, PlannerOwned
  <2>3. CloneMarked'
    BY <1>9, <2>1, <2>2 DEF Transfer, TypeOK, CloneMarked
  <2>4. roleProfile[r] \in Profile
    BY <1>9 DEF Transfer, Authoritative, TypeOK
  <2>5. PlannerRoleShaped'
    BY <1>9, <2>1, <2>4 DEF Transfer, TypeOK, PlannerRoleShaped, PlannerOwned
  <2>6. QED
    BY <2>3, <2>5
<1>10. ASSUME Replan PROVE CloneMarked' /\ PlannerRoleShaped'
  BY <1>10 DEF Replan, ResetPlanning, BulkRolesAsNeeded, BulkPeopleAsNeeded, CompleteReplanning,
       AsNeeded, TypeOK, CloneMarked, PlannerRoleShaped, PlannerOwned
<1>11. QED
  BY <1>1, <1>2, <1>3, <1>4, <1>5, <1>6, <1>7, <1>8, <1>9, <1>10 DEF Next, Identity, Edit, Planner

(* What the writers store is readable, a person above 100% excepted.        *)
LEMMA WrittenStructural ==
  /\ Structural(ZeroResource) /\ Structural(SlotResource)
  /\ \A k \in Nat : Structural(AggregateRole(k))
  /\ \A k \in {"ROLE", "NAMED_PERSON"} : Structural(AsNeeded(k))
  /\ \A s \in ManualShape :
       /\ Structural([kind |-> "ROLE", shape |-> s, source |-> "MANUAL", prov |-> "null"])
       /\ s.peak <= 100 => Structural([kind |-> "NAMED_PERSON", shape |-> s,
                                       source |-> "MANUAL", prov |-> "null"])
  /\ \A p \in Profile : p.kind = "ROLE" /\ Structural(p) /\ p.shape.peak <= 100 =>
       Structural([kind |-> "NAMED_PERSON", shape |-> p.shape,
                   source |-> "DERIVED", prov |-> "ROLE_DEFAULT"])
<1>1. Structural(ZeroResource) /\ Structural(SlotResource)
  BY DEF Structural, ZeroResource, SlotResource, PlannerProfile
<1>2. \A k \in Nat : Structural(AggregateRole(k))
  BY DEF Structural, AggregateRole, PlannerProfile
<1>3. \A k \in {"ROLE", "NAMED_PERSON"} : Structural(AsNeeded(k))
  BY DEF Structural, AsNeeded, AsNeededShape
<1>4. \A s \in ManualShape :
       /\ Structural([kind |-> "ROLE", shape |-> s, source |-> "MANUAL", prov |-> "null"])
       /\ s.peak <= 100 => Structural([kind |-> "NAMED_PERSON", shape |-> s,
                                       source |-> "MANUAL", prov |-> "null"])
  BY ConstantsAssumption DEF Structural
<1>5. \A p \in Profile : p.kind = "ROLE" /\ Structural(p) /\ p.shape.peak <= 100 =>
       Structural([kind |-> "NAMED_PERSON", shape |-> p.shape,
                   source |-> "DERIVED", prov |-> "ROLE_DEFAULT"])
  BY DEF Structural
<1>6. QED
  BY <1>1, <1>2, <1>3, <1>4, <1>5

(* The planner finds no conflict in a role only when its profile is its own *)
(* or the mapper's.                                                         *)
LEMMA NoConflictNotManual ==
  ASSUME TypeOK, NEW r \in Role, ~OwnerConflict(r)
  PROVE  r \in roles /\ (roleProfile[r] # None => roleProfile[r].source # "MANUAL")
BY DEF OwnerConflict, PlannerShaped, PlannerOwned, MapperRole

(* A person that mirrors an oversized role is one of the people the editor  *)
(* updates with it.                                                         *)
LEMMA OversizedAreMirrors ==
  ASSUME TypeOK, CloneMarked, OnlyMirrorsExceed,
         NEW n \in Live, resProfile[n] # None, ~Structural(resProfile[n])
  PROVE  n \in Mirrors(home[n])
<1>1. n \in Resource /\ n \in Staff(home[n])
  BY DEF Live, Staff
<1>2. /\ resProfile[n].prov = "ROLE_DEFAULT" /\ resProfile[n].source = "DERIVED"
      /\ resProfile[n].kind = "NAMED_PERSON"
      /\ roleProfile[home[n]] # None /\ resProfile[n].shape = roleProfile[home[n]].shape
  BY <1>1 DEF OnlyMirrorsExceed, CloneMarked
<1>3. ~Explicit(resProfile[n])
  BY <1>2 DEF Explicit
<1>4. QED
  BY <1>1, <1>2, <1>3 DEF Mirrors, Inherited

LEMMA ReadableIdentity ==
  ASSUME TypeOK, CloneMarked, OnlyMirrorsExceed, Identity
  PROVE  OnlyMirrorsExceed'
<1> USE ConstantsAssumption, RolesAreRoles DEF Live
<1>1. ASSUME NEW r \in Role, CreateRole(r) PROVE OnlyMirrorsExceed'
  <2>1. /\ Structural([kind |-> "NAMED_PERSON", shape |-> AsNeededShape,
                       source |-> "FIXED", prov |-> "LEGACY_MAPPER"])
        /\ Structural([kind |-> "ROLE", shape |-> WindowShape,
                       source |-> "AVAILABILITY_WINDOW", prov |-> "LEGACY_MAPPER"])
    BY DEF Structural, AsNeededShape, WindowShape
  <2>2. \A n \in NextIds(1) : home[n] = None
    BY NewIds
  <2>3. \A n \in Resource : home[n] # r
    BY <1>1 DEF CreateRole, NewRoleProfile, NewPersonProfile, TypeOK
  <2>4. QED
    BY <1>1, <2>1, <2>2, <2>3 DEF CreateRole, NewRoleProfile, NewPersonProfile, OnlyMirrorsExceed, TypeOK
<1>2. ASSUME NEW r \in Role, DeleteRole(r) PROVE OnlyMirrorsExceed'
  BY <1>2 DEF DeleteRole, OnlyMirrorsExceed, TypeOK, Staff
<1>3. ASSUME NEW r \in Role, CreatePerson(r) PROVE OnlyMirrorsExceed'
  <2>1. Structural(RoleClone(r))
    BY <1>3, WrittenStructural DEF CreatePerson, Authoritative, TypeOK, RoleClone
  <2>2. QED
    BY <1>3, <2>1 DEF CreatePerson, OnlyMirrorsExceed, TypeOK
<1>4. ASSUME NEW r \in Role, NEW c \in 0..MaxCount, SetCount(r, c) PROVE OnlyMirrorsExceed'
  BY <1>4 DEF SetCount, OnlyMirrorsExceed
<1>5. ASSUME NEW r \in Role, NEW c \in 0..MaxCount, RaiseCount(r, c) PROVE OnlyMirrorsExceed'
  <2>1. Structural(RoleClone(r))
    BY <1>5, WrittenStructural DEF RaiseCount, Patchable, Authoritative, TypeOK, RoleClone
  <2>2. QED
    BY <1>5, <2>1 DEF RaiseCount, Patchable, OnlyMirrorsExceed, TypeOK
<1>6. ASSUME NEW r \in Role, NEW c \in 0..MaxCount, LowerCount(r, c) PROVE OnlyMirrorsExceed'
  BY <1>6 DEF LowerCount, OnlyMirrorsExceed, TypeOK
<1>7. ASSUME NEW n \in Resource, DeletePerson(n) PROVE OnlyMirrorsExceed'
  BY <1>7 DEF DeletePerson, OnlyMirrorsExceed, TypeOK
<1>8. QED
  BY <1>1, <1>2, <1>3, <1>4, <1>5, <1>6, <1>7 DEF Identity

LEMMA ReadableEdit ==
  ASSUME TypeOK, CloneMarked, OnlyMirrorsExceed, Edit
  PROVE  OnlyMirrorsExceed'
<1> USE ConstantsAssumption DEF Live
<1>1. ASSUME NEW r \in Role, NEW s \in ManualShape, ReplaceRole(r, s) PROVE OnlyMirrorsExceed'
  <2> DEFINE new == [kind |-> "ROLE", shape |-> s, source |-> "MANUAL", prov |-> "null"]
  <2>1. /\ r \in roles /\ roles' = roles /\ home' = home
        /\ roleProfile'[r] = new /\ \A q \in Role \ {r} : roleProfile'[q] = roleProfile[q]
    <3>1. r \in roles /\ roles' = roles /\ home' = home
      BY <1>1 DEF ReplaceRole, CanReplaceRole
    <3>2. roleProfile' = [roleProfile EXCEPT ![r] = new]
      BY <1>1 DEF ReplaceRole
    <3>3. roleProfile \in [Role -> Profile \cup {None}]
      BY DEF TypeOK
    <3>4. QED
      BY <3>1, <3>2, <3>3
  <2>2. \A q \in roles' : roleProfile'[q] # None => Structural(roleProfile'[q])
    <3>1. Structural(new)
      BY WrittenStructural
    <3>2. roles \subseteq Role
      BY DEF TypeOK
    <3>3. QED
      BY <2>1, <3>1, <3>2 DEF OnlyMirrorsExceed
  <2>3. ASSUME NEW n \in Live', resProfile'[n] # None, ~Structural(resProfile'[n]), n \in Mirrors(r)
        PROVE  /\ resProfile'[n].prov = "ROLE_DEFAULT" /\ resProfile'[n].source = "DERIVED"
               /\ home'[n] = r /\ resProfile'[n].shape = s
    <3>1. n \in Resource /\ home[n] = r /\ resProfile[n] \in Profile /\ resProfile[n].prov = "ROLE_DEFAULT"
      BY <2>3 DEF Mirrors, Inherited, Staff, TypeOK
    <3>2. resProfile'[n] = [resProfile[n] EXCEPT !.shape = s]
      BY <1>1, <2>3, <3>1 DEF ReplaceRole
    <3>3. resProfile[n].source = "DERIVED"
      BY <3>1 DEF CloneMarked
    <3>4. QED
      BY <2>1, <3>1, <3>2, <3>3 DEF Profile
  <2>4. ASSUME NEW n \in Live', resProfile'[n] # None, ~Structural(resProfile'[n]), n \notin Mirrors(r)
        PROVE  resProfile'[n] = resProfile[n] /\ home[n] # r
    <3>1. n \in Live /\ resProfile'[n] = resProfile[n]
      BY <1>1, <2>1, <2>4 DEF ReplaceRole
    <3>2. QED
      BY <2>4, <3>1, OversizedAreMirrors
  <2>5. ASSUME NEW n \in Live', resProfile'[n] # None, ~Structural(resProfile'[n])
        PROVE  /\ resProfile'[n].prov = "ROLE_DEFAULT" /\ resProfile'[n].source = "DERIVED"
               /\ roleProfile'[home'[n]] # None /\ roleProfile'[home'[n]].source = "MANUAL"
               /\ resProfile'[n].shape = roleProfile'[home'[n]].shape
    <3>1. new # None
      BY DEF Profile, Kind, Source, Provenance
    <3>2. CASE n \in Mirrors(r)
      BY <2>1, <2>3, <2>5, <3>1, <3>2
    <3>3. CASE n \notin Mirrors(r)
      BY <2>1, <2>4, <2>5, <3>3 DEF OnlyMirrorsExceed, TypeOK
    <3>4. QED
      BY <3>2, <3>3
  <2>6. QED
    BY <2>2, <2>5 DEF OnlyMirrorsExceed
<1>2. ASSUME NEW n \in Resource, NEW s \in ManualShape, ReplacePerson(n, s) PROVE OnlyMirrorsExceed'
  BY <1>2, WrittenStructural, ZenonT(60) DEF ReplacePerson, PersonShape, OnlyMirrorsExceed, TypeOK
<1>3. QED
  BY <1>1, <1>2 DEF Edit

LEMMA ReadablePlanner ==
  ASSUME TypeOK, CloneMarked, OnlyMirrorsExceed, Planner
  PROVE  OnlyMirrorsExceed'
<1> USE ConstantsAssumption
<1>1. ASSUME NEW P \in SUBSET roles, NEW plan \in [P -> 0..MaxSlots], ApplyPlan(plan)
      PROVE  OnlyMirrorsExceed'
  <2>1. PICK new \in [Resource -> DOMAIN plan \cup {None}] :
          /\ home' = [n \in Resource |-> IF new[n] # None THEN new[n] ELSE home[n]]
          /\ resProfile' = [n \in Resource |->
               IF n \in Filled(plan, new) THEN SlotResource
               ELSE IF n \in Touched(plan, new) THEN ZeroResource ELSE resProfile[n]]
    BY <1>1 DEF ApplyPlan
  <2>2. /\ DOMAIN plan \subseteq roles /\ roles \subseteq Role /\ roles' = roles
        /\ \A r \in DOMAIN plan : plan[r] \in Nat
    BY <1>1 DEF ApplyPlan, TypeOK
  <2>3. \A r \in DOMAIN plan \cup Omitted(plan) :
          r \in roles /\ (roleProfile[r] # None => roleProfile[r].source # "MANUAL")
    BY <1>1, <2>2, RolesAreRoles, NoConflictNotManual DEF ApplyPlan, Omitted
  <2>4. \A r \in roles : roleProfile'[r] # None => Structural(roleProfile'[r])
    <3>1. \A k \in Nat : Structural(AggregateRole(k))
      BY WrittenStructural
    <3>2. roleProfile' = [r \in Role |->
            IF r \in DOMAIN plan THEN AggregateRole(plan[r])
            ELSE IF r \in Omitted(plan) /\ (roleProfile[r] # None \/ Managed(r) # {})
              THEN AggregateRole(0) ELSE roleProfile[r]]
      BY <1>1 DEF ApplyPlan
    <3>3. \A r \in roles : \/ roleProfile'[r] = roleProfile[r]
                           \/ roleProfile'[r] = AggregateRole(0)
                           \/ r \in DOMAIN plan /\ roleProfile'[r] = AggregateRole(plan[r])
      BY <2>2, <3>2
    <3>4. QED
      BY <2>2, <3>1, <3>3 DEF OnlyMirrorsExceed
  <2>5. ASSUME NEW n \in Live', resProfile'[n] # None, ~Structural(resProfile'[n])
        PROVE  /\ n \in Live /\ resProfile'[n] = resProfile[n] /\ home'[n] = home[n]
               /\ roleProfile'[home[n]] = roleProfile[home[n]]
    <3>1. n \in Resource /\ n \notin Filled(plan, new) /\ n \notin Touched(plan, new)
      BY <2>1, <2>5, WrittenStructural DEF Live
    <3>2. resProfile'[n] = resProfile[n] /\ new[n] = None
      BY <2>1, <3>1 DEF Touched, Pool
    <3>3. n \in Live /\ home'[n] = home[n]
      BY <2>1, <2>5, <3>1, <3>2 DEF Live, TypeOK
    <3>4. roleProfile[home[n]].source = "MANUAL" /\ roleProfile[home[n]] # None /\ home[n] \in Role
      BY <2>5, <3>2, <3>3 DEF OnlyMirrorsExceed, Live, TypeOK
    <3>5. home[n] \notin DOMAIN plan \cup Omitted(plan)
      BY <2>3, <3>4
    <3>6. QED
      BY <1>1, <3>2, <3>3, <3>4, <3>5 DEF ApplyPlan
  <2>6. QED
    BY <2>2, <2>4, <2>5 DEF OnlyMirrorsExceed
<1>2. ASSUME NEW r \in Role, Transfer(r) PROVE OnlyMirrorsExceed'
  <2>1. \A p \in Profile : /\ Structural(p) => Structural(Transferred(p))
                           /\ Transferred(p).source = "MANUAL"
    BY DEF Transferred, Structural, Profile
  <2>2. /\ r \in roles /\ roles' = roles /\ roles \subseteq Role /\ home' = home
        /\ roleProfile[r] \in Profile /\ Structural(roleProfile[r])
        /\ roleProfile' = [roleProfile EXCEPT ![r] = Transferred(roleProfile[r])]
        /\ roleProfile[r].source = "SQUAD_PLANNER"
    BY <1>2 DEF Transfer, Authoritative, PlannerOwned, TypeOK
  <2>3. \A q \in roles : roleProfile'[q] # None => Structural(roleProfile'[q])
    BY <2>1, <2>2 DEF OnlyMirrorsExceed, TypeOK
  <2>4. ASSUME NEW n \in Live', resProfile'[n] # None, ~Structural(resProfile'[n])
        PROVE  n \in Live /\ resProfile'[n] = resProfile[n] /\ home[n] # r
    <3>1. n \in Live /\ n \in Resource
      BY <2>2, <2>4 DEF Live
    <3>2. CASE n \in Staff(r) /\ PlannerPerson(n)
      <4>1. resProfile[n] \in Profile /\ Structural(resProfile[n])
        BY <1>2, <3>1, <3>2 DEF Transfer, TypeOK, PlannerPerson, PlannerShaped, PlannerOwned
      <4>2. resProfile'[n] = Transferred(resProfile[n])
        BY <1>2, <3>1, <3>2 DEF Transfer
      <4>3. QED
        BY <2>1, <2>4, <4>1, <4>2
    <3>3. CASE ~(n \in Staff(r) /\ PlannerPerson(n))
      <4>1. resProfile'[n] = resProfile[n]
        BY <1>2, <3>1, <3>3 DEF Transfer
      <4>2. home[n] # r
        BY <2>2, <2>4, <3>1, <4>1 DEF OnlyMirrorsExceed
      <4>3. QED
        BY <3>1, <4>1, <4>2
    <3>4. QED
      BY <3>2, <3>3
  <2>5. QED
    BY <2>2, <2>3, <2>4 DEF OnlyMirrorsExceed, TypeOK
<1>3. QED
  BY <1>1, <1>2 DEF Planner

LEMMA ReadableReplan ==
  ASSUME TypeOK, CloneMarked, OnlyMirrorsExceed, Replan
  PROVE  OnlyMirrorsExceed'
<1> USE ConstantsAssumption DEF Live
<1>1. CASE ResetPlanning
  BY <1>1 DEF ResetPlanning, OnlyMirrorsExceed, TypeOK
<1>2. CASE BulkRolesAsNeeded
  <2>1. Structural(AsNeeded("ROLE"))
    BY WrittenStructural
  <2>2. QED
    BY <1>2, <2>1 DEF BulkRolesAsNeeded, OnlyMirrorsExceed, TypeOK
<1>3. CASE BulkPeopleAsNeeded
  <2>1. Structural(AsNeeded("NAMED_PERSON"))
    BY WrittenStructural
  <2>2. QED
    BY <1>3, <2>1 DEF BulkPeopleAsNeeded, OnlyMirrorsExceed, TypeOK
<1>4. CASE CompleteReplanning
  BY <1>4 DEF CompleteReplanning, OnlyMirrorsExceed
<1>5. QED
  BY <1>1, <1>2, <1>3, <1>4 DEF Replan

(* The agreement between a planned resource and its role.                   *)

(* What PlannerCoherent says of a person with profile p in a role with q.   *)
Agree(p, q) ==
  /\ PlannerOwned(p) => p.kind = "PLANNED_RESOURCE"
  /\ p.kind = "PLANNED_RESOURCE" =>
       /\ p.shape.basis = "CAPACITY_PROFILE"
       /\ q # None /\ q.source = p.source /\ p.source \in {"MANUAL", "SQUAD_PLANNER"}
  /\ p.prov = "TRANSFERRED_FROM_SQUAD_PLANNER" <=>
       p.kind = "PLANNED_RESOURCE" /\ p.source = "MANUAL"

LEMMA CoherentIsAgree ==
  PlannerCoherent <=> \A n \in Live : resProfile[n] # None => Agree(resProfile[n], roleProfile[home[n]])
BY DEF PlannerCoherent, Agree

(* Only the planner's own rows are tied to the role's profile.              *)
LEMMA GeneratedAgree ==
  ASSUME NEW p, p # None, p.kind = "NAMED_PERSON", ~PlannerOwned(p),
         p.prov # "TRANSFERRED_FROM_SQUAD_PLANNER", NEW q
  PROVE  Agree(p, q)
BY DEF Agree

LEMMA CoherentIdentity ==
  ASSUME TypeOK, PlannerCoherent, Identity
  PROVE  PlannerCoherent'
<1> USE ConstantsAssumption DEF Live
<1> SUFFICES \A n \in Live' : resProfile'[n] # None => Agree(resProfile'[n], roleProfile'[home'[n]])
  BY DEF PlannerCoherent, Agree, PlannerOwned
<1>0. \A n \in Live : resProfile[n] # None => Agree(resProfile[n], roleProfile[home[n]])
  BY CoherentIsAgree
<1>1. ASSUME NEW r \in Role, CreateRole(r), NEW n \in Live', resProfile'[n] # None
      PROVE  Agree(resProfile'[n], roleProfile'[home'[n]])
  <2>1. home[n] # r
    BY <1>1 DEF CreateRole, NewRoleProfile, NewPersonProfile, TypeOK
  <2>2. PICK m \in NextIds(1) :
          /\ home' = [home EXCEPT ![m] = r]
          /\ resProfile' = [resProfile EXCEPT ![m] =
               [kind |-> "NAMED_PERSON", shape |-> AsNeededShape,
                source |-> "FIXED", prov |-> "LEGACY_MAPPER"]]
    BY <1>1 DEF CreateRole, NewRoleProfile, NewPersonProfile
  <2>3. CASE n = m
    <3>1. resProfile'[n] = [kind |-> "NAMED_PERSON", shape |-> AsNeededShape,
                source |-> "FIXED", prov |-> "LEGACY_MAPPER"]
      BY <2>2, <2>3 DEF TypeOK
    <3>2. QED
      BY <1>1, <3>1, GeneratedAgree DEF PlannerOwned
  <2>4. CASE n # m
    BY <1>0, <1>1, <2>1, <2>2, <2>4 DEF CreateRole, NewRoleProfile, NewPersonProfile, TypeOK
  <2>5. QED
    BY <2>3, <2>4
<1>2. ASSUME NEW r \in Role, DeleteRole(r), NEW n \in Live', resProfile'[n] # None
      PROVE  Agree(resProfile'[n], roleProfile'[home'[n]])
  BY <1>0, <1>2 DEF DeleteRole, TypeOK, Staff
<1>3. ASSUME NEW r \in Role, CreatePerson(r), NEW n \in Live', resProfile'[n] # None
      PROVE  Agree(resProfile'[n], roleProfile'[home'[n]])
  <2>1. Agree(RoleClone(r), roleProfile'[home'[n]])
    BY DEF RoleClone, Agree, PlannerOwned
  <2>2. QED
    BY <1>0, <1>3, <2>1 DEF CreatePerson, TypeOK
<1>4. ASSUME NEW r \in Role, NEW c \in 0..MaxCount, SetCount(r, c), NEW n \in Live', resProfile'[n] # None
      PROVE  Agree(resProfile'[n], roleProfile'[home'[n]])
  BY <1>0, <1>4 DEF SetCount
<1>5. ASSUME NEW r \in Role, NEW c \in 0..MaxCount, RaiseCount(r, c), NEW n \in Live', resProfile'[n] # None
      PROVE  Agree(resProfile'[n], roleProfile'[home'[n]])
  <2>1. Agree(RoleClone(r), roleProfile'[home'[n]])
    BY DEF RoleClone, Agree, PlannerOwned
  <2>2. QED
    BY <1>0, <1>5, <2>1 DEF RaiseCount, TypeOK
<1>6. ASSUME NEW r \in Role, NEW c \in 0..MaxCount, LowerCount(r, c), NEW n \in Live', resProfile'[n] # None
      PROVE  Agree(resProfile'[n], roleProfile'[home'[n]])
  BY <1>0, <1>6 DEF LowerCount, TypeOK
<1>7. ASSUME NEW m \in Resource, DeletePerson(m), NEW n \in Live', resProfile'[n] # None
      PROVE  Agree(resProfile'[n], roleProfile'[home'[n]])
  BY <1>0, <1>7 DEF DeletePerson, TypeOK
<1>8. QED
  BY <1>1, <1>2, <1>3, <1>4, <1>5, <1>6, <1>7 DEF Identity

LEMMA CoherentEdit ==
  ASSUME TypeOK, PlannerCoherent, Edit
  PROVE  PlannerCoherent'
<1> USE ConstantsAssumption DEF Live
<1> SUFFICES \A n \in Live' : resProfile'[n] # None => Agree(resProfile'[n], roleProfile'[home'[n]])
  BY DEF PlannerCoherent, Agree, PlannerOwned
<1>0. \A n \in Live : resProfile[n] # None => Agree(resProfile[n], roleProfile[home[n]])
  BY CoherentIsAgree
<1>1. ASSUME NEW r \in Role, NEW s \in ManualShape, ReplaceRole(r, s), NEW n \in Live', resProfile'[n] # None
      PROVE  Agree(resProfile'[n], roleProfile'[home'[n]])
  <2>1. n \in Live /\ home' = home /\ n \in Resource
    BY <1>1 DEF ReplaceRole
  <2>2. roleProfile' = [roleProfile EXCEPT ![r] =
          [kind |-> "ROLE", shape |-> s, source |-> "MANUAL", prov |-> "null"]]
    BY <1>1 DEF ReplaceRole
  <2>3. CASE n \in Mirrors(r)
    <3>1. /\ resProfile[n] \in Profile /\ resProfile[n].prov = "ROLE_DEFAULT"
          /\ resProfile[n].kind = "NAMED_PERSON" /\ ~PlannerOwned(resProfile[n])
      BY <2>1, <2>3 DEF Mirrors, Inherited, Explicit, TypeOK, PlannerOwned, Profile, Kind
    <3>2. resProfile'[n] = [resProfile[n] EXCEPT !.shape = s]
      BY <1>1, <2>1, <2>3 DEF ReplaceRole
    <3>3. /\ resProfile'[n].prov = "ROLE_DEFAULT" /\ resProfile'[n].kind = "NAMED_PERSON"
          /\ resProfile'[n].source = resProfile[n].source
      BY <3>1, <3>2 DEF Profile
    <3>4. QED
      BY <1>1, <3>1, <3>3, GeneratedAgree DEF PlannerOwned
  <2>4. CASE n \notin Mirrors(r)
    <3>1. resProfile'[n] = resProfile[n]
      BY <1>1, <2>1, <2>4 DEF ReplaceRole
    <3>2. Agree(resProfile[n], roleProfile[home[n]])
      BY <1>0, <1>1, <2>1, <3>1
    <3>3. CASE home[n] # r
      <4>1. roleProfile'[home'[n]] = roleProfile[home[n]]
        BY <2>1, <2>2, <3>3 DEF TypeOK
      <4>2. QED
        BY <3>1, <3>2, <4>1
    <3>4. CASE home[n] = r
      <4>1. roleProfile[r] # None => roleProfile[r].source # "SQUAD_PLANNER"
        BY <1>1 DEF ReplaceRole, CanReplaceRole, PlannerOwned
      <4>2. /\ roleProfile'[home'[n]] # None
            /\ roleProfile'[home'[n]].source = "MANUAL"
        <5>1. roleProfile'[r] = [kind |-> "ROLE", shape |-> s, source |-> "MANUAL", prov |-> "null"]
          BY <2>2 DEF TypeOK
        <5>2. [kind |-> "ROLE", shape |-> s, source |-> "MANUAL", prov |-> "null"] \in Profile
          BY DEF Profile, Kind, Source, Provenance
        <5>3. QED
          BY <2>1, <3>4, <5>1, <5>2
      <4>3. QED
        BY <3>1, <3>2, <3>4, <4>1, <4>2 DEF Agree
    <3>5. QED
      BY <3>3, <3>4
  <2>5. QED
    BY <2>3, <2>4
<1>2. ASSUME NEW m \in Resource, NEW s \in ManualShape, ReplacePerson(m, s), NEW n \in Live', resProfile'[n] # None
      PROVE  Agree(resProfile'[n], roleProfile'[home'[n]])
  <2>1. \A q : Agree([kind |-> "NAMED_PERSON", shape |-> s, source |-> "MANUAL", prov |-> "null"], q)
    BY DEF Agree, PlannerOwned
  <2>2. QED
    BY <1>0, <1>2, <2>1 DEF ReplacePerson, TypeOK
<1>3. QED
  BY <1>1, <1>2 DEF Edit

(* The rows the planner touches keep the role they have, or get the one     *)
(* they were created for; everybody else is left alone.                     *)
LEMMA PlanHomes ==
  ASSUME TypeOK, NEW plan, DOMAIN plan \subseteq roles, Omitted(plan) \subseteq roles,
         NEW new \in [Resource -> DOMAIN plan \cup {None}], Hires(plan, new), NEW n \in Resource
  PROVE  LET here == IF new[n] # None THEN new[n] ELSE home[n]
         IN  /\ n \in Touched(plan, new) =>
                  \/ here \in DOMAIN plan
                  \/ here \in Omitted(plan) /\ Managed(here) # {}
             /\ n \notin Touched(plan, new) =>
                  /\ here = home[n]
                  /\ here \in DOMAIN plan \cup Omitted(plan) => n \notin Managed(here)
<1> USE ConstantsAssumption
<1>1. new[n] # None => home[n] = None
  BY DEF Hires, Fresh, Live, Resource
<1>2. \A r \in roles : n \in Managed(r) => home[n] = r /\ new[n] = None
  BY <1>1 DEF Managed, Staff, TypeOK
<1>3. ASSUME n \in Touched(plan, new)
      PROVE  LET here == IF new[n] # None THEN new[n] ELSE home[n]
             IN  here \in DOMAIN plan \/ (here \in Omitted(plan) /\ Managed(here) # {})
  <2>1. CASE \E r \in DOMAIN plan : n \in Pool(r, new)
    <3>1. PICK r \in DOMAIN plan : n \in Managed(r) \/ new[n] = r
      BY <2>1 DEF Pool
    <3>2. r \in roles /\ r # None
      BY <3>1 DEF TypeOK
    <3>3. (IF new[n] # None THEN new[n] ELSE home[n]) = r
      BY <1>2, <3>1, <3>2
    <3>4. QED
      BY <3>1, <3>3
  <2>2. CASE \E r \in Omitted(plan) : n \in Managed(r)
    BY <1>2, <2>2
  <2>3. QED
    BY <1>3, <2>1, <2>2 DEF Touched
<1>4. ASSUME n \notin Touched(plan, new)
      PROVE  LET here == IF new[n] # None THEN new[n] ELSE home[n]
             IN  here = home[n] /\ (here \in DOMAIN plan \cup Omitted(plan) => n \notin Managed(here))
  BY <1>4 DEF Touched, Pool
<1>5. QED
  BY <1>3, <1>4

LEMMA CoherentPlanner ==
  ASSUME TypeOK, PlannerCoherent, Planner
  PROVE  PlannerCoherent'
<1> USE ConstantsAssumption
<1> SUFFICES \A n \in Live' : resProfile'[n] # None => Agree(resProfile'[n], roleProfile'[home'[n]])
  BY DEF PlannerCoherent, Agree, PlannerOwned
<1>0. \A n \in Live : resProfile[n] # None => Agree(resProfile[n], roleProfile[home[n]])
  BY CoherentIsAgree
<1>1. ASSUME NEW P \in SUBSET roles, NEW plan \in [P -> 0..MaxSlots], ApplyPlan(plan),
             NEW n \in Live', resProfile'[n] # None
      PROVE  Agree(resProfile'[n], roleProfile'[home'[n]])
  <2>1. PICK new \in [Resource -> DOMAIN plan \cup {None}] :
          /\ Hires(plan, new)
          /\ home' = [m \in Resource |-> IF new[m] # None THEN new[m] ELSE home[m]]
          /\ resProfile' = [m \in Resource |->
               IF m \in Filled(plan, new) THEN SlotResource
               ELSE IF m \in Touched(plan, new) THEN ZeroResource ELSE resProfile[m]]
    BY <1>1 DEF ApplyPlan
  <2>2. /\ DOMAIN plan \subseteq roles /\ roles \subseteq Role /\ Omitted(plan) \subseteq roles
        /\ n \in Resource
        /\ roleProfile' = [r \in Role |->
             IF r \in DOMAIN plan THEN AggregateRole(plan[r])
             ELSE IF r \in Omitted(plan) /\ (roleProfile[r] # None \/ Managed(r) # {})
               THEN AggregateRole(0) ELSE roleProfile[r]]
    BY <1>1 DEF ApplyPlan, OwnerConflict, TypeOK, Live
  <2>3. CASE n \in Touched(plan, new)
    <3>1. resProfile'[n] = SlotResource \/ resProfile'[n] = ZeroResource
      BY <2>1, <2>2, <2>3
    <3>2. \/ home'[n] \in DOMAIN plan
          \/ home'[n] \in Omitted(plan) /\ Managed(home'[n]) # {}
      BY <2>1, <2>2, <2>3, PlanHomes
    <3>3. \E k \in Nat : roleProfile'[home'[n]] = AggregateRole(k)
      BY <2>2, <3>2
    <3>4. \A k \in Nat : AggregateRole(k) # None
      BY WrittenProfiles
    <3>5. QED
      BY <3>1, <3>3, <3>4 DEF Agree, SlotResource, ZeroResource, AggregateRole, PlannerProfile
  <2>4. CASE n \notin Touched(plan, new)
    <3>1. home'[n] = home[n]
      BY <2>1, <2>2, <2>4, PlanHomes
    <3>2. home[n] \in DOMAIN plan \cup Omitted(plan) => n \notin Managed(home[n])
      BY <2>1, <2>2, <2>4, <3>1, PlanHomes
    <3>3. n \notin Filled(plan, new)
      BY <2>2, <2>4 DEF Touched, Filled, Oldest
    <3>4. resProfile'[n] = resProfile[n] /\ n \in Live /\ resProfile[n] \in Profile
      BY <1>1, <2>1, <2>2, <2>4, <3>1, <3>3 DEF TypeOK, Live
    <3>5. Agree(resProfile[n], roleProfile[home[n]])
      BY <1>0, <3>4
    <3>6. CASE home[n] \in DOMAIN plan \cup Omitted(plan)
      <4>1. ~OwnerConflict(home[n]) /\ n \in Staff(home[n]) /\ n \notin Managed(home[n])
        BY <1>1, <3>2, <3>6, <2>2 DEF ApplyPlan, Staff
      <4>2. resProfile[n].kind = "PLANNED_RESOURCE" \/ PlannerOwned(resProfile[n]) => PlannerManaged(n)
        BY <3>4, <4>1 DEF OwnerConflict, PlannerManaged, PlannerPerson, PlannerShaped
      <4>3. resProfile[n].kind = "NAMED_PERSON" /\ ~PlannerOwned(resProfile[n])
        BY <2>2, <3>4, <4>1, <4>2 DEF Managed, TypeOK, Profile, Kind
      <4>4. QED
        BY <3>4, <3>5, <4>3, GeneratedAgree DEF Agree
    <3>7. CASE home[n] \notin DOMAIN plan \cup Omitted(plan)
      <4>1. roleProfile'[home'[n]] = roleProfile[home[n]]
        BY <2>2, <3>1, <3>4, <3>7 DEF Live, TypeOK
      <4>2. QED
        BY <3>4, <3>5, <4>1
    <3>8. QED
      BY <3>6, <3>7
  <2>5. QED
    BY <2>3, <2>4
<1>2. ASSUME NEW r \in Role, Transfer(r), NEW n \in Live', resProfile'[n] # None
      PROVE  Agree(resProfile'[n], roleProfile'[home'[n]])
  <2>1. /\ n \in Live /\ home' = home /\ n \in Resource /\ home[n] \in Role
        /\ roleProfile[r] \in Profile /\ roleProfile[r].source = "SQUAD_PLANNER"
        /\ roleProfile' = [roleProfile EXCEPT ![r] = Transferred(roleProfile[r])]
    BY <1>2 DEF Transfer, Live, TypeOK, Authoritative, PlannerOwned
  <2>2. \A p \in Profile :
          /\ Transferred(p) \in Profile
          /\ Transferred(p).source = "MANUAL" /\ Transferred(p).kind = p.kind
          /\ Transferred(p).shape = p.shape
          /\ p.kind = "PLANNED_RESOURCE" => Transferred(p).prov = "TRANSFERRED_FROM_SQUAD_PLANNER"
    BY DEF Transferred, Profile, Source, Provenance
  <2>3. CASE n \in Staff(r) /\ PlannerPerson(n)
    <3>1. /\ resProfile[n] \in Profile /\ resProfile'[n] = Transferred(resProfile[n])
          /\ resProfile[n].kind = "PLANNED_RESOURCE" /\ resProfile[n].shape.basis = "CAPACITY_PROFILE"
      BY <1>0, <1>2, <2>1, <2>3 DEF Transfer, TypeOK, PlannerPerson, PlannerShaped, PlannerOwned, Agree
    <3>2. roleProfile'[home'[n]] = Transferred(roleProfile[r])
      BY <2>1, <2>3 DEF Staff, TypeOK
    <3>3. QED
      BY <2>1, <2>2, <3>1, <3>2 DEF Agree, PlannerOwned
  <2>4. CASE ~(n \in Staff(r) /\ PlannerPerson(n))
    <3>1. resProfile'[n] = resProfile[n] /\ Agree(resProfile[n], roleProfile[home[n]])
      BY <1>0, <1>2, <2>1, <2>4 DEF Transfer
    <3>2. CASE home[n] = r
      <4>1. ~PlannerPerson(n) /\ resProfile[n] \in Profile
        BY <1>2, <2>1, <2>4, <3>1, <3>2 DEF Staff, TypeOK
      <4>2. resProfile[n].kind = "NAMED_PERSON"
        BY <2>1, <3>1, <3>2, <4>1
           DEF Agree, PlannerPerson, PlannerShaped, PlannerOwned, TypeOK, Profile, Kind
      <4>3. QED
        BY <3>1, <4>2 DEF Agree
    <3>3. CASE home[n] # r
      <4>1. roleProfile'[home'[n]] = roleProfile[home[n]]
        BY <2>1, <3>3 DEF TypeOK
      <4>2. QED
        BY <3>1, <4>1
    <3>4. QED
      BY <3>2, <3>3
  <2>5. QED
    BY <2>3, <2>4
<1>3. QED
  BY <1>1, <1>2 DEF Planner

LEMMA CoherentReplan ==
  ASSUME TypeOK, PlannerCoherent, Replan
  PROVE  PlannerCoherent'
<1> USE ConstantsAssumption DEF Live
<1> SUFFICES \A n \in Live' : resProfile'[n] # None => Agree(resProfile'[n], roleProfile'[home'[n]])
  BY DEF PlannerCoherent, Agree, PlannerOwned
<1>0. \A n \in Live : resProfile[n] # None => Agree(resProfile[n], roleProfile[home[n]])
  BY CoherentIsAgree
<1>1. CASE ResetPlanning
  BY <1>1 DEF ResetPlanning
<1>2. CASE BulkRolesAsNeeded
  <2>1. \A r \in Role : roleProfile[r] # None => roleProfile'[r] = roleProfile[r]
    BY <1>2 DEF BulkRolesAsNeeded
  <2>2. ASSUME NEW n \in Live', resProfile'[n] # None
        PROVE  Agree(resProfile'[n], roleProfile'[home'[n]])
    <3>1. /\ n \in Live /\ home' = home /\ resProfile' = resProfile /\ home[n] \in Role
          /\ Agree(resProfile[n], roleProfile[home[n]])
      BY <1>0, <1>2, <2>2 DEF BulkRolesAsNeeded, TypeOK
    <3>2. QED
      BY <2>1, <3>1 DEF Agree
  <2>3. QED
    BY <2>2
<1>3. CASE BulkPeopleAsNeeded
  <2>1. \A q : Agree(AsNeeded("NAMED_PERSON"), q)
    BY DEF Agree, AsNeeded, PlannerOwned
  <2>2. QED
    BY <1>0, <1>3, <2>1 DEF BulkPeopleAsNeeded, TypeOK
<1>4. CASE CompleteReplanning
  BY <1>0, <1>4 DEF CompleteReplanning
<1>5. QED
  BY <1>1, <1>2, <1>3, <1>4 DEF Replan

(* Completeness of a CURRENT project.                                       *)

(* A role keeps the profile completeness asks for when it had its profile,  *)
(* or when nobody joined, left or was marked by the planner.                *)
LEMMA RoleStaysComplete ==
  ASSUME TypeOK, Complete, NEW r \in roles,
         Staff(r)' = Staff(r),
         \A n \in Staff(r) : resProfile'[n] = resProfile[n],
         roleProfile'[r] = roleProfile[r]
  PROVE  (HasPlannerMark(r) \/ Staff(r) = {} => roleProfile[r] # None)'
BY DEF Complete, HasPlannerMark, PlannerOwned

LEMMA CompleteIdentity ==
  ASSUME TypeOK, Complete, Identity
  PROVE  Complete'
<1> USE ConstantsAssumption
<1>1. ASSUME NEW r \in Role, CreateRole(r) PROVE Complete'
  <2>1. PICK m \in NextIds(1) :
          /\ home' = [home EXCEPT ![m] = r]
          /\ resProfile' = [resProfile EXCEPT ![m] =
               [kind |-> "NAMED_PERSON", shape |-> AsNeededShape,
                source |-> "FIXED", prov |-> "LEGACY_MAPPER"]]
    BY <1>1 DEF CreateRole, NewRoleProfile, NewPersonProfile
  <2>2. m \in Resource /\ home[m] = None
    BY NewIds
  <2>3. \A n \in Live' : resProfile'[n] # None
    <3>1. [kind |-> "NAMED_PERSON", shape |-> AsNeededShape,
           source |-> "FIXED", prov |-> "LEGACY_MAPPER"] \in Profile
      BY WrittenProfiles DEF Profile, Kind, Source, Provenance
    <3>2. QED
      BY <2>1, <2>2, <3>1 DEF Complete, Live, TypeOK
  <2>4. ASSUME NEW q \in roles', (HasPlannerMark(q) \/ Staff(q) = {})' PROVE roleProfile'[q] # None
    <3>1. CASE q = r
      <4>1. [kind |-> "ROLE", shape |-> WindowShape,
             source |-> "AVAILABILITY_WINDOW", prov |-> "LEGACY_MAPPER"] \in Profile
        BY WrittenProfiles DEF Profile, Kind, Source, Provenance
      <4>2. QED
        BY <1>1, <3>1, <4>1 DEF CreateRole, NewRoleProfile, NewPersonProfile, TypeOK
    <3>2. CASE q # r
      <4>1. q \in roles /\ roleProfile'[q] = roleProfile[q]
        BY <1>1, <3>2 DEF CreateRole, NewRoleProfile, NewPersonProfile, TypeOK
      <4>2. Staff(q)' = Staff(q) /\ m \notin Staff(q)
        BY <2>1, <2>2, <3>2, <4>1 DEF Staff, TypeOK
      <4>3. \A n \in Staff(q) : resProfile'[n] = resProfile[n]
        BY <2>1, <4>2 DEF Staff, TypeOK
      <4>4. QED
        BY <2>4, <4>1, <4>2, <4>3, RoleStaysComplete
    <3>3. QED
      BY <3>1, <3>2
  <2>5. QED
    BY <2>3, <2>4 DEF Complete
<1>2. ASSUME NEW r \in Role, DeleteRole(r) PROVE Complete'
  <2>1. \A n \in Live' : n \in Live /\ resProfile'[n] = resProfile[n]
    BY <1>2 DEF DeleteRole, Live, Staff, TypeOK
  <2>2. ASSUME NEW q \in roles', (HasPlannerMark(q) \/ Staff(q) = {})' PROVE roleProfile'[q] # None
    <3>1. q \in roles /\ q # r /\ roleProfile'[q] = roleProfile[q]
      BY <1>2 DEF DeleteRole, TypeOK
    <3>2. Staff(q)' = Staff(q)
      BY <1>2, <3>1 DEF DeleteRole, Staff, TypeOK
    <3>3. \A n \in Staff(q) : resProfile'[n] = resProfile[n]
      BY <1>2, <3>1 DEF DeleteRole, Staff
    <3>4. QED
      BY <2>2, <3>1, <3>2, <3>3, RoleStaysComplete
  <2>3. QED
    BY <2>1, <2>2 DEF Complete
<1>3. ASSUME NEW r \in Role, CreatePerson(r) PROVE Complete'
  <2>1. PICK m \in NextIds(1) :
          /\ home' = [home EXCEPT ![m] = r]
          /\ resProfile' = [resProfile EXCEPT ![m] = RoleClone(r)]
    BY <1>3 DEF CreatePerson
  <2>2. m \in Resource /\ home[m] = None
    BY NewIds
  <2>3. \A n \in Live' : resProfile'[n] # None
    <3>1. RoleClone(r) \in Profile
      BY <1>3 DEF CreatePerson, Authoritative, TypeOK, RoleClone, Profile, Kind, Source, Provenance
    <3>2. QED
      BY <2>1, <2>2, <3>1 DEF Complete, Live, TypeOK
  <2>4. ASSUME NEW q \in roles', (HasPlannerMark(q) \/ Staff(q) = {})' PROVE roleProfile'[q] # None
    <3>1. q \in roles /\ roleProfile' = roleProfile
      BY <1>3 DEF CreatePerson
    <3>2. CASE q = r
      BY <1>3, <3>1, <3>2 DEF CreatePerson, Authoritative
    <3>3. CASE q # r
      <4>1. Staff(q)' = Staff(q) /\ m \notin Staff(q)
        BY <2>1, <2>2, <3>1, <3>3 DEF Staff, TypeOK
      <4>2. \A n \in Staff(q) : resProfile'[n] = resProfile[n]
        BY <2>1, <4>1 DEF Staff, TypeOK
      <4>3. QED
        BY <2>4, <3>1, <4>1, <4>2, RoleStaysComplete
    <3>4. QED
      BY <3>2, <3>3
  <2>5. QED
    BY <2>3, <2>4 DEF Complete
<1>4. ASSUME NEW r \in Role, NEW c \in 0..MaxCount, SetCount(r, c) PROVE Complete'
  BY <1>4 DEF SetCount, Complete, HasPlannerMark, PlannerOwned, Staff, Live
<1>5. ASSUME NEW r \in Role, NEW c \in 0..MaxCount, RaiseCount(r, c) PROVE Complete'
  <2> DEFINE joined == NextIds(c - Cardinality(Staff(r)))
  <2>1. /\ home' = [n \in Resource |-> IF n \in joined THEN r ELSE home[n]]
        /\ resProfile' = [n \in Resource |-> IF n \in joined THEN RoleClone(r) ELSE resProfile[n]]
        /\ roles' = roles /\ roleProfile' = roleProfile
        /\ roleProfile[r] # None
    BY <1>5 DEF RaiseCount, Patchable, Authoritative
  <2> HIDE DEF joined
  <2>2. \A n \in joined : n \in Resource /\ home[n] = None
    BY NewIds DEF joined
  <2>3. RoleClone(r) # None
    <3>1. RoleClone(r) \in Profile
      BY <2>1 DEF TypeOK, RoleClone, Profile, Kind, Source, Provenance
    <3>2. QED
      BY <3>1
  <2>4. \A n \in Live' : resProfile'[n] # None
    BY <2>1, <2>3 DEF Complete, Live
  <2>5. ASSUME NEW q \in roles', (HasPlannerMark(q) \/ Staff(q) = {})' PROVE roleProfile'[q] # None
    <3>1. CASE q = r
      BY <2>1, <3>1
    <3>2. CASE q # r
      <4>1. Staff(q)' = Staff(q) /\ \A n \in Staff(q) : n \notin joined
        BY <2>1, <2>2, <3>2 DEF Staff, TypeOK
      <4>2. \A n \in Staff(q) : resProfile'[n] = resProfile[n]
        BY <2>1, <4>1 DEF Staff
      <4>3. QED
        BY <2>1, <2>5, <4>1, <4>2, RoleStaysComplete
    <3>3. QED
      BY <3>1, <3>2
  <2>6. QED
    BY <2>4, <2>5 DEF Complete
<1>6. ASSUME NEW r \in Role, NEW c \in 0..MaxCount, LowerCount(r, c) PROVE Complete'
  <2> DEFINE gone == Newest(Inherited(r), Cardinality(Staff(r)) - c)
  <2>1. /\ home' = [n \in Resource |-> IF n \in gone THEN None ELSE home[n]]
        /\ resProfile' = [n \in Resource |-> IF n \in gone THEN None ELSE resProfile[n]]
        /\ roles' = roles /\ roleProfile' = roleProfile
        /\ roleProfile[r] # None
    BY <1>6 DEF LowerCount, Patchable, Authoritative
  <2> HIDE DEF gone
  <2>2. \A n \in gone : home[n] = r
    BY DEF gone, Newest, Inherited, Staff
  <2>3. \A n \in Live' : resProfile'[n] # None
    BY <2>1 DEF Complete, Live
  <2>4. ASSUME NEW q \in roles', (HasPlannerMark(q) \/ Staff(q) = {})' PROVE roleProfile'[q] # None
    <3>1. CASE q = r
      BY <2>1, <3>1
    <3>2. CASE q # r
      <4>1. Staff(q)' = Staff(q) /\ \A n \in Staff(q) : n \notin gone
        BY <2>1, <2>2, <3>2 DEF Staff, TypeOK
      <4>2. \A n \in Staff(q) : resProfile'[n] = resProfile[n]
        BY <2>1, <4>1 DEF Staff
      <4>3. QED
        BY <2>1, <2>4, <4>1, <4>2, RoleStaysComplete
    <3>3. QED
      BY <3>1, <3>2
  <2>5. QED
    BY <2>3, <2>4 DEF Complete
<1>7. ASSUME NEW m \in Resource, DeletePerson(m) PROVE Complete'
  <2>1. /\ home' = [home EXCEPT ![m] = None]
        /\ resProfile' = [resProfile EXCEPT ![m] = None]
        /\ roles' = roles /\ roleProfile' = roleProfile
        /\ roleProfile[home[m]] # None
    BY <1>7 DEF DeletePerson, Authoritative
  <2>2. \A n \in Live' : resProfile'[n] # None
    BY <2>1 DEF Complete, Live, TypeOK
  <2>3. ASSUME NEW q \in roles', (HasPlannerMark(q) \/ Staff(q) = {})' PROVE roleProfile'[q] # None
    <3>1. CASE q = home[m]
      BY <2>1, <3>1
    <3>2. CASE q # home[m]
      <4>1. Staff(q)' = Staff(q) /\ m \notin Staff(q)
        BY <2>1, <3>2 DEF Staff, TypeOK
      <4>2. \A n \in Staff(q) : resProfile'[n] = resProfile[n]
        BY <2>1, <4>1 DEF Staff, TypeOK
      <4>3. QED
        BY <2>1, <2>3, <4>1, <4>2, RoleStaysComplete
    <3>3. QED
      BY <3>1, <3>2
  <2>4. QED
    BY <2>2, <2>3 DEF Complete
<1>8. QED
  BY <1>1, <1>2, <1>3, <1>4, <1>5, <1>6, <1>7 DEF Identity

LEMMA CompleteEdit ==
  ASSUME TypeOK, Complete, Edit
  PROVE  Complete'
<1> USE ConstantsAssumption
<1>1. ASSUME NEW r \in Role, NEW s \in ManualShape, ReplaceRole(r, s) PROVE Complete'
  <2> DEFINE new == [kind |-> "ROLE", shape |-> s, source |-> "MANUAL", prov |-> "null"]
  <2>1. /\ roles' = roles /\ home' = home
        /\ roleProfile' = [roleProfile EXCEPT ![r] = new]
        /\ resProfile' = [n \in Resource |->
             IF n \in Mirrors(r) THEN [resProfile[n] EXCEPT !.shape = s] ELSE resProfile[n]]
    BY <1>1 DEF ReplaceRole
  <2>2. new \in Profile
    BY DEF Profile, Kind, Source, Provenance
  <2> HIDE DEF new
  <2>3. \A p \in Profile : [p EXCEPT !.shape = s] \in Profile
    BY DEF Profile
  <2>4. \A n \in Mirrors(r) : n \in Staff(r) /\ resProfile[n] \in Profile
    BY DEF Mirrors, Inherited, Staff, TypeOK
  <2>5. \A n \in Live' : resProfile'[n] # None
    BY <2>1, <2>3, <2>4 DEF Complete, Live
  <2>6. ASSUME NEW q \in roles', (HasPlannerMark(q) \/ Staff(q) = {})' PROVE roleProfile'[q] # None
    <3>1. CASE q = r
      BY <2>1, <2>2, <3>1 DEF TypeOK
    <3>2. CASE q # r
      <4>1. Staff(q)' = Staff(q) /\ \A n \in Staff(q) : n \notin Mirrors(r)
        BY <2>1, <2>4, <3>2 DEF Staff
      <4>2. \A n \in Staff(q) : resProfile'[n] = resProfile[n]
        BY <2>1, <4>1 DEF Staff
      <4>3. roleProfile'[q] = roleProfile[q]
        BY <2>1, <3>2 DEF TypeOK
      <4>4. QED
        BY <2>1, <2>6, <4>1, <4>2, <4>3, RoleStaysComplete
    <3>3. QED
      BY <3>1, <3>2
  <2>7. QED
    BY <2>5, <2>6 DEF Complete
<1>2. ASSUME NEW m \in Resource, NEW s \in ManualShape, ReplacePerson(m, s) PROVE Complete'
  <2> DEFINE new == [kind |-> "NAMED_PERSON", shape |-> s, source |-> "MANUAL", prov |-> "null"]
  <2>1. /\ roles' = roles /\ home' = home /\ roleProfile' = roleProfile
        /\ resProfile' = [resProfile EXCEPT ![m] = new]
    BY <1>2 DEF ReplacePerson
  <2>2. new \in Profile /\ new.kind = "NAMED_PERSON" /\ new.source = "MANUAL"
    BY DEF Profile, Kind, Source, Provenance
  <2> HIDE DEF new
  <2>3. \A n \in Live' : resProfile'[n] # None
    BY <2>1, <2>2 DEF Complete, Live, TypeOK
  <2>4. ASSUME NEW q \in roles', (HasPlannerMark(q) \/ Staff(q) = {})' PROVE roleProfile'[q] # None
    <3>1. HasPlannerMark(q) \/ Staff(q) = {}
      BY <2>1, <2>2, <2>4 DEF HasPlannerMark, Staff, PlannerOwned, TypeOK
    <3>2. QED
      BY <2>1, <3>1 DEF Complete
  <2>5. QED
    BY <2>3, <2>4 DEF Complete
<1>3. QED
  BY <1>1, <1>2 DEF Edit

LEMMA CompletePlanner ==
  ASSUME TypeOK, Complete, Planner
  PROVE  Complete'
<1> USE ConstantsAssumption
<1>1. ASSUME NEW P \in SUBSET roles, NEW plan \in [P -> 0..MaxSlots], ApplyPlan(plan)
      PROVE  Complete'
  <2>1. PICK new \in [Resource -> DOMAIN plan \cup {None}] :
          /\ Hires(plan, new)
          /\ home' = [m \in Resource |-> IF new[m] # None THEN new[m] ELSE home[m]]
          /\ resProfile' = [m \in Resource |->
               IF m \in Filled(plan, new) THEN SlotResource
               ELSE IF m \in Touched(plan, new) THEN ZeroResource ELSE resProfile[m]]
    BY <1>1 DEF ApplyPlan
  <2>2. /\ DOMAIN plan \subseteq roles /\ roles \subseteq Role /\ Omitted(plan) \subseteq roles
        /\ roles' = roles
        /\ roleProfile' = [r \in Role |->
             IF r \in DOMAIN plan THEN AggregateRole(plan[r])
             ELSE IF r \in Omitted(plan) /\ (roleProfile[r] # None \/ Managed(r) # {})
               THEN AggregateRole(0) ELSE roleProfile[r]]
        /\ \A r \in DOMAIN plan : plan[r] \in Nat
    BY <1>1 DEF ApplyPlan, OwnerConflict, TypeOK
  <2>3. /\ \A k \in Nat : AggregateRole(k) # None
        /\ SlotResource # None /\ ZeroResource # None
    BY WrittenProfiles
  <2>4. \A n \in Live' : resProfile'[n] # None
    BY <2>1, <2>2, <2>3, PlanHomes DEF Complete, Live
  <2>5. ASSUME NEW q \in roles', (HasPlannerMark(q) \/ Staff(q) = {})', roleProfile'[q] = None PROVE FALSE
    <3>1. /\ q \in roles /\ q \notin DOMAIN plan /\ roleProfile'[q] = roleProfile[q]
          /\ q \in Omitted(plan) => Managed(q) = {}
      BY <2>2, <2>3, <2>5
    <3>2. \A n \in Resource :
            LET here == IF new[n] # None THEN new[n] ELSE home[n]
            IN  here = q => n \notin Touched(plan, new) /\ here = home[n]
      BY <2>1, <2>2, <3>1, PlanHomes
    <3>3. \A n \in Resource : home[n] = q => new[n] = None
      BY <2>1, <3>1 DEF Hires, Fresh, Live, Resource, TypeOK
    <3>4. Staff(q)' = Staff(q)
      BY <2>1, <3>2, <3>3 DEF Staff
    <3>5. \A n \in Staff(q) : resProfile'[n] = resProfile[n]
      <4>1. \A n \in Staff(q) : n \in Resource /\ n \notin Touched(plan, new)
        BY <3>2, <3>3 DEF Staff
      <4>2. \A n \in Resource : n \notin Touched(plan, new) => n \notin Filled(plan, new)
        BY <2>2 DEF Touched, Filled, Oldest
      <4>3. QED
        BY <2>1, <4>1, <4>2
    <3>6. QED
      BY <2>5, <3>1, <3>4, <3>5, RoleStaysComplete
  <2>6. QED
    BY <2>4, <2>5 DEF Complete
<1>2. ASSUME NEW r \in Role, Transfer(r) PROVE Complete'
  <2>1. \A p \in Profile : Transferred(p) \in Profile
    BY DEF Transferred, Profile, Source, Provenance
  <2>2. /\ roles' = roles /\ home' = home /\ r \in roles /\ roles \subseteq Role
        /\ roleProfile' = [roleProfile EXCEPT ![r] = Transferred(roleProfile[r])]
        /\ roleProfile[r] \in Profile
        /\ resProfile' = [n \in Resource |->
             IF n \in Staff(r) /\ PlannerPerson(n) THEN Transferred(resProfile[n]) ELSE resProfile[n]]
    BY <1>2 DEF Transfer, Authoritative, TypeOK
  <2>3. \A n \in Live' : resProfile'[n] # None
    BY <2>1, <2>2 DEF Complete, Live, TypeOK
  <2>4. ASSUME NEW q \in roles', (HasPlannerMark(q) \/ Staff(q) = {})' PROVE roleProfile'[q] # None
    <3>1. CASE q = r
      BY <2>1, <2>2, <3>1 DEF TypeOK
    <3>2. CASE q # r
      <4>1. Staff(q)' = Staff(q) /\ \A n \in Staff(q) : n \in Resource /\ n \notin Staff(r)
        BY <2>2, <3>2 DEF Staff
      <4>2. roleProfile'[q] = roleProfile[q] /\ \A n \in Staff(q) : resProfile'[n] = resProfile[n]
        BY <2>2, <3>2, <4>1 DEF TypeOK
      <4>3. QED
        BY <2>2, <2>4, <4>1, <4>2, RoleStaysComplete
    <3>3. QED
      BY <3>1, <3>2
  <2>5. QED
    BY <2>3, <2>4 DEF Complete
<1>3. QED
  BY <1>1, <1>2 DEF Planner

LEMMA CurrentStep ==
  ASSUME TypeOK, CurrentIsComplete, Next
  PROVE  CurrentIsComplete'
<1>1. CASE Identity
  <2>1. planning' = planning
    BY <1>1 DEF Identity, CreateRole, DeleteRole, CreatePerson, SetCount, RaiseCount, LowerCount, DeletePerson
  <2>2. QED
    BY <1>1, <2>1, CompleteIdentity DEF CurrentIsComplete
<1>2. CASE Edit
  <2>1. planning' = planning
    BY <1>2 DEF Edit, ReplaceRole, ReplacePerson
  <2>2. QED
    BY <1>2, <2>1, CompleteEdit DEF CurrentIsComplete
<1>3. CASE Planner
  <2>1. planning' = planning
    BY <1>3 DEF Planner, ApplyPlan, Transfer
  <2>2. QED
    BY <1>3, <2>1, CompletePlanner DEF CurrentIsComplete
<1>4. CASE Replan
  <2>1. CASE ResetPlanning \/ BulkRolesAsNeeded \/ BulkPeopleAsNeeded
    BY <2>1 DEF ResetPlanning, BulkRolesAsNeeded, BulkPeopleAsNeeded, CurrentIsComplete
  <2>2. CASE CompleteReplanning
    BY <2>2 DEF CompleteReplanning, NoFindings, Complete, HasPlannerMark, Staff, Live, CurrentIsComplete
  <2>3. QED
    BY <1>4, <2>1, <2>2 DEF Replan
<1>5. QED
  BY <1>1, <1>2, <1>3, <1>4 DEF Next

LEMMA InvInit == Init => IInv
<1> SUFFICES ASSUME Init PROVE IInv
  OBVIOUS
<1>1. TypeOK
  BY TypeInit
<1>2. /\ Live = {} /\ planning = "CURRENT"
      /\ \A n \in Resource : resProfile[n] = None
      /\ \A r \in Role : ~PlannerOwned(roleProfile[r])
      /\ \A r \in roles : r \in Role /\ roleProfile[r] # None /\ Structural(roleProfile[r])
  BY <1>1, NewRoleFacts DEF Init, Live, PlannerOwned, TypeOK
<1>3. QED
  BY <1>1, <1>2 DEF IInv, CloneMarked, PlannerRoleShaped, OnlyMirrorsExceed,
       PlannerCoherent, CurrentIsComplete, Complete

LEMMA InvStep == IInv /\ [Next]_vars => IInv'
<1> SUFFICES ASSUME IInv, [Next]_vars PROVE IInv'
  OBVIOUS
<1>1. CASE UNCHANGED vars
  <2>1. Live' = Live /\ \A r : Staff(r)' = Staff(r)
    BY <1>1 DEF vars, Live, Staff
  <2>2. TypeOK'
    BY TypeStep DEF IInv
  <2>3. CloneMarked' /\ PlannerRoleShaped' /\ OnlyMirrorsExceed'
    BY <1>1, <2>1 DEF vars, IInv, CloneMarked, PlannerRoleShaped, OnlyMirrorsExceed, PlannerOwned
  <2>4. PlannerCoherent'
    BY <1>1, <2>1 DEF vars, IInv, PlannerCoherent, PlannerOwned
  <2>5. CurrentIsComplete'
    BY <1>1, <2>1 DEF vars, IInv, CurrentIsComplete, Complete, HasPlannerMark, PlannerOwned
  <2>6. QED
    BY <2>2, <2>3, <2>4, <2>5 DEF IInv
<1>2. CASE Next
  <2>1. TypeOK /\ CloneMarked /\ PlannerRoleShaped /\ OnlyMirrorsExceed /\ PlannerCoherent /\ CurrentIsComplete
    BY DEF IInv
  <2>2. TypeOK' /\ CloneMarked' /\ PlannerRoleShaped'
    BY <1>2, <2>1, TypeStep, MarksStep
  <2>3. OnlyMirrorsExceed'
    BY <1>2, <2>1, ReadableIdentity, ReadableEdit, ReadablePlanner, ReadableReplan DEF Next
  <2>4. PlannerCoherent'
    BY <1>2, <2>1, CoherentIdentity, CoherentEdit, CoherentPlanner, CoherentReplan DEF Next
  <2>5. CurrentIsComplete'
    BY <1>2, <2>1, CurrentStep
  <2>6. QED
    BY <2>2, <2>3, <2>4, <2>5 DEF IInv
<1>3. QED
  BY <1>1, <1>2

THEOREM Invariance == Spec => []IInv
<1>1. QED
  BY InvInit, InvStep, PTL DEF Spec

(* Whatever the roles, the people and the shapes: only a generated clone of *)
(* a manual role above 100% is ever unreadable.                             *)
THEOREM Readability == Spec => []OnlyMirrorsExceed
<1>1. IInv => OnlyMirrorsExceed
  BY DEF IInv
<1>2. QED
  BY <1>1, Invariance, PTL

(* A planned resource and its role agree on their owner in every reachable  *)
(* state.                                                                   *)
THEOREM Coherence == Spec => []PlannerCoherent
<1>1. IInv => PlannerCoherent
  BY DEF IInv
<1>2. QED
  BY <1>1, Invariance, PTL

(* No route takes away a profile a CURRENT project is required to have.     *)
THEOREM Completeness == Spec => []CurrentIsComplete
<1>1. IInv => CurrentIsComplete
  BY DEF IInv
<1>2. QED
  BY <1>1, Invariance, PTL

(* The editor accepts every person that blocks a replan.                    *)
THEOREM Repair == Spec => []Repairable
<1>1. IInv => Repairable
  <2> SUFFICES ASSUME IInv, NEW n \in Live, ~Authoritative(resProfile[n])
               PROVE  CanReplacePerson(n)
    BY DEF Repairable
  <2>1. n \in Resource /\ resProfile[n] # None => ~Structural(resProfile[n])
    BY DEF Authoritative, Live
  <2>2. resProfile[n] # None =>
          /\ resProfile[n].prov = "ROLE_DEFAULT" /\ resProfile[n].source = "DERIVED"
    BY <2>1 DEF IInv, OnlyMirrorsExceed, Live
  <2>3. resProfile[n] # None => resProfile[n].kind = "NAMED_PERSON"
    BY <2>1, <2>2 DEF IInv, CloneMarked, Live
  <2>4. QED
    BY <2>2, <2>3 DEF CanReplacePerson, PlannerOwned
<1>2. QED
  BY <1>1, Invariance, PTL

----------------------------------------------------------------------------
(* The headcount of the planner's roles.                                    *)

(* A role whose own rows, people and place in the plan a step leaves alone. *)
LEMMA CountKept ==
  ASSUME PlannerCount, NEW r \in roles,
         roleProfile'[r] = roleProfile[r], count'[r] = count[r],
         Staff(r)' = Staff(r), activePlan' = activePlan, PlannerOwned(roleProfile'[r])
  PROVE  count'[r] = IF r \in activePlan' THEN Cardinality(Staff(r)') ELSE 0
BY DEF PlannerCount

LEMMA CountIdentity ==
  ASSUME TypeOK, PlannerCount, Identity
  PROVE  PlannerCount'
<1> USE ConstantsAssumption
<1> SUFFICES ASSUME NEW q \in roles', PlannerOwned(roleProfile'[q])
             PROVE  count'[q] = IF q \in activePlan' THEN Cardinality(Staff(q)') ELSE 0
  BY DEF PlannerCount, PlannerOwned
<1> DEFINE Goal == count'[q] = IF q \in activePlan' THEN Cardinality(Staff(q)') ELSE 0
<1>1. ASSUME NEW r \in Role, CreateRole(r) PROVE Goal
  <2>1. q # r
    BY <1>1 DEF CreateRole, NewRoleProfile, NewPersonProfile, PlannerOwned, TypeOK
  <2>2. q \in roles /\ roleProfile'[q] = roleProfile[q] /\ count'[q] = count[q] /\ activePlan' = activePlan
    BY <1>1, <2>1 DEF CreateRole, NewRoleProfile, NewPersonProfile, TypeOK
  <2>3. Staff(q)' = Staff(q)
    BY <1>1, <2>1, <2>2, NewIds DEF CreateRole, NewRoleProfile, NewPersonProfile, Staff, TypeOK
  <2>4. QED
    BY <2>2, <2>3, CountKept
<1>2. ASSUME NEW r \in Role, DeleteRole(r) PROVE Goal
  <2>1. /\ q # r /\ q \in roles /\ roleProfile'[q] = roleProfile[q]
        /\ count'[q] = count[q] /\ activePlan' = activePlan
    BY <1>2 DEF DeleteRole, TypeOK
  <2>2. Staff(q)' = Staff(q)
    BY <1>2, <2>1 DEF DeleteRole, Staff, TypeOK
  <2>3. QED
    BY <2>1, <2>2, CountKept
<1>3. ASSUME NEW r \in Role, CreatePerson(r) PROVE Goal
  <2>1. /\ q # r /\ q \in roles /\ roleProfile' = roleProfile
        /\ count'[q] = count[q] /\ activePlan' = activePlan
    BY <1>3 DEF CreatePerson, TypeOK
  <2>2. Staff(q)' = Staff(q)
    BY <1>3, <2>1, NewIds DEF CreatePerson, Staff, TypeOK
  <2>3. QED
    BY <2>1, <2>2, CountKept
<1>4. ASSUME NEW r \in Role, NEW c \in 0..MaxCount, SetCount(r, c) PROVE Goal
  <2>1. /\ q # r /\ q \in roles /\ roleProfile' = roleProfile
        /\ count'[q] = count[q] /\ activePlan' = activePlan
    BY <1>4 DEF SetCount, TypeOK
  <2>2. Staff(q)' = Staff(q)
    BY <1>4 DEF SetCount, Staff
  <2>3. QED
    BY <2>1, <2>2, CountKept
<1>5. ASSUME NEW r \in Role, NEW c \in 0..MaxCount, RaiseCount(r, c) PROVE Goal
  <2>1. /\ q # r /\ q \in roles /\ roleProfile' = roleProfile
        /\ count'[q] = count[q] /\ activePlan' = activePlan
    BY <1>5 DEF RaiseCount, Patchable, TypeOK
  <2>2. \A n \in NextIds(c - Cardinality(Staff(r))) : n \in Resource /\ home[n] = None
    BY NewIds
  <2>3. home' = [n \in Resource |->
                   IF n \in NextIds(c - Cardinality(Staff(r))) THEN r ELSE home[n]]
    BY <1>5 DEF RaiseCount
  <2>4. q # None
    BY <2>1 DEF TypeOK
  <2>5. Staff(q)' = Staff(q)
    BY <2>1, <2>2, <2>3, <2>4 DEF Staff
  <2>6. QED
    BY <2>1, <2>5, CountKept
<1>6. ASSUME NEW r \in Role, NEW c \in 0..MaxCount, LowerCount(r, c) PROVE Goal
  <2> DEFINE gone == Newest(Inherited(r), Cardinality(Staff(r)) - c)
  <2>1. /\ q # r /\ q \in roles /\ roleProfile' = roleProfile
        /\ count'[q] = count[q] /\ activePlan' = activePlan
    BY <1>6 DEF LowerCount, Patchable, TypeOK
  <2>2. home' = [n \in Resource |-> IF n \in gone THEN None ELSE home[n]]
    BY <1>6 DEF LowerCount
  <2>3. \A n \in gone : home[n] = r
    BY DEF Newest, Inherited, Staff
  <2> HIDE DEF gone
  <2>4. q # None
    BY <2>1 DEF TypeOK
  <2>5. Staff(q)' = Staff(q)
    BY <2>1, <2>2, <2>3, <2>4 DEF Staff
  <2>6. QED
    BY <2>1, <2>5, CountKept
<1>7. ASSUME NEW n \in Resource, DeletePerson(n) PROVE Goal
  <2>1. /\ q # home[n] /\ q \in roles /\ roleProfile' = roleProfile
        /\ count'[q] = count[q] /\ activePlan' = activePlan
    BY <1>7 DEF DeletePerson, TypeOK
  <2>2. Staff(q)' = Staff(q)
    BY <1>7, <2>1 DEF DeletePerson, Staff, TypeOK
  <2>3. QED
    BY <2>1, <2>2, CountKept
<1>8. QED
  BY <1>1, <1>2, <1>3, <1>4, <1>5, <1>6, <1>7 DEF Identity

LEMMA CountPlanner ==
  ASSUME TypeOK, PlannerRoleShaped, PlannerCount, Planner
  PROVE  PlannerCount'
<1> USE ConstantsAssumption
<1> SUFFICES ASSUME NEW q \in roles', PlannerOwned(roleProfile'[q])
             PROVE  count'[q] = IF q \in activePlan' THEN Cardinality(Staff(q)') ELSE 0
  BY DEF PlannerCount, PlannerOwned
<1>1. ASSUME NEW P \in SUBSET roles, NEW plan \in [P -> 0..MaxSlots], ApplyPlan(plan)
      PROVE  count'[q] = IF q \in activePlan' THEN Cardinality(Staff(q)') ELSE 0
  <2>1. PICK new \in [Resource -> DOMAIN plan \cup {None}] :
          /\ Hires(plan, new)
          /\ home' = [m \in Resource |-> IF new[m] # None THEN new[m] ELSE home[m]]
          /\ count' = [r \in Role |->
               IF r \in DOMAIN plan
                 THEN Cardinality(Staff(r) \ Managed(r)) + Cardinality(Pool(r, new))
               ELSE IF r \in Omitted(plan) THEN 0 ELSE count[r]]
    BY <1>1 DEF ApplyPlan
  <2>2. /\ DOMAIN plan \subseteq roles /\ roles \subseteq Role /\ q \in roles /\ q # None
        /\ activePlan' = DOMAIN plan
        /\ roleProfile' = [r \in Role |->
             IF r \in DOMAIN plan THEN AggregateRole(plan[r])
             ELSE IF r \in Omitted(plan) /\ (roleProfile[r] # None \/ Managed(r) # {})
               THEN AggregateRole(0) ELSE roleProfile[r]]
    BY <1>1 DEF ApplyPlan, TypeOK
  <2>3. CASE q \in DOMAIN plan
    <3> DEFINE A == Staff(q) \ Managed(q)
               B == Pool(q, new)
    <3>1. \A n \in Resource : new[n] # None => home[n] = None
      BY <2>1 DEF Hires, Fresh, Live, Resource
    <3>2. Staff(q)' = A \cup B
      BY <2>1, <2>2, <3>1 DEF Staff, Managed, Pool
    <3>3. A \cap B = {}
      BY <2>2, <3>1 DEF Staff, Managed, Pool
    <3>4. A \in SUBSET Resource /\ B \in SUBSET Resource
      BY DEF Staff, Managed, Pool
    <3> HIDE DEF A, B
    <3>5. Cardinality(A \cup B) = Cardinality(A) + Cardinality(B)
      <4>1. Cardinality(A \cup B) = Cardinality(A) + Cardinality(B) - Cardinality(A \cap B)
        BY <3>4, ResourcesFinite, FS_Union
      <4>2. Cardinality(A \cap B) = 0
        BY <3>3, FS_EmptySet
      <4>3. Cardinality(A) \in Nat /\ Cardinality(B) \in Nat
        BY <3>4, ResourcesFinite
      <4>4. QED
        BY <4>1, <4>2, <4>3
    <3>6. count'[q] = Cardinality(A) + Cardinality(B)
      BY <2>1, <2>2, <2>3 DEF A, B
    <3>7. QED
      BY <2>2, <2>3, <3>2, <3>5, <3>6
  <2>4. CASE q \notin DOMAIN plan
    <3>1. q \in Omitted(plan)
      <4>1. CASE PlannerOwned(roleProfile[q])
        <5>1. PlannerShaped(roleProfile[q])
          BY <2>2, <4>1 DEF PlannerRoleShaped, PlannerShaped
        <5>2. QED
          BY <2>2, <2>4, <5>1 DEF Omitted, Authority
      <4>2. CASE ~PlannerOwned(roleProfile[q])
        <5>1. roleProfile'[q] # roleProfile[q]
          BY <4>2
        <5>2. QED
          BY <2>2, <2>4, <5>1
      <4>3. QED
        BY <4>1, <4>2
    <3>2. QED
      BY <2>1, <2>2, <2>4, <3>1
  <2>5. QED
    BY <2>3, <2>4
<1>2. ASSUME NEW r \in Role, Transfer(r)
      PROVE  count'[q] = IF q \in activePlan' THEN Cardinality(Staff(q)') ELSE 0
  <2>1. q # r
    <3>1. \A p \in Profile : Transferred(p).source = "MANUAL"
      BY DEF Transferred, Profile
    <3>2. roleProfile'[r] = Transferred(roleProfile[r]) /\ roleProfile[r] \in Profile
      BY <1>2 DEF Transfer, Authoritative, TypeOK
    <3>3. QED
      BY <3>1, <3>2 DEF PlannerOwned
  <2>2. /\ q \in roles /\ roleProfile'[q] = roleProfile[q] /\ count'[q] = count[q]
        /\ Staff(q)' = Staff(q) /\ activePlan' = activePlan
    BY <1>2, <2>1 DEF Transfer, TypeOK, Staff
  <2>3. QED
    BY <2>2, CountKept
<1>3. QED
  BY <1>1, <1>2 DEF Planner

LEMMA CountEdit ==
  ASSUME TypeOK, PlannerCount, Edit \/ Replan
  PROVE  PlannerCount'
<1> USE ConstantsAssumption
<1> SUFFICES ASSUME NEW q \in roles', PlannerOwned(roleProfile'[q])
             PROVE  count'[q] = IF q \in activePlan' THEN Cardinality(Staff(q)') ELSE 0
  BY DEF PlannerCount, PlannerOwned
<1>1. roles' = roles /\ count' = count
  BY DEF Edit, ReplaceRole, ReplacePerson, Replan, ResetPlanning, BulkRolesAsNeeded,
     BulkPeopleAsNeeded, CompleteReplanning
<1>2. ~ResetPlanning
  BY <1>1 DEF ResetPlanning, PlannerOwned, TypeOK
<1>3. home' = home /\ activePlan' = activePlan
  BY <1>2 DEF Edit, ReplaceRole, ReplacePerson, Replan, BulkRolesAsNeeded,
     BulkPeopleAsNeeded, CompleteReplanning
<1>4. roleProfile'[q] = roleProfile[q]
  <2>1. CASE Edit
    BY <1>1, <2>1 DEF Edit, ReplaceRole, ReplacePerson, PlannerOwned, TypeOK
  <2>2. CASE Replan
    BY <1>1, <1>2, <2>2 DEF Replan, BulkRolesAsNeeded, BulkPeopleAsNeeded,
       CompleteReplanning, PlannerOwned, AsNeeded, TypeOK
  <2>3. QED
    BY <2>1, <2>2
<1>5. Staff(q)' = Staff(q)
  BY <1>3 DEF Staff
<1>6. QED
  BY <1>1, <1>3, <1>4, <1>5, CountKept

(* No identity route moves the headcount of a role while the planner owns   *)
(* it.                                                                      *)
THEOREM Headcount == Spec => []PlannerCount
<1>1. Init => PlannerCount
  BY InvInit, NewRoleFacts DEF IInv, Init, PlannerCount, PlannerOwned, TypeOK
<1>2. IInv /\ PlannerCount /\ [Next]_vars => PlannerCount'
  <2>1. UNCHANGED vars /\ PlannerCount => PlannerCount'
    BY DEF vars, PlannerCount, PlannerOwned, Staff
  <2>2. QED
    BY <2>1, CountIdentity, CountPlanner, CountEdit DEF IInv, Next
<1>3. QED
  BY <1>1, <1>2, Invariance, PTL DEF Spec

----------------------------------------------------------------------------
(* What a step never does.                                                  *)

(* The planner takes no role profile back from the user.                    *)
THEOREM ManualStays == Spec => ManualNeverReclaimed
<1> DEFINE Kept == \A r \in roles \cap roles' :
             roleProfile[r] # None /\ roleProfile[r].source = "MANUAL" =>
               \/ roleProfile'[r] = None
               \/ roleProfile'[r].source = "MANUAL"
<1>1. TypeOK /\ Next => Kept
  <2> SUFFICES ASSUME TypeOK, Next, NEW r \in roles \cap roles',
                      roleProfile[r] # None, roleProfile[r].source = "MANUAL"
               PROVE  roleProfile'[r] = None \/ roleProfile'[r].source = "MANUAL"
    OBVIOUS
  <2>1. CASE Identity
    BY <2>1 DEF Identity, CreateRole, DeleteRole, CreatePerson, SetCount, RaiseCount,
       LowerCount, DeletePerson, TypeOK
  <2>2. CASE Edit
    BY <2>2 DEF Edit, ReplaceRole, ReplacePerson, TypeOK
  <2>3. CASE Planner
    <3>1. ASSUME NEW P \in SUBSET roles, NEW plan \in [P -> 0..MaxSlots], ApplyPlan(plan)
          PROVE  roleProfile'[r] = roleProfile[r]
      <4>1. r \notin DOMAIN plan \cup Omitted(plan)
        BY <3>1, NoConflictNotManual DEF ApplyPlan, TypeOK
      <4>2. QED
        BY <3>1, <4>1 DEF ApplyPlan, TypeOK
    <3>2. ASSUME NEW q \in Role, Transfer(q) PROVE roleProfile'[r] = roleProfile[r]
      <4>1. q # r
        BY <3>2 DEF Transfer, PlannerOwned
      <4>2. QED
        BY <3>2, <4>1 DEF Transfer, TypeOK
    <3>3. QED
      BY <2>3, <3>1, <3>2 DEF Planner
  <2>4. CASE Replan
    BY <2>4 DEF Replan, ResetPlanning, BulkRolesAsNeeded, BulkPeopleAsNeeded,
       CompleteReplanning, TypeOK
  <2>5. QED
    BY <2>1, <2>2, <2>3, <2>4 DEF Next
<1>2. TypeOK /\ [Next]_vars => [Kept]_vars
  BY <1>1
<1>3. QED
  BY <1>2, Typing, PTL DEF Spec, ManualNeverReclaimed

(* A headcount reduction takes nobody whose capacity somebody authored.     *)
THEOREM AuthoredStays == Spec => AuthoredCapacityStays
<1> DEFINE Stays == \A n \in Live :
              /\ resProfile[n] # None /\ resProfile[n].source \in {"MANUAL", "SQUAD_PLANNER"}
              /\ home'[n] = None
              => DeletePerson(n) \/ DeleteRole(home[n]) \/ ResetPlanning
<1>1. TypeOK /\ Next => Stays
  <2> SUFFICES ASSUME TypeOK, Next, NEW n \in Live, resProfile[n] # None,
                      resProfile[n].source \in {"MANUAL", "SQUAD_PLANNER"}, home'[n] = None
               PROVE  DeletePerson(n) \/ DeleteRole(home[n]) \/ ResetPlanning
    OBVIOUS
  <2>0. n \in Resource /\ home[n] # None /\ None \notin Role
    BY ConstantsAssumption DEF Live
  <2>1. CASE Identity
    <3>1. ASSUME NEW r \in Role, CreateRole(r) PROVE FALSE
      BY <2>0, <3>1 DEF CreateRole, NewRoleProfile, NewPersonProfile, TypeOK
    <3>2. ASSUME NEW r \in Role, CreatePerson(r) PROVE FALSE
      BY <2>0, <3>2 DEF CreatePerson, TypeOK
    <3>3. ASSUME NEW r \in Role, NEW c \in 0..MaxCount, SetCount(r, c) \/ RaiseCount(r, c) PROVE FALSE
      BY <2>0, <3>3 DEF SetCount, RaiseCount, TypeOK
    <3>4. ASSUME NEW r \in Role, NEW c \in 0..MaxCount, LowerCount(r, c) PROVE FALSE
      <4>1. n \in Inherited(r)
        BY <2>0, <3>4 DEF LowerCount, Newest
      <4>2. QED
        BY <4>1 DEF Inherited, Explicit
    <3>5. ASSUME NEW r \in Role, DeleteRole(r) PROVE DeleteRole(home[n])
      <4>1. home[n] = r
        BY <2>0, <3>5 DEF DeleteRole, Staff
      <4>2. QED
        BY <3>5, <4>1
    <3>6. ASSUME NEW m \in Resource, DeletePerson(m) PROVE DeletePerson(n)
      <4>1. m = n
        BY <2>0, <3>6 DEF DeletePerson, TypeOK
      <4>2. QED
        BY <3>6, <4>1
    <3>7. QED
      BY <2>1, <3>1, <3>2, <3>3, <3>4, <3>5, <3>6 DEF Identity
  <2>2. CASE Edit
    BY <2>0, <2>2 DEF Edit, ReplaceRole, ReplacePerson
  <2>3. CASE Planner
    BY <2>0, <2>3 DEF Planner, ApplyPlan, Transfer
  <2>4. CASE Replan
    BY <2>0, <2>4 DEF Replan, BulkRolesAsNeeded, BulkPeopleAsNeeded, CompleteReplanning
  <2>5. QED
    BY <2>1, <2>2, <2>3, <2>4 DEF Next
<1>2. TypeOK /\ [Next]_vars => [Stays]_vars
  BY <1>1
<1>3. QED
  BY <1>2, Typing, PTL DEF Spec, AuthoredCapacityStays

----------------------------------------------------------------------------
(* The parts put together, as the run checks them.                          *)

(* ProfilesReadable (CapacityOwnership): rows are typed and owned, and only *)
(* a mirror of a manual role above 100% is unreadable.                      *)
THEOREM ReadableProfiles == Spec => []ProfilesReadable
BY Typing, Readability, PTL DEF ProfilesReadable

(* OwnersAgree (CapacityOwnership): profiles and headcounts agree about who *)
(* owns a role and its people.                                              *)
THEOREM AgreedOwners == Spec => []OwnersAgree
BY Coherence, Headcount, PTL DEF OwnersAgree

(* ReplanPossible (CapacityOwnership): a reset project can be repaired, a   *)
(* completed one stays complete.                                            *)
THEOREM PossibleReplan == Spec => []ReplanPossible
BY Repair, Completeness, PTL DEF ReplanPossible

(* UsersCapacityKept (CapacityOwnership): the planner never takes a role    *)
(* profile back from the user, and no headcount removes authored capacity.  *)
THEOREM KeptCapacity == Spec => UsersCapacityKept
BY ManualStays, AuthoredStays, PTL DEF UsersCapacityKept
=============================================================================
