------------------------- MODULE CapacityOwnership -------------------------
(***************************************************************************)
(* Who owns the capacity of one project.                                   *)
(*                                                                         *)
(* A role (ResourceType) has a headcount, people (NamedResource rows) and  *)
(* at most one ROLE capacity profile; a person has at most one profile of  *)
(* its own.  Several writers share these rows: the identity routes         *)
(* (resourceTypes.ts, namedResources.ts), the profile editor               *)
(* (capacityProfileReplaceService.ts), the bulk recovery actions, Squad    *)
(* Planner apply (squadPlan.ts with squadPlannerProfileWriter.ts), the     *)
(* transfer to manual capacity, and the reset / replan pair.  Each of them *)
(* reads the profile's source and provenance to decide what it may touch.  *)
(*                                                                         *)
(* One request is one transaction, and here one step; the interleavings    *)
(* inside a request are the subject of other modules.  Names, prices,      *)
(* weeks and the weekly demand cache are left out; of a profile's          *)
(* percentages only the largest is kept, which is what the 100% cap looks  *)
(* at, and of its segments whether it has any.                             *)
(***************************************************************************)
EXTENDS Naturals, FiniteSets

CONSTANTS Role,          \* ResourceType identities
          MaxResource,   \* bound: ids a NamedResource can get in one behaviour
          MaxCount,      \* bound: the largest headcount a request asks for
          MaxSlots,      \* bound: planner trajectories of one role
          ManualShape,   \* the capacity shapes a user enters in the editor
          None           \* no row: an absent profile, the home of an unused id

(* Ids are handed out in creation order, so n < m means n was created      *)
(* first: the order (createdAt, id) every reader sorts by.                 *)
Resource == 1..MaxResource

Basis == {"DEMAND_FOLLOWING", "WHOLE_PROJECT_ALLOCATION",
          "AVAILABILITY_WINDOW", "CAPACITY_PROFILE"}
Kind == {"ROLE", "NAMED_PERSON", "PLANNED_RESOURCE"}
Source == {"FIXED", "AVAILABILITY_WINDOW", "DERIVED", "MANUAL", "SQUAD_PLANNER"}
Provenance == {"null", "LEGACY_MAPPER", "ROLE_DEFAULT",
               "TRANSFERRED_FROM_SQUAD_PLANNER"}
Shape == [basis : Basis, peak : Nat, segs : BOOLEAN]
Profile == [kind : Kind, shape : Shape, source : Source, prov : Provenance]

ASSUME ConstantsAssumption ==
  /\ MaxResource \in Nat /\ MaxCount \in Nat /\ MaxSlots \in Nat
  /\ None \notin Role /\ None \notin Profile
  /\ ManualShape \subseteq {s \in Shape : s.segs <=> s.basis = "CAPACITY_PROFILE"}

VARIABLES planning,     \* Project.planningState
          roles,        \* the ResourceType rows of the project
          count,        \* ResourceType.count
          home,         \* NamedResource.resourceTypeId, None for an unused id
          roleProfile,  \* the profile a role owns, or None
          resProfile,   \* the profile a named resource owns, or None
          activePlan    \* resourceTypeIds in the entries of the active CapacityPlan

vars == <<planning, roles, count, home, roleProfile, resProfile, activePlan>>

Live == {n \in Resource : home[n] # None}
Staff(r) == {n \in Resource : home[n] = r}

----------------------------------------------------------------------------
(* Profiles: the structural rules and the two ownership tests.             *)

(* validateProfileStructure, on the part of a profile kept here.           *)
Structural(p) ==
  /\ p.kind # "ROLE" => p.shape.peak <= 100
  /\ p.shape.segs => p.shape.basis = "CAPACITY_PROFILE"
  /\ p.shape.basis = "CAPACITY_PROFILE" =>
       \/ p.shape.segs
       \/ /\ p.kind = "PLANNED_RESOURCE"
          /\ p.source \in {"SQUAD_PLANNER", "MANUAL"}
          /\ p.shape.peak = 0

(* loadAndValidateOwnerProfile: exactly one row, of a legal structure.     *)
Authoritative(p) == p # None /\ Structural(p)

PlannerOwned(p) == p # None /\ p.source = "SQUAD_PLANNER"

PlannerShaped(p) ==
  /\ PlannerOwned(p)
  /\ p.shape.basis = "CAPACITY_PROFILE"

(* A profile the mapper wrote and nobody edited since: Squad Planner may   *)
(* adopt the role that carries it.                                         *)
MapperRole(p) ==
  /\ p # None
  /\ p.kind = "ROLE"
  /\ p.prov = "LEGACY_MAPPER"
  /\ p.source = "AVAILABILITY_WINDOW" /\ p.shape.basis = "AVAILABILITY_WINDOW"

----------------------------------------------------------------------------
(* Identities.                                                             *)

Fresh == {n \in Resource : \A m \in Live : m < n}

(* The k ids the next k inserts get.                                       *)
NextIds(k) == {n \in Fresh : Cardinality({m \in Fresh : m < n}) < k}

(* The k newest members of a set of resources.                             *)
Newest(S, k) == {n \in S : Cardinality({m \in S : m > n}) < k}

WindowShape == [basis |-> "AVAILABILITY_WINDOW", peak |-> 100, segs |-> FALSE]
AsNeededShape == [basis |-> "DEMAND_FOLLOWING", peak |-> 100, segs |-> FALSE]

(* The profile generated for a person added to a role.                     *)
RoleClone(r) == [kind |-> "NAMED_PERSON", shape |-> roleProfile[r].shape,
                 source |-> "DERIVED", prov |-> "ROLE_DEFAULT"]

(* classifyNRsForRoleUpdate: a profile that is evidence of its own ...     *)
Explicit(p) ==
  \/ p.kind = "PLANNED_RESOURCE"
  \/ p.source \in {"MANUAL", "SQUAD_PLANNER"}
  \/ p.prov = "null"
  \/ p.shape.segs /\ p.prov # "ROLE_DEFAULT"

(* ... and the people who still have the role's default.                   *)
Inherited(r) ==
  {n \in Staff(r) : /\ resProfile[n] # None
                    /\ ~Explicit(resProfile[n])
                    /\ resProfile[n].shape = roleProfile[r].shape}

(* The mapper's defaults, which make a role open to Squad Planner.          *)
NewRoleProfile == [kind |-> "ROLE", shape |-> WindowShape,
                   source |-> "AVAILABILITY_WINDOW", prov |-> "LEGACY_MAPPER"]
NewPersonProfile == [kind |-> "NAMED_PERSON", shape |-> AsNeededShape,
                     source |-> "FIXED", prov |-> "LEGACY_MAPPER"]

(* POST /resource-types.  An id the plan still names is not used again.     *)
CreateRole(r) ==
  /\ r \in Role \ (roles \cup activePlan)
  /\ \E n \in NextIds(1) :
       /\ home' = [home EXCEPT ![n] = r]
       /\ resProfile' = [resProfile EXCEPT ![n] = NewPersonProfile]
  /\ roles' = roles \cup {r}
  /\ count' = [count EXCEPT ![r] = 1]
  /\ roleProfile' = [roleProfile EXCEPT ![r] = NewRoleProfile]
  /\ UNCHANGED <<planning, activePlan>>

(* PUT /resource-types/:id with a count: the number is stored as it is,    *)
(* the people are left alone.                                              *)
SetCount(r, c) ==
  /\ r \in roles
  /\ Authoritative(roleProfile[r])
  /\ ~PlannerOwned(roleProfile[r])
  /\ count' = [count EXCEPT ![r] = c]
  /\ UNCHANGED <<planning, roles, home, roleProfile, resProfile, activePlan>>

(* resolveRTPatchState and the planner guard of PATCH /resource-types/:id. *)
Patchable(r) ==
  /\ r \in roles
  /\ Authoritative(roleProfile[r]) /\ ~PlannerOwned(roleProfile[r])
  /\ \A n \in Staff(r) : Authoritative(resProfile[n]) /\ ~PlannerOwned(resProfile[n])

(* PATCH with a larger count: one clone of the role default per new person. *)
RaiseCount(r, c) ==
  /\ Patchable(r)
  /\ c > Cardinality(Staff(r))
  /\ roleProfile[r].shape.peak <= 100
  /\ LET k == c - Cardinality(Staff(r))
     IN /\ Cardinality(NextIds(k)) = k
        /\ home' = [n \in Resource |-> IF n \in NextIds(k) THEN r ELSE home[n]]
        /\ resProfile' = [n \in Resource |->
             IF n \in NextIds(k) THEN RoleClone(r) ELSE resProfile[n]]
  /\ count' = [count EXCEPT ![r] = c]
  /\ UNCHANGED <<planning, roles, roleProfile, activePlan>>

(* PATCH with a smaller count: the newest inherited people leave, everyone *)
(* else stays, and the count becomes what is really left.                  *)
LowerCount(r, c) ==
  /\ Patchable(r)
  /\ c < Cardinality(Staff(r))
  /\ LET gone == Newest(Inherited(r), Cardinality(Staff(r)) - c)
     IN /\ home' = [n \in Resource |-> IF n \in gone THEN None ELSE home[n]]
        /\ resProfile' = [n \in Resource |-> IF n \in gone THEN None ELSE resProfile[n]]
        /\ count' = [count EXCEPT ![r] = Cardinality(Staff(r) \ gone)]
  /\ UNCHANGED <<planning, roles, roleProfile, activePlan>>

(* DELETE /resource-types/:id.  Rows cascade, except the entries of a      *)
(* CapacityPlan, whose resourceTypeId is no foreign key.                   *)
DeleteRole(r) ==
  /\ r \in roles
  /\ Authoritative(roleProfile[r])
  /\ \A n \in Staff(r) : Authoritative(resProfile[n])
  /\ roles' = roles \ {r}
  /\ count' = [count EXCEPT ![r] = 0]
  /\ home' = [n \in Resource |-> IF n \in Staff(r) THEN None ELSE home[n]]
  /\ roleProfile' = [roleProfile EXCEPT ![r] = None]
  /\ resProfile' = [n \in Resource |-> IF n \in Staff(r) THEN None ELSE resProfile[n]]
  /\ UNCHANGED <<planning, activePlan>>

(* POST /resource-types/:rtId/named-resources                              *)
CreatePerson(r) ==
  /\ r \in roles
  /\ Authoritative(roleProfile[r]) /\ ~PlannerOwned(roleProfile[r])
  /\ roleProfile[r].shape.peak <= 100
  /\ \E n \in NextIds(1) :
       /\ home' = [home EXCEPT ![n] = r]
       /\ resProfile' = [resProfile EXCEPT ![n] = RoleClone(r)]
  /\ count' = [count EXCEPT ![r] = Cardinality(Staff(r)) + 1]
  /\ UNCHANGED <<planning, roles, roleProfile, activePlan>>

(* DELETE /resource-types/:rtId/named-resources/:id                        *)
DeletePerson(n) ==
  /\ n \in Live
  /\ Authoritative(resProfile[n]) /\ ~PlannerOwned(resProfile[n])
  /\ Authoritative(roleProfile[home[n]]) /\ ~PlannerOwned(roleProfile[home[n]])
  /\ home' = [home EXCEPT ![n] = None]
  /\ resProfile' = [resProfile EXCEPT ![n] = None]
  /\ count' = [count EXCEPT ![home[n]] = Cardinality(Staff(home[n]) \ {n})]
  /\ UNCHANGED <<planning, roles, roleProfile, activePlan>>

----------------------------------------------------------------------------
(* The capacity profile editor: PUT /capacity-profiles/:ownerKind/:ownerId. *)

(* Mutant: the editor does not ask who owns the role.                       *)
CanReplaceAnyRole(r) ==
  /\ r \in roles
  /\ roleProfile[r] # None =>
       /\ Structural(roleProfile[r])
       /\ \A n \in Staff(r) : resProfile[n] # None

(* A role may be edited unless Squad Planner owns it; with a profile there  *)
(* already, every one of its people must have one too.                      *)
CanReplaceRole(r) ==
  /\ r \in roles
  /\ roleProfile[r] # None =>
       /\ Structural(roleProfile[r]) /\ ~PlannerOwned(roleProfile[r])
       /\ \A n \in Staff(r) : resProfile[n] # None

(* The people whose generated profile mirrors the role default.             *)
Mirrors(r) ==
  IF roleProfile[r] = None THEN {}
  ELSE {n \in Inherited(r) : resProfile[n].prov = "ROLE_DEFAULT"}

(* The inherited clones take the role's new shape and keep their marker.    *)
ReplaceRole(r, s) ==
  /\ CanReplaceRole(r)
  /\ roleProfile' = [roleProfile EXCEPT ![r] =
       [kind |-> "ROLE", shape |-> s, source |-> "MANUAL", prov |-> "null"]]
  /\ resProfile' = [n \in Resource |->
       IF n \in Mirrors(r) THEN [resProfile[n] EXCEPT !.shape = s] ELSE resProfile[n]]
  /\ UNCHANGED <<planning, roles, count, home, activePlan>>

(* The planner has its mark on a role through any profile of it.            *)
HasPlannerMark(r) ==
  \/ PlannerOwned(roleProfile[r])
  \/ \E n \in Staff(r) : /\ resProfile[n] # None
                         /\ \/ resProfile[n].kind = "PLANNED_RESOURCE"
                            \/ PlannerOwned(resProfile[n])

(* Mutant: a planner's role is closed to the editor altogether.             *)
CanReplaceOutsidePlanner(n) == n \in Live /\ ~HasPlannerMark(home[n])

CanReplacePerson(n) ==
  /\ n \in Live
  /\ resProfile[n] # None =>
       resProfile[n].kind = "NAMED_PERSON" /\ ~PlannerOwned(resProfile[n])

(* Mutant: no cap.                                                          *)
AnyShape(s) == TRUE

(* The request validator caps a person at 100%.                             *)
PersonShape(s) == s.peak <= 100

ReplacePerson(n, s) ==
  /\ CanReplacePerson(n)
  /\ PersonShape(s)
  /\ resProfile' = [resProfile EXCEPT ![n] =
       [kind |-> "NAMED_PERSON", shape |-> s, source |-> "MANUAL", prov |-> "null"]]
  /\ UNCHANGED <<planning, roles, count, home, roleProfile, activePlan>>

----------------------------------------------------------------------------
(* Squad Planner.                                                           *)

PlannerPerson(n) == PlannerShaped(resProfile[n])

(* capturePlannerAuthority: every role with evidence of planner ownership.  *)
Authority == activePlan
             \cup {r \in roles : PlannerShaped(roleProfile[r])}
             \cup {home[n] : n \in {m \in Live : PlannerPerson(m)}}

(* classifyNamedResource: the rows a plan may reuse.  An unprofiled row     *)
(* counts when the previous active plan covered its role.                   *)
PlannerManaged(n) ==
  \/ PlannerOwned(resProfile[n])
     /\ (resProfile[n].kind = "PLANNED_RESOURCE" \/ PlannerPerson(n))
  \/ resProfile[n] = None /\ home[n] \in activePlan

Managed(r) == {n \in Staff(r) : PlannerManaged(n)}

(* Mutant: only the people of a role are looked at.                         *)
PersonConflict(r) ==
  \/ r \notin roles
  \/ \E n \in Staff(r) :
       /\ resProfile[n] # None
       /\ resProfile[n].kind = "PLANNED_RESOURCE" \/ PlannerOwned(resProfile[n])
       /\ ~PlannerShaped(resProfile[n])

(* validatePlannerOwnerState: what stops the planner from taking a role.    *)
(* A resourceTypeId that is no longer a role of the project is a conflict.  *)
OwnerConflict(r) ==
  \/ r \notin roles
  \/ /\ roleProfile[r] # None
     /\ ~PlannerShaped(roleProfile[r])
     /\ ~MapperRole(roleProfile[r])
  \/ \E n \in Staff(r) :
       /\ resProfile[n] # None
       /\ resProfile[n].kind = "PLANNED_RESOURCE" \/ PlannerOwned(resProfile[n])
       /\ ~PlannerShaped(resProfile[n])

PlannerProfile(kind, peak, segs) ==
  [kind |-> kind, source |-> "SQUAD_PLANNER", prov |-> "null",
   shape |-> [basis |-> "CAPACITY_PROFILE", peak |-> peak, segs |-> segs]]

ZeroResource == PlannerProfile("PLANNED_RESOURCE", 0, FALSE)
SlotResource == PlannerProfile("PLANNED_RESOURCE", 100, TRUE)
AggregateRole(slots) == PlannerProfile("ROLE", 100 * slots, TRUE)

(* Roles of the previous plan that the new one leaves out.                  *)
Omitted(plan) == Authority \ DOMAIN plan

(* The rows a plan creates: each planned role, in turn, gets ids for the    *)
(* trajectories its managed rows do not cover.                              *)
Hires(plan, new) ==
  /\ \A n \in Resource : new[n] # None => n \in Fresh /\ new[n] \in DOMAIN plan
  /\ \A r \in DOMAIN plan :
       LET k == Cardinality(Managed(r))
       IN  Cardinality({n \in Resource : new[n] = r}) = IF plan[r] > k THEN plan[r] - k ELSE 0
  /\ {n \in Resource : new[n] # None} = NextIds(Cardinality({n \in Resource : new[n] # None}))

(* The rows of one role the plan fills, oldest first.                       *)
Oldest(S, k) == {n \in S : Cardinality({m \in S : m < n}) < k}

(* The planner's rows of a role, the new ones included; the rows that get a *)
(* trajectory; the rows that are left or lose one.                          *)
Pool(r, new) == Managed(r) \cup {n \in Resource : new[n] = r}
Filled(plan, new) ==
  {n \in Resource : \E r \in DOMAIN plan : n \in Oldest(Pool(r, new), plan[r])}
Touched(plan, new) ==
  {n \in Resource : \/ \E r \in DOMAIN plan : n \in Pool(r, new)
                    \/ \E r \in Omitted(plan) : n \in Managed(r)}

(* POST /squad-plan/apply with an active plan that asks plan[r] further     *)
(* trajectories of role r.  The omitted roles are emptied in the same       *)
(* transaction, their headcount set to zero.                                *)
ApplyPlan(plan) ==
  /\ DOMAIN plan # {} /\ DOMAIN plan \subseteq roles
  /\ \A r \in DOMAIN plan \cup Omitted(plan) : ~OwnerConflict(r)
  /\ \E new \in [Resource -> DOMAIN plan \cup {None}] :
       /\ Hires(plan, new)
       /\ home' = [n \in Resource |-> IF new[n] # None THEN new[n] ELSE home[n]]
       /\ resProfile' = [n \in Resource |->
            IF n \in Filled(plan, new) THEN SlotResource
            ELSE IF n \in Touched(plan, new) THEN ZeroResource ELSE resProfile[n]]
       /\ count' = [r \in Role |->
            IF r \in DOMAIN plan
              THEN Cardinality(Staff(r) \ Managed(r)) + Cardinality(Pool(r, new))
            ELSE IF r \in Omitted(plan) THEN 0 ELSE count[r]]
  /\ roleProfile' = [r \in Role |->
       IF r \in DOMAIN plan THEN AggregateRole(plan[r])
       ELSE IF r \in Omitted(plan) /\ (roleProfile[r] # None \/ Managed(r) # {})
         THEN AggregateRole(0) ELSE roleProfile[r]]
  /\ activePlan' = DOMAIN plan
  /\ UNCHANGED <<planning, roles>>

(* Switch to manual capacity.  The planned rows stay planned resources,     *)
(* marked as transferred; the role's profile becomes the user's.            *)
Transferred(p) ==
  IF p.kind = "PLANNED_RESOURCE"
    THEN [p EXCEPT !.source = "MANUAL", !.prov = "TRANSFERRED_FROM_SQUAD_PLANNER"]
    ELSE [p EXCEPT !.source = "MANUAL"]

Transfer(r) ==
  /\ r \in roles
  /\ Authoritative(roleProfile[r]) /\ PlannerOwned(roleProfile[r])
  /\ \A n \in Staff(r) :
       IF resProfile[n] = None THEN r \notin activePlan ELSE Structural(resProfile[n])
  /\ ~OwnerConflict(r)
  /\ roleProfile' = [roleProfile EXCEPT ![r] = Transferred(@)]
  /\ resProfile' = [n \in Resource |->
       IF n \in Staff(r) /\ PlannerPerson(n) THEN Transferred(resProfile[n]) ELSE resProfile[n]]
  /\ UNCHANGED <<planning, roles, count, home, activePlan>>

----------------------------------------------------------------------------
(* Reset planning and replan.                                               *)

(* POST /planning/reset: every profile and plan goes, and with them the     *)
(* rows the planner generated; headcounts and everybody else stay.          *)
ResetPlanning ==
  /\ planning' = "NEEDS_REPLAN"
  /\ LET gone == {n \in Live : resProfile[n] # None
                               /\ (resProfile[n].kind = "PLANNED_RESOURCE" \/ PlannerPerson(n))}
     IN home' = [n \in Resource |-> IF n \in gone THEN None ELSE home[n]]
  /\ roleProfile' = [r \in Role |-> None]
  /\ resProfile' = [n \in Resource |-> None]
  /\ activePlan' = {}
  /\ UNCHANGED <<roles, count>>

AsNeeded(kind) ==
  [kind |-> kind, shape |-> AsNeededShape, source |-> "MANUAL", prov |-> "null"]

(* The bulk recovery action for roles without people.                       *)
BulkRolesAsNeeded ==
  /\ planning = "NEEDS_REPLAN"
  /\ roleProfile' = [r \in Role |->
       IF r \in roles /\ Staff(r) = {} /\ roleProfile[r] = None
         THEN AsNeeded("ROLE") ELSE roleProfile[r]]
  /\ UNCHANGED <<planning, roles, count, home, resProfile, activePlan>>

(* The bulk recovery action for people without a profile.  A role with any  *)
(* mark of the planner on it is left to its user.                           *)
BulkPeopleAsNeeded ==
  /\ planning = "NEEDS_REPLAN"
  /\ resProfile' = [n \in Resource |->
       IF n \in Live /\ resProfile[n] = None /\ ~HasPlannerMark(home[n])
         THEN AsNeeded("NAMED_PERSON") ELSE resProfile[n]]
  /\ UNCHANGED <<planning, roles, count, home, roleProfile, activePlan>>

(* checkPersistedCompleteness.                                              *)
Complete ==
  /\ \A n \in Live : resProfile[n] # None
  /\ \A r \in roles : HasPlannerMark(r) \/ Staff(r) = {} => roleProfile[r] # None

(* validatePersistedCapacityProfiles: every profile, of whichever owner.    *)
WellFormed ==
  /\ \A r \in roles : roleProfile[r] # None => Structural(roleProfile[r])
  /\ \A n \in Live : resProfile[n] # None => Structural(resProfile[n])

(* collectReplanningFindings comes back empty.                              *)
NoFindings == Complete /\ WellFormed

(* POST /planning/complete.                                                 *)
CompleteReplanning ==
  /\ planning = "NEEDS_REPLAN"
  /\ NoFindings
  /\ planning' = "CURRENT"
  /\ UNCHANGED <<roles, count, home, roleProfile, resProfile, activePlan>>

----------------------------------------------------------------------------
(* POST /projects seeds some roles, with a headcount of one and nobody in   *)
(* them.                                                                    *)
Init ==
  /\ planning = "CURRENT"
  /\ roles \in SUBSET Role
  /\ count = [r \in Role |-> IF r \in roles THEN 1 ELSE 0]
  /\ home = [n \in Resource |-> None]
  /\ roleProfile = [r \in Role |-> IF r \in roles THEN NewRoleProfile ELSE None]
  /\ resProfile = [n \in Resource |-> None]
  /\ activePlan = {}

Identity ==
  \/ \E r \in Role : CreateRole(r) \/ DeleteRole(r) \/ CreatePerson(r)
  \/ \E r \in Role, c \in 0..MaxCount : SetCount(r, c) \/ RaiseCount(r, c) \/ LowerCount(r, c)
  \/ \E n \in Resource : DeletePerson(n)

Edit ==
  \/ \E r \in Role, s \in ManualShape : ReplaceRole(r, s)
  \/ \E n \in Resource, s \in ManualShape : ReplacePerson(n, s)

Planner ==
  \/ \E P \in SUBSET roles : \E plan \in [P -> 0..MaxSlots] : ApplyPlan(plan)
  \/ \E r \in Role : Transfer(r)

Replan == ResetPlanning \/ BulkRolesAsNeeded \/ BulkPeopleAsNeeded \/ CompleteReplanning

Next == Identity \/ Edit \/ Planner \/ Replan

Spec == Init /\ [][Next]_vars

----------------------------------------------------------------------------
(* What the routes keep.                                                    *)

(* Every variable has its type; a person belongs to a role of the project,  *)
(* a profile to an owner that exists, of the kind the owner is: the foreign *)
(* keys and the unique owner indexes, with the cascades that keep them.     *)
TypeOK ==
  /\ planning \in {"CURRENT", "NEEDS_REPLAN"}
  /\ roles \subseteq Role
  /\ count \in [Role -> Nat]
  /\ home \in [Resource -> roles \cup {None}]
  /\ roleProfile \in [Role -> Profile \cup {None}]
  /\ resProfile \in [Resource -> Profile \cup {None}]
  /\ activePlan \subseteq Role
  /\ \A r \in Role : roleProfile[r] # None =>
       r \in roles /\ roleProfile[r].kind = "ROLE"
  /\ \A n \in Resource : resProfile[n] # None =>
       n \in Live /\ resProfile[n].kind # "ROLE"

(* The writers persist a profile that their own readers reject in one case  *)
(* only: a generated clone that mirrors a manual role above 100%.  It keeps *)
(* the role's exact shape, so lowering the role repairs it; nothing else    *)
(* (editor, planner, transfer, generation) ever leaves an unreadable row.   *)
OnlyMirrorsExceed ==
  /\ \A r \in roles : roleProfile[r] # None => Structural(roleProfile[r])
  /\ \A n \in Live : resProfile[n] # None /\ ~Structural(resProfile[n]) =>
       /\ resProfile[n].prov = "ROLE_DEFAULT"
       /\ resProfile[n].source = "DERIVED"
       /\ roleProfile[home[n]] # None
       /\ roleProfile[home[n]].source = "MANUAL"
       /\ resProfile[n].shape = roleProfile[home[n]].shape

(* A project that is CURRENT has the profiles every capacity reader         *)
(* demands, whatever the routes did to it since it was last completed.      *)
CurrentIsComplete == planning = "CURRENT" => Complete

(* A planned resource and its role always agree on who owns them, and a     *)
(* planned resource is the user's exactly when it is marked transferred.    *)
(* The scheduler's two rules against counting a role twice (suppress the    *)
(* role under its planner rows, or the transferred rows under the manual    *)
(* role) are decided from these fields alone.                               *)
PlannerCoherent ==
  \A n \in Live : resProfile[n] # None =>
    /\ PlannerOwned(resProfile[n]) => resProfile[n].kind = "PLANNED_RESOURCE"
    /\ resProfile[n].kind = "PLANNED_RESOURCE" =>
         /\ resProfile[n].shape.basis = "CAPACITY_PROFILE"
         /\ roleProfile[home[n]] # None
         /\ roleProfile[home[n]].source = resProfile[n].source
         /\ resProfile[n].source \in {"MANUAL", "SQUAD_PLANNER"}
    /\ resProfile[n].prov = "TRANSFERRED_FROM_SQUAD_PLANNER" <=>
         resProfile[n].kind = "PLANNED_RESOURCE" /\ resProfile[n].source = "MANUAL"

(* The headcount of a role the planner owns is the number of its people     *)
(* while the active plan covers it, and zero once a plan left it out: no    *)
(* identity route moves it in between.                                      *)
PlannerCount ==
  \A r \in roles : PlannerOwned(roleProfile[r]) =>
    count[r] = IF r \in activePlan THEN Cardinality(Staff(r)) ELSE 0

(* Whatever finding blocks the completion of a replan, the editor accepts   *)
(* the person it is about: a reset project cannot get stuck on a profile    *)
(* that is missing or unreadable and protected at once.                     *)
Repairable ==
  \A n \in Live : ~Authoritative(resProfile[n]) => CanReplacePerson(n)

(* Squad Planner never takes back a role profile that became the user's;    *)
(* only discarding all planning ends the user's ownership.                  *)
ManualNeverReclaimed ==
  [][\A r \in roles \cap roles' :
       roleProfile[r] # None /\ roleProfile[r].source = "MANUAL" =>
         \/ roleProfile'[r] = None
         \/ roleProfile'[r].source = "MANUAL"]_vars

(* A person whose capacity the user or the planner authored leaves only     *)
(* when it, its role or all planning is deleted: a headcount reduction      *)
(* never takes it.                                                          *)
AuthoredCapacityStays ==
  [][\A n \in Live :
       /\ resProfile[n] # None /\ resProfile[n].source \in {"MANUAL", "SQUAD_PLANNER"}
       /\ home'[n] = None
       => DeletePerson(n) \/ DeleteRole(home[n]) \/ ResetPlanning]_vars

----------------------------------------------------------------------------
(* The invariants above, by what they are for.                              *)

(* What the capacity readers can read: every row is where the foreign keys  *)
(* want it, and none but the mirrors of a manual role above 100% is         *)
(* structurally unreadable.                                                 *)
ProfilesReadable == TypeOK /\ OnlyMirrorsExceed

(* Who owns a role is the same for every reader: its people, its profile    *)
(* and its stored headcount tell the same story.                            *)
OwnersAgree == PlannerCoherent /\ PlannerCount

(* A reset project can always be completed again, and a completed one stays *)
(* complete.                                                                *)
ReplanPossible == Repairable /\ CurrentIsComplete

(* What users said about capacity is neither taken over by the planner nor  *)
(* lost to a headcount.                                                     *)
UsersCapacityKept == ManualNeverReclaimed /\ AuthoredCapacityStays
=============================================================================
