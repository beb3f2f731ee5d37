---------------------------- MODULE ProfileAudit ----------------------------
(***************************************************************************)
(* The tools that are run before a migration: the audit of who owns which  *)
(* capacity profile, the repair of duplicates and the readiness check      *)
(* (capacityProfileOwnershipAudit.ts, capacityProfileOwnershipRepair.ts,   *)
(* productionMigrationReadiness.ts).  They read tables that were written   *)
(* before owners were unique keys.                                         *)
(*                                                                         *)
(* A row is [id, made, project, role, person, kind, source, says]: role    *)
(* and person are ids or None, made is createdAt, says stands for what the *)
(* profile and its segments say.  Homes gives the project of every role    *)
(* and person there is, StaffOf the people of every role in a sequence.    *)
(***************************************************************************)
EXTENDS CapacityViews

CONSTANTS Homes, StaffOf

ASSUME StaffAssumption ==
  /\ None \notin DOMAIN Homes /\ DOMAIN StaffOf \subseteq DOMAIN Homes
  /\ \A r \in DOMAIN StaffOf : StaffOf[r] \in Seq(DOMAIN Homes)

Owners(p) == {p.role, p.person} \ {None}

(* profileHasValidOwnerShape; the audit reports every other row.           *)
ValidOwner(p) ==
  /\ (p.role = None) # (p.person = None)
  /\ (p.kind = "ROLE") = (p.role # None)
  /\ \A x \in Owners(p) : x \in DOMAIN Homes /\ Homes[x] = p.project

(* profilesAreSemanticEqual                                                *)
SaysSame(p, q) ==
  \A field \in {"project", "role", "person", "kind", "source", "says"} : p[field] = q[field]

(* The rows of each role and of each person that has more than one; a row  *)
(* with both owners is in two of these.                                    *)
Groups(rows) ==
  LET of(x) == {p \in rows : p.role = x}
      about(x) == {p \in rows : p.person = x}
  IN  {G \in UNION {{of(x), about(x)} : x \in UNION {Owners(p) : p \in rows}} : Cardinality(G) > 1}

(* classifyDuplicateGroup                                                  *)
Identical(G) ==
  /\ \A p \in G : ValidOwner(p)
  /\ \A p, q \in G : SaysSame(p, q)

Repairable(rows) == {G \in Groups(rows) : Identical(G)}

(* runOwnershipAudit: isClean.                                             *)
Clean(rows) == Groups(rows) = {} /\ \A p \in rows : ValidOwner(p)

(* selectSurvivor                                                          *)
Older(p, q) == p.made < q.made \/ (p.made = q.made /\ p.id <= q.id)
Survivor(G) == CHOOSE p \in G : \A q \in G : Older(p, q)

(* buildOwnerKey                                                           *)
OwnerKey(p) == IF p.role # None THEN <<p.role, None>> ELSE <<None, p.person>>

(* Mutant: only the number of rows is compared with the audit.             *)
AsManyAsAudited(G, now) == Cardinality(now) = Cardinality(G)

(* A group is as it was audited: the same rows, and they still say so.     *)
AsAudited(G, now) ==
  /\ Cardinality(now) = Cardinality(G)
  /\ \A p \in now : /\ \E q \in G : q.id = p.id
                    /\ \A q \in G : SaysSame(p, q)

(* repairIdenticalDuplicates, under its lock: all groups of the report, or *)
(* nothing, and nothing also when the tables are not clean afterwards.     *)
Repaired(report, fresh) ==
  LET now(G) == {p \in fresh : \E q \in G : OwnerKey(p) = OwnerKey(q)}
      left == fresh \ UNION {now(G) \ {Survivor(now(G))} : G \in report}
  IN  IF (\A G \in report : AsAudited(G, now(G))) /\ Clean(left) THEN left ELSE fresh

(* checkPersistedCompleteness on the rows of a project.                    *)
RowsOfRole(rows, r) == {p \in rows : p.role = r}
RowsOfPerson(rows, q) == {p \in rows : p.person = q}

NeedsProfile(rows, r) ==
  \/ StaffOf[r] = <<>>
  \/ \E p \in RowsOfRole(rows, r) \cup UNION {RowsOfPerson(rows, q) : q \in Range(StaffOf[r])} :
       p.kind = "PLANNED_RESOURCE" \/ p.source = "squadPlanner"

CompleteRole(rows, r) ==
  /\ \A q \in Range(StaffOf[r]) : RowsOfPerson(rows, q) # {}
  /\ NeedsProfile(rows, r) => Cardinality({p \in RowsOfRole(rows, r) : p.kind = "ROLE"}) = 1

(* runProductionMigrationReadiness without the snapshots: projects that    *)
(* need replanning are left out.                                           *)
MigrationReady(rows, replanning) ==
  /\ Clean(rows)
  /\ \A r \in DOMAIN StaffOf : Homes[r] \notin replanning => CompleteRole(rows, r)

(* A role as planning reads it.                                            *)
StoredRole(rows, r) ==
  [profiles |-> RowsOfRole(rows, r),
   people |-> [i \in DOMAIN StaffOf[r] |-> [profiles |-> RowsOfPerson(rows, StaffOf[r][i])]]]
=============================================================================
