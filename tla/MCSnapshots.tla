---------------------------- MODULE MCSnapshots ----------------------------
(* Constants of Snapshots for TLC: two names that differ in case only.     *)
EXTENDS Snapshots, TLC

CONSTANTS c1, c2, r1, r2, q1, q2, full, half, Dev, dev

MCRole == {r1, r2}
MCPerson == {q1, q2}
MCItem == {"i1"}
MCName == {Dev, dev}
MCLower == [n \in MCName |-> "lower"]
MCCapacity == {full, half}
MCRow == {"early"}
MCPlan == {"p1"}
MCEntries == [p \in MCPlan |-> MCRole]
MCClient == {c1, c2}
Symmetry ==
  UNION {Permutations(S) : S \in {MCClient, MCRole, MCPerson, MCCapacity, MCName}}
=============================================================================
