-------------------------- MODULE MCPlannerDrawer --------------------------
(* Constants of PlannerDrawer for TLC: plans of two weeks, two roles.      *)
EXTENDS PlannerDrawer

MCProject == {"A", "B"}
MCRole == {"dev", "ops"}
MCItem == {"f1"}
MCHeads == {1, 2}
MCFloors == {0, 1}
=============================================================================
