-------------------------- MODULE MCScopeDocuments --------------------------
(* Two requests at once, of two formats and two time zones.                *)
EXTENDS ScopeDocuments, TLC

Symmetry == Permutations(Client)
=============================================================================
