---------------------- MODULE MCBacklogDependencies ----------------------
(* Values for the constants of BacklogDependencies.                        *)
EXTENDS BacklogDependencies

CONSTANTS n1, n2, n3

(* Dependencies that can close a cycle of two and one of three.            *)
TwoCycles == {<<n1, n2>>, <<n2, n1>>, <<n2, n3>>, <<n3, n1>>}

(* A file whose rows depend on each other.                                 *)
MutualImport == {{<<n1, n2>>, <<n2, n1>>}}
=============================================================================
