----------------------- MODULE MCCapacityOwnership -----------------------
(* Values for the constants of CapacityOwnership that a .cfg cannot write. *)
EXTENDS CapacityOwnership, TLC

Symmetry == Permutations(Role)

AsNeeded100 == AsNeededShape
Segments150 == [basis |-> "CAPACITY_PROFILE", peak |-> 150, segs |-> TRUE]

(* As needed, and a segmented profile above 100%: the smallest set in      *)
(* which a role can exceed one person, agree with the shape of an older    *)
(* profile by coincidence, and carry segments.                             *)
EditorShapes == {AsNeeded100, Segments150}
=============================================================================
