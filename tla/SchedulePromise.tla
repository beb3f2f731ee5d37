-------------------------- MODULE SchedulePromise --------------------------
(***************************************************************************)
(* What a schedule promises, whatever computes it: features begin and end  *)
(* once, none begins before everything it waits for has ended, and what is *)
(* placed stays where it is.                                               *)
(***************************************************************************)
EXTENDS Integers

CONSTANTS Feature, None

VARIABLES waits,     \* <<g, f>>: f waits for g
          begun,     \* when a feature begins, or None
          ended      \* when it ends, or None

vars == <<waits, begun, ended>>

Init ==
  /\ waits \subseteq Feature \X Feature
  /\ begun = [f \in Feature |-> None]
  /\ ended = [f \in Feature |-> None]

Begins(f) ==
  begun[f] = None /\ begun'[f] # None =>
    \A g \in Feature : <<g, f>> \in waits => ended[g] # None /\ ended[g] <= begun'[f]

Ends(f) == ended'[f] # None => begun'[f] # None /\ begun'[f] < ended'[f]

Stays(f) ==
  /\ begun[f] # None => begun'[f] = begun[f]
  /\ ended[f] # None => ended'[f] = ended[f]

(* Any features may begin or end in a step.                                *)
Next ==
  /\ UNCHANGED waits
  /\ begun' \in [Feature -> Nat \cup {None}]
  /\ ended' \in [Feature -> Nat \cup {None}]
  /\ \A f \in Feature : Begins(f) /\ Ends(f) /\ Stays(f)

Spec == Init /\ [][Next]_vars
=============================================================================
