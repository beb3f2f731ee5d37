-------------------------- MODULE MCScheduleStore --------------------------
(* Constants of ScheduleStore for TLC.                                     *)
EXTENDS ScheduleStore

MCFeature == {"f1"}
MCStory == {"s1"}
MCValue == {"early", "late"}
=============================================================================
