-------------------------- MODULE MCScheduledRides --------------------------
(* Instance of ScheduledRides for TLC. *)
EXTENDS ScheduledRides
=============================================================================
