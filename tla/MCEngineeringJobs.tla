------------------------- MODULE MCEngineeringJobs -------------------------
(* Instances of EngineeringJobs for TLC. *)
EXTENDS EngineeringJobs
=============================================================================
