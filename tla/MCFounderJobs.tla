--------------------------- MODULE MCFounderJobs ----------------------------
(* Instances of FounderJobs for TLC. *)
EXTENDS FounderJobs
=============================================================================
