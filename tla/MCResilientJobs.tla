---------------------------- MODULE MCResilientJobs ----------------------------
(* Small instances of ResilientJobs for TLC. *)
EXTENDS ResilientJobs
=============================================================================
