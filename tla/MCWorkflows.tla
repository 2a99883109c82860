---------------------------- MODULE MCWorkflows ----------------------------
(* Three files, as many at a time as when nothing is asked for, two, through *)
(* a chain of two tools, the second of which takes its files one by one.     *)
EXTENDS Workflows
MCTogether == {1}
=============================================================================
