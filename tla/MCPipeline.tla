------------------------------ MODULE MCPipeline ------------------------------
(* Small instances of Pipeline for TLC. *)
EXTENDS Pipeline, TLC

CONSTANTS r1, r2

MCRuns == {r1, r2}

Request(n, auth, usable, offline) ==
  [files |-> n, auth |-> auth, usable |-> usable, offline |-> offline]

\* One caller brings two files, or one too many and no sign-in; the other a text, or a file for
\* a remote tool that cannot be reached.
MCRequests ==
  (r1 :> {Request(2, TRUE, TRUE, FALSE), Request(3, FALSE, TRUE, FALSE)}) @@
  (r2 :> {Request(0, TRUE, TRUE, FALSE), Request(1, TRUE, TRUE, TRUE)})
=============================================================================
