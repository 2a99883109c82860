------------------------------ MODULE FileBatch ------------------------------
(***************************************************************************)
(* What a batch promises: every file gets one answer of its own, in its    *)
(* own place, whatever becomes of the others, and the batch replies once   *)
(* all have theirs.  Workflows.tla is shown to implement this module.      *)
(***************************************************************************)
EXTENDS Naturals, FiniteSets

CONSTANT Files

VARIABLES
  answer,  \* [Files -> "none", "ok" or "failed"]
  reply    \* what the batch told its caller, <<successes, failures>>, or <<>> before that

vars == <<answer, reply>>

Answered(verdict) == {f \in Files : answer[f] = verdict}

Init ==
  /\ answer = [f \in Files |-> "none"]
  /\ reply = <<>>

\* A file's answer is given once and never taken back; no other file's moves with it.
Settle(f) ==
  /\ answer[f] = "none"
  /\ \E verdict \in {"ok", "failed"} : answer' = [answer EXCEPT ![f] = verdict]
  /\ UNCHANGED reply

Reply ==
  /\ reply = <<>> /\ Answered("none") = {}
  /\ reply' = <<Cardinality(Answered("ok")), Cardinality(Answered("failed"))>>
  /\ UNCHANGED answer

Next == Reply \/ \E f \in Files : Settle(f)

Spec == Init /\ [][Next]_vars
=============================================================================
