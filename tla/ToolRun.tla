------------------------------- MODULE ToolRun -------------------------------
(***************************************************************************)
(* What a tool run promises to whoever asked for it, without saying how.   *)
(*                                                                         *)
(* A caller hands over a request and waits for one answer.  The server     *)
(* keeps a record of the run (a job in the history) and may, while the     *)
(* caller waits, hold the caller's files.  The promise has three parts:    *)
(*   - a record is closed once, and what closed it never changes;          *)
(*   - the answer agrees with the record, unless the record was removed;   *)
(*   - no answer leaves while the caller's files are still held.           *)
(* Pipeline.tla is shown to implement this module.                         *)
(***************************************************************************)
CONSTANT Runs

VARIABLES
  record,   \* [Runs -> "none", "open", "success", "failed" or "gone"]
  answer,   \* [Runs -> "none", "waiting", "ok", "failed", "threw" or "lost"]
  holding   \* the runs whose caller's files the server holds

vars == <<record, answer, holding>>

Records == {"none", "open", "success", "failed", "gone"}
Answers == {"none", "waiting", "ok", "failed", "threw", "lost"}

TypeOK ==
  /\ record \in [Runs -> Records]
  /\ answer \in [Runs -> Answers]
  /\ holding \subseteq Runs

Init ==
  /\ record = [r \in Runs |-> "none"]
  /\ answer = [r \in Runs |-> "none"]
  /\ holding = {}

\* The answers that agree with what the record says.
Truthful(rec) ==
  CASE rec = "success" -> {"ok"}
    [] rec = "failed"  -> {"failed"}
    [] rec = "gone"    -> {"ok", "failed", "threw"}
    [] rec = "none"    -> {"threw"}
    [] OTHER           -> {}

Accept(r) ==
  /\ answer[r] = "none"
  /\ answer' = [answer EXCEPT ![r] = "waiting"]
  /\ UNCHANGED <<record, holding>>

\* Removes any set of records: the owner forgets them or the store is full.
Forgotten(S) == [q \in Runs |-> IF q \in S /\ record[q] # "none" THEN "gone" ELSE record[q]]

\* A new record may push old ones out of a full store.
Open(r) ==
  /\ answer[r] = "waiting" /\ record[r] = "none"
  /\ \E S \in SUBSET (Runs \ {r}) : record' = [Forgotten(S) EXCEPT ![r] = "open"]
  /\ UNCHANGED <<answer, holding>>

Hold(r) ==
  /\ answer[r] = "waiting" /\ record[r] \in {"open", "gone"}
  /\ holding' = holding \union {r}
  /\ UNCHANGED <<record, answer>>

Close(r) ==
  /\ answer[r] = "waiting" /\ record[r] = "open"
  /\ \E v \in {"success", "failed"} : record' = [record EXCEPT ![r] = v]
  /\ UNCHANGED <<answer, holding>>

Release(r) ==
  /\ holding' = holding \ {r}
  /\ UNCHANGED <<record, answer>>

Reply(r) ==
  /\ answer[r] = "waiting" /\ r \notin holding
  /\ \E a \in Truthful(record[r]) : answer' = [answer EXCEPT ![r] = a]
  /\ UNCHANGED <<record, holding>>

Forget(S) ==
  /\ record' = Forgotten(S)
  /\ UNCHANGED <<answer, holding>>

\* The server stops: nobody who waited is answered, and a store in memory loses its records.
Die ==
  /\ answer' = [r \in Runs |-> IF answer[r] = "waiting" THEN "lost" ELSE answer[r]]
  /\ \E S \in {{}, Runs} : record' = Forgotten(S)
  /\ UNCHANGED holding

Next ==
  \/ \E r \in Runs : Accept(r) \/ Open(r) \/ Hold(r) \/ Close(r) \/ Release(r) \/ Reply(r)
  \/ \E S \in SUBSET Runs : Forget(S)
  \/ Die

Spec == Init /\ [][Next]_vars
=============================================================================
