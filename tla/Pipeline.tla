------------------------------- MODULE Pipeline -------------------------------
(***************************************************************************)
(* runPipeline (file-processing/pipeline.ts): the one function every tool  *)
(* run goes through, with the job store, the temp files, the progress      *)
(* entries and the executors it touches.                                   *)
(*                                                                         *)
(* Several runs are in flight in one Node process; they interleave at      *)
(* every await, so one action is what happens between two awaits.  A run   *)
(* meets four other actors: its own executor, which Promise.race stops     *)
(* waiting for but does not stop; the owner, who may delete the job (or    *)
(* the account) while it runs; the temp store's retention; and a process   *)
(* crash.  The temp store is seen through its contract here (a put file is *)
(* there until deleted or expired); TempStore.tla models its inside.       *)
(***************************************************************************)
EXTENDS Naturals, FiniteSets

CONSTANTS
  Runs,        \* calls of runPipeline
  Requests,    \* [Runs -> what each call may bring: a set of RequestFields]
  MaxFiles,    \* config.maxFilesPerRequest
  MaxOutputs,  \* bound: files one executor returns
  MaxJobs      \* the in-memory store's cap on retained jobs

RequestFields == [files: Nat, auth: BOOLEAN, usable: BOOLEAN, offline: BOOLEAN]

ASSUME PipelineAssumption ==
  /\ IsFiniteSet(Runs)
  /\ Requests \in [Runs -> SUBSET RequestFields]
  /\ MaxFiles \in Nat
  /\ MaxOutputs \in Nat
  /\ MaxJobs \in Nat \ {0}

VARIABLES
  backend,    \* which job store getJobStore() returned: "memory" or "postgres"
  account,    \* does the user row that owns the jobs exist?
  job,        \* [Runs -> status of the job row, "none" before it and "gone" after it]
  born,       \* [Runs -> creation order of the rows, 0 for none]
  temp,       \* files the temp store serves: <<run, "input" or "output", number>>
  withdrawn,  \* files whose retention ended or that the caller deleted
  progress,   \* [Runs -> state of the run's progress entry]
  pc,         \* [Runs -> where the call of runPipeline is]
  req,        \* [Runs -> the request of the call], given and never changed
  stored,     \* [Runs -> `stored`: the input files to delete in the finally]
  outputs,    \* [Runs -> how many files the executor returned]
  saved,      \* [Runs -> how many of them are stored]
  executor,   \* [Runs -> the executor's own progress, which outlives the race]
  outcome     \* [Runs -> what the call will return]

vars == <<backend, account, job, born, temp, withdrawn, progress, pc, req, stored,
          outputs, saved, executor, outcome>>

Statuses == {"pending", "validating", "processing", "success", "failed"}
Final == {"success", "failed"}

\* Slip: the table forgets that validation may fail.
ValidationNeverFails ==
  [pending    |-> {"validating", "failed"},
   validating |-> {"processing", "success"},
   processing |-> {"success", "failed"},
   success    |-> {},
   failed     |-> {}]

AllowedTransitions ==
  [pending    |-> {"validating", "failed"},
   validating |-> {"processing", "failed", "success"},
   processing |-> {"success", "failed"},
   success    |-> {},
   failed     |-> {}]

CanTransition(from, to) == from = to \/ to \in AllowedTransitions[from]

\* JobStore.update throws unless the row is there and the transition is allowed.
Updatable(r, status) == job[r] \in Statuses /\ CanTransition(job[r], status)

Files == Runs \X {"input", "output"} \X Nat
Inputs(r) == {r} \X {"input"} \X Nat

Working == {"creating", "begin", "storing", "executing", "saving", "failing", "catching",
            "cleanup"}

TypeOK ==
  /\ backend \in {"memory", "postgres"}
  /\ account \in BOOLEAN
  /\ job \in [Runs -> Statuses \union {"none", "gone"}]
  /\ born \in [Runs -> Nat]
  /\ temp \subseteq Files
  /\ withdrawn \subseteq Files
  /\ progress \in [Runs -> {"none", "moving", "done"}]
  /\ pc \in [Runs -> Working \union {"idle", "answered", "dead"}]
  /\ req \in [Runs -> RequestFields]
  /\ stored \in [Runs -> SUBSET Files]
  /\ outputs \in [Runs -> Nat]
  /\ saved \in [Runs -> Nat]
  /\ executor \in [Runs -> {"none", "running", "overrun", "returned", "late"}]
  /\ outcome \in [Runs -> {"none", "ok", "failed", "threw"}]
  /\ \A r \in Runs : stored[r] \subseteq Inputs(r) /\ IsFiniteSet(stored[r])

Init ==
  /\ backend \in {"memory", "postgres"}
  /\ account = TRUE
  /\ job = [r \in Runs |-> "none"]
  /\ born = [r \in Runs |-> 0]
  /\ temp = {}
  /\ withdrawn = {}
  /\ progress = [r \in Runs |-> "none"]
  /\ pc = [r \in Runs |-> "idle"]
  /\ req \in [Runs -> UNION {Requests[r] : r \in Runs}]
  /\ \A r \in Runs : req[r] \in Requests[r]
  /\ stored = [r \in Runs |-> {}]
  /\ outputs = [r \in Runs |-> 0]
  /\ saved = [r \in Runs |-> 0]
  /\ executor = [r \in Runs |-> "none"]
  /\ outcome = [r \in Runs |-> "none"]

-----------------------------------------------------------------------------
(* Steps of one call.  `report` and `endProgress` write the run's own       *)
(* progress entry; they are synchronous, so they belong to the step.        *)

Goto(r, label) == pc' = [pc EXCEPT ![r] = label]
Report(r) == progress' = [progress EXCEPT ![r] = "moving"]
EndProgress(r) == progress' = [progress EXCEPT ![r] = "done"]

fileVars == <<temp, withdrawn, stored>>
resultVars == <<outputs, saved>>
storeVars == <<backend, account>>

Start(r) ==
  /\ pc[r] = "idle"
  /\ Report(r)
  /\ Goto(r, "creating")
  /\ UNCHANGED <<storeVars, job, born, fileVars, req, resultVars, executor, outcome>>

\* The in-memory store drops its oldest rows once a new one makes more than MaxJobs.
Evicted ==
  LET rows == {q \in Runs : job[q] \in Statuses}
  IN  {q \in rows : /\ backend = "memory"
                    /\ 1 + Cardinality({p \in rows : born[p] > born[q]}) >= MaxJobs}

CreateJob(r) ==
  /\ pc[r] = "creating"
  /\ backend = "memory" \/ account
  /\ born' = [born EXCEPT ![r] = 1 + Cardinality({q \in Runs : born[q] > 0})]
  /\ job' = [q \in Runs |-> IF q = r THEN "pending"
                            ELSE IF q \in Evicted THEN "gone" ELSE job[q]]
  /\ Goto(r, "begin")
  /\ UNCHANGED <<storeVars, fileVars, progress, req, resultVars, executor, outcome>>

\* The row's user was deleted: create violates the foreign key, outside the try.
CreateJobThrows(r) ==
  /\ pc[r] = "creating"
  /\ backend = "postgres" /\ ~account
  /\ outcome' = [outcome EXCEPT ![r] = "threw"]
  /\ Goto(r, "answered")
  /\ UNCHANGED <<storeVars, job, born, fileVars, progress, req, resultVars, executor>>

\* Sign-in, the shape of the input, the file count, and validateUpload on every file.
Acceptable(q) == q.auth /\ q.usable /\ q.files <= MaxFiles

Validate(r) ==
  /\ pc[r] = "begin"
  /\ Updatable(r, "validating")
  /\ job' = [job EXCEPT ![r] = "validating"]
  /\ Report(r)
  /\ Goto(r, IF Acceptable(req[r]) THEN "storing" ELSE "failing")
  /\ UNCHANGED <<storeVars, born, fileVars, req, resultVars, executor, outcome>>

StoreInput(r) ==
  /\ pc[r] = "storing"
  /\ Cardinality(stored[r]) < req[r].files
  /\ LET file == <<r, "input", Cardinality(stored[r]) + 1>>
     IN  /\ temp' = temp \union {file}
         /\ stored' = [stored EXCEPT ![r] = @ \union {file}]
  /\ UNCHANGED <<storeVars, job, born, withdrawn, progress, pc, req, resultVars, executor,
                 outcome>>

\* Slip: the loop over the inputs stops one short.
AllButOneStored(r) == pc[r] = "storing" /\ Cardinality(stored[r]) + 1 >= req[r].files

AllStored(r) == pc[r] = "storing" /\ Cardinality(stored[r]) = req[r].files

RefuseOffline(r) ==
  /\ AllStored(r) /\ req[r].offline
  /\ Goto(r, "failing")
  /\ UNCHANGED <<storeVars, job, born, fileVars, progress, req, resultVars, executor, outcome>>

\* The job becomes "processing" and the executor is called in the same turn.
Process(r) ==
  /\ AllStored(r) /\ ~req[r].offline
  /\ Updatable(r, "processing")
  /\ job' = [job EXCEPT ![r] = "processing"]
  /\ executor' = [executor EXCEPT ![r] = "running"]
  /\ Report(r)
  /\ Goto(r, "executing")
  /\ UNCHANGED <<storeVars, born, fileVars, req, resultVars, outcome>>

\* Slip: the race has no timer.
NeverTimeOut(r) == FALSE /\ UNCHANGED vars

\* The timer wins the race: the call stops waiting, the executor does not stop.
TimeOut(r) ==
  /\ pc[r] = "executing"
  /\ executor' = [executor EXCEPT ![r] = "overrun"]
  /\ Goto(r, "failing")
  /\ UNCHANGED <<storeVars, job, born, fileVars, progress, req, resultVars, outcome>>

\* Slip: outputs are pushed on the list that cleanupInputs deletes.
SaveOutputAsStored(r) ==
  /\ pc[r] = "saving" /\ saved[r] < outputs[r]
  /\ LET file == <<r, "output", saved[r] + 1>>
     IN  /\ temp' = temp \union {file}
         /\ stored' = [stored EXCEPT ![r] = @ \union {file}]
  /\ saved' = [saved EXCEPT ![r] = @ + 1]
  /\ UNCHANGED <<storeVars, job, born, withdrawn, progress, pc, req, outputs, executor, outcome>>

\* validateOutputFile accepts the next file and the temp store takes it.
SaveOutput(r) ==
  /\ pc[r] = "saving" /\ saved[r] < outputs[r]
  /\ temp' = temp \union {<<r, "output", saved[r] + 1>>}
  /\ saved' = [saved EXCEPT ![r] = @ + 1]
  /\ UNCHANGED <<storeVars, job, born, withdrawn, stored, progress, pc, req, outputs, executor,
                 outcome>>

RejectOutput(r) ==
  /\ pc[r] = "saving" /\ saved[r] < outputs[r]
  /\ Goto(r, "failing")
  /\ UNCHANGED <<storeVars, job, born, fileVars, progress, req, resultVars, executor, outcome>>

\* Slip: the saves of the outputs are not awaited.
SucceedEarly(r) ==
  /\ pc[r] = "saving"
  /\ Updatable(r, "success")
  /\ job' = [job EXCEPT ![r] = "success"]
  /\ EndProgress(r)
  /\ outcome' = [outcome EXCEPT ![r] = "ok"]
  /\ Goto(r, "cleanup")
  /\ UNCHANGED <<storeVars, born, fileVars, req, resultVars, executor>>

Succeed(r) ==
  /\ pc[r] = "saving" /\ saved[r] = outputs[r]
  /\ Updatable(r, "success")
  /\ job' = [job EXCEPT ![r] = "success"]
  /\ EndProgress(r)
  /\ outcome' = [outcome EXCEPT ![r] = "ok"]
  /\ Goto(r, "cleanup")
  /\ UNCHANGED <<storeVars, born, fileVars, req, resultVars, executor>>

\* What throws inside the try: an update whose row is gone, or a put that cannot write.
Throws(r) ==
  \/ pc[r] = "begin" /\ ~Updatable(r, "validating")
  \/ pc[r] = "storing" /\ Cardinality(stored[r]) < req[r].files
  \/ AllStored(r) /\ ~req[r].offline /\ ~Updatable(r, "processing")
  \/ pc[r] = "saving" /\ saved[r] < outputs[r]
  \/ pc[r] = "saving" /\ saved[r] = outputs[r] /\ ~Updatable(r, "success")
  \/ pc[r] = "failing" /\ ~Updatable(r, "failed")

Catch(r) ==
  /\ Throws(r)
  /\ Goto(r, "catching")
  /\ UNCHANGED <<storeVars, job, born, fileVars, progress, req, resultVars, executor, outcome>>

\* Slip: a failure answers the caller and leaves the row as it was.
FailJobInAnswerOnly(r) ==
  /\ pc[r] \in {"failing", "catching"}
  /\ EndProgress(r)
  /\ outcome' = [outcome EXCEPT ![r] = "failed"]
  /\ Goto(r, "cleanup")
  /\ UNCHANGED <<storeVars, job, born, fileVars, req, resultVars, executor>>

\* Slip: a failure does not end the progress entry.
FailJobBarMoving(r) ==
  /\ pc[r] \in {"failing", "catching"}
  /\ Updatable(r, "failed")
  /\ job' = [job EXCEPT ![r] = "failed"]
  /\ outcome' = [outcome EXCEPT ![r] = "failed"]
  /\ Goto(r, "cleanup")
  /\ UNCHANGED <<storeVars, born, fileVars, progress, req, resultVars, executor>>

\* failJob, from inside the try or from the catch.
FailJob(r) ==
  /\ pc[r] \in {"failing", "catching"}
  /\ Updatable(r, "failed")
  /\ job' = [job EXCEPT ![r] = "failed"]
  /\ EndProgress(r)
  /\ outcome' = [outcome EXCEPT ![r] = "failed"]
  /\ Goto(r, "cleanup")
  /\ UNCHANGED <<storeVars, born, fileVars, req, resultVars, executor>>

\* The failJob of the catch throws too: runPipeline throws, after its finally.
FailJobThrows(r) ==
  /\ pc[r] = "catching"
  /\ ~Updatable(r, "failed")
  /\ outcome' = [outcome EXCEPT ![r] = "threw"]
  /\ Goto(r, "cleanup")
  /\ UNCHANGED <<storeVars, job, born, fileVars, progress, req, resultVars, executor>>

\* cleanupInputs, one awaited delete at a time.
CleanupInput(r) ==
  /\ pc[r] = "cleanup"
  /\ \E file \in stored[r] :
       /\ temp' = temp \ {file}
       /\ stored' = [stored EXCEPT ![r] = @ \ {file}]
  /\ UNCHANGED <<storeVars, job, born, withdrawn, progress, pc, req, resultVars, executor,
                 outcome>>

\* Slip: the finally does not await the deletions.
AnswerAtOnce(r) ==
  /\ pc[r] = "cleanup"
  /\ Goto(r, "answered")
  /\ UNCHANGED <<storeVars, job, born, fileVars, progress, req, resultVars, executor, outcome>>

Answer(r) ==
  /\ pc[r] = "cleanup" /\ stored[r] = {}
  /\ Goto(r, "answered")
  /\ UNCHANGED <<storeVars, job, born, fileVars, progress, req, resultVars, executor, outcome>>

-----------------------------------------------------------------------------
(* The executor, which has a life of its own after the race is over.        *)

\* ctx.reportProgress; nothing stops an executor that overran from calling it.
ExecutorReports(r) ==
  /\ executor[r] \in {"running", "overrun"}
  /\ Report(r)
  /\ UNCHANGED <<storeVars, job, born, fileVars, pc, req, resultVars, executor, outcome>>

\* It returns a result, an error, or throws: the last two lead to failJob.
ExecutorReturns(r) ==
  /\ executor[r] = "running"
  /\ executor' = [executor EXCEPT ![r] = "returned"]
  /\ \/ /\ \E n \in 0..MaxOutputs : outputs' = [outputs EXCEPT ![r] = n]
        /\ Report(r)
        /\ Goto(r, "saving")
     \/ /\ Goto(r, "failing")
        /\ UNCHANGED <<progress, outputs>>
  /\ UNCHANGED <<storeVars, job, born, fileVars, req, saved, outcome>>

\* Slip: a late result is still recorded as the result of the job.
LateResultRecorded(r) ==
  /\ executor[r] = "overrun"
  /\ executor' = [executor EXCEPT ![r] = "late"]
  /\ job' = IF job[r] \in Statuses THEN [job EXCEPT ![r] = "success"] ELSE job
  /\ UNCHANGED <<storeVars, born, fileVars, progress, pc, req, resultVars, outcome>>

\* Nobody waits for the result of an executor that overran.
ExecutorReturnsLate(r) ==
  /\ executor[r] = "overrun"
  /\ executor' = [executor EXCEPT ![r] = "late"]
  /\ UNCHANGED <<storeVars, job, born, fileVars, progress, pc, req, resultVars, outcome>>

-----------------------------------------------------------------------------
(* The environment: the owner, the retention window and the process.        *)

\* A file's retention window closes, or its holder calls DELETE /api/files/:id.
Withdraw(file) ==
  /\ file \in temp
  /\ temp' = temp \ {file}
  /\ withdrawn' = withdrawn \union {file}
  /\ UNCHANGED <<storeVars, job, born, progress, pc, req, stored, resultVars, executor, outcome>>

Removed(S) == [q \in Runs |-> IF q \in S /\ job[q] \in Statuses THEN "gone" ELSE job[q]]

\* deleteHistoryEntry and clearHistory, whatever the state of the rows they delete.
DeleteHistory(S) ==
  /\ backend = "postgres"
  /\ \E r \in S : job[r] \in Statuses
  /\ job' = Removed(S)
  /\ UNCHANGED <<storeVars, born, fileVars, progress, pc, req, resultVars, executor, outcome>>

DeleteAccount ==
  /\ backend = "postgres" /\ account
  /\ account' = FALSE
  /\ job' = Removed(Runs)
  /\ UNCHANGED <<backend, born, fileVars, progress, pc, req, resultVars, executor, outcome>>

\* The process stops: calls, executors, progress entries and in-memory jobs are lost; files stay.
Crash ==
  /\ \E r \in Runs : pc[r] \in Working
  /\ pc' = [r \in Runs |-> IF pc[r] \in Working THEN "dead" ELSE pc[r]]
  /\ executor' = [r \in Runs |-> "none"]
  /\ progress' = [r \in Runs |-> "none"]
  /\ job' = IF backend = "memory" THEN Removed(Runs) ELSE job
  /\ UNCHANGED <<storeVars, born, fileVars, req, resultVars, outcome>>

-----------------------------------------------------------------------------
\* One turn of the call itself.
Step(r) ==
  \/ CreateJob(r) \/ CreateJobThrows(r) \/ Validate(r) \/ StoreInput(r) \/ RefuseOffline(r)
  \/ Process(r) \/ TimeOut(r) \/ SaveOutput(r) \/ RejectOutput(r) \/ Succeed(r) \/ Catch(r)
  \/ FailJob(r) \/ FailJobThrows(r) \/ CleanupInput(r) \/ Answer(r)

Executor(r) == ExecutorReports(r) \/ ExecutorReturns(r) \/ ExecutorReturnsLate(r)

Next ==
  \/ \E r \in Runs : Start(r) \/ Step(r) \/ Executor(r)
  \/ \E file \in temp : Withdraw(file)
  \/ \E S \in {{r} : r \in Runs} \union {Runs} : DeleteHistory(S)
  \/ DeleteAccount
  \/ Crash

Spec == Init /\ [][Next]_vars

\* The event loop resumes every call, and the timer of a call that executes fires: that is
\* all.  Executors may hang, callers need not come, and nothing forces a retention to end.
Fairness == \A r \in Runs : WF_vars(Step(r))

FairSpec == Spec /\ Fairness

-----------------------------------------------------------------------------
(* Properties.                                                              *)

\* An input file is on the server only for a call that still has to delete it, or that a crash
\* cut short: the finally of runPipeline deletes what was stored on every path, before the
\* caller is answered.
InputsLeaveWithTheCall ==
  \A file \in temp : file[2] = "input" =>
    /\ pc[file[1]] \in {"storing", "executing", "saving", "failing", "catching", "cleanup", "dead"}
    /\ file \in stored[file[1]]

\* While the race waits for the executor, every input it may ask readFile for is there, unless
\* its retention ended: no path deletes an input under an executor that is in time.
InputsReadable ==
  \A r \in Runs : pc[r] = "executing" =>
    \A i \in 1..req[r].files : <<r, "input", i>> \in temp \union withdrawn

\* Every file a successful answer lists was stored, and is served until it is withdrawn:
\* neither a failed save nor the deletion of the inputs can leave a dead link in an "ok".
ResultsReachable ==
  \A r \in Runs : job[r] = "success" \/ outcome[r] = "ok" =>
    \A i \in 1..outputs[r] : <<r, "output", i>> \in temp \union withdrawn

\* A row that says the tool is still at it belongs to a call that is still at it, or to one a
\* crash cut short: no answered call leaves its job open in the history.
NoOpenJobAfterAnswer ==
  \A r \in Runs : job[r] \in Statuses \ Final => pc[r] \in Working \union {"dead"}

\* runPipeline throws only when its job row was removed under it, or could not be created:
\* anything else that goes wrong comes back as a failed job.
ThrowsOnlyWithoutJob ==
  \A r \in Runs : outcome[r] = "threw" => job[r] \in {"none", "gone"}

\* A progress entry still moving belongs to a call that has not decided its outcome, to an
\* executor that overran its time and reported after endProgress, or to a call that threw
\* (failJob's endProgress comes after its update).
BarEndsWithTheCall ==
  \A r \in Runs : progress[r] = "moving" =>
    \/ pc[r] \in Working \ {"cleanup"}
    \/ executor[r] \in {"overrun", "late"}
    \/ outcome[r] = "threw"

\* Every call that starts is answered, unless the process dies: no executor, however long it
\* hangs, and no row or file that disappears, leaves the caller waiting.
EveryCallEnds == \A r \in Runs : pc[r] = "creating" ~> pc[r] \in {"answered", "dead"}

\* What the row and the caller see, as ToolRun's variables.
Record(r) == IF job[r] \in Statuses \ Final THEN "open" ELSE job[r]
Reply(r) ==
  CASE pc[r] = "idle"     -> "none"
    [] pc[r] = "answered" -> outcome[r]
    [] pc[r] = "dead"     -> "lost"
    [] OTHER              -> "waiting"

Promise == INSTANCE ToolRun WITH
  record  <- [r \in Runs |-> Record(r)],
  answer  <- [r \in Runs |-> Reply(r)],
  holding <- {r \in Runs : temp \cap Inputs(r) # {}}

\* The pipeline implements what ToolRun promises the caller: the job is closed once and stays as
\* it was closed, the answer agrees with it, and no answer leaves while inputs are held.
KeepsThePromise == Promise!Spec
=============================================================================
