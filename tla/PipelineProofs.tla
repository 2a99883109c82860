---------------------------- MODULE PipelineProofs ----------------------------
(***************************************************************************)
(* Proofs about Pipeline, for any number of calls, files and jobs.         *)
(*                                                                         *)
(* The inductive invariant IInv adds to TypeOK where each call may be for  *)
(* each state of its job row (JobPhase), what its outcome may be           *)
(* (OutcomePhase), and which files it still has to delete (FilePhase).     *)
(* NoOpenJobAfterAnswer, ThrowsOnlyWithoutJob and InputsLeaveWithTheCall   *)
(* follow from it, and so does every step of the refinement of ToolRun.    *)
(***************************************************************************)
EXTENDS Pipeline, FiniteSetTheorems, TLAPS

\* The states a call's job row may be in, from where the call is.
RowsAt(label) ==
  CASE label \in {"idle", "creating"}      -> {"none"}
    [] label = "begin"                     -> {"pending", "gone"}
    [] label = "storing"                   -> {"validating", "gone"}
    [] label \in {"executing", "saving"}   -> {"processing", "gone"}
    [] label = "failing"                   -> {"validating", "processing", "gone"}
    [] label = "catching"                  -> {"pending", "validating", "processing", "gone"}
    [] label = "cleanup"                   -> {"success", "failed", "gone"}
    [] label = "answered"                  -> {"success", "failed", "gone", "none"}
    [] OTHER                               -> Statuses \union {"none", "gone"}

JobPhase == \A r \in Runs : job[r] \in RowsAt(pc[r])

OutcomePhase ==
  \A r \in Runs :
    /\ pc[r] \notin {"cleanup", "answered", "dead"} => outcome[r] = "none"
    /\ pc[r] \in {"cleanup", "answered"} => outcome[r] # "none"
    /\ outcome[r] = "ok" => job[r] \in {"success", "gone"}
    /\ outcome[r] = "failed" => job[r] \in {"failed", "gone"}
    /\ outcome[r] = "threw" => job[r] \in {"none", "gone"}

Holders == {"storing", "executing", "saving", "failing", "catching", "cleanup", "dead"}

FilePhase ==
  \A r \in Runs :
    /\ temp \cap Inputs(r) \subseteq stored[r]
    /\ stored[r] # {} => pc[r] \in Holders

\* The executor is waited for exactly while the call executes, and nothing is saved before.
ExecutorPhase ==
  \A r \in Runs :
    /\ executor[r] = "running" <=> pc[r] = "executing"
    /\ pc[r] = "executing" => saved[r] = 0
    /\ pc[r] \in {"idle", "creating", "begin", "storing"} => saved[r] = 0
    /\ saved[r] <= outputs[r]

IInv == TypeOK /\ JobPhase /\ OutcomePhase /\ FilePhase /\ ExecutorPhase

-----------------------------------------------------------------------------
(* Type correctness.                                                        *)

LEMMA InitType == Init => TypeOK
BY PipelineAssumption, FS_EmptySet DEF Init, TypeOK, PipelineAssumption, RequestFields, Files, Inputs

\* The order given to a new row is a number: there are finitely many calls.
LEMMA BirthIsNat == Cardinality({q \in Runs : born[q] > 0}) \in Nat
BY PipelineAssumption, FS_Subset, FS_CardinalityType DEF PipelineAssumption

LEMMA StepType == TypeOK /\ [Next]_vars => TypeOK'
<1> SUFFICES ASSUME TypeOK, [Next]_vars PROVE TypeOK'
  OBVIOUS
<1> USE DEF TypeOK, Statuses, Working, Goto, Report, EndProgress, fileVars, resultVars, storeVars
<1>1. ASSUME NEW r \in Runs, Start(r) PROVE TypeOK'
  BY <1>1 DEF Start
<1>2. ASSUME NEW r \in Runs, CreateJob(r) PROVE TypeOK'
  BY BirthIsNat, <1>2 DEF CreateJob
<1>3. ASSUME NEW r \in Runs, CreateJobThrows(r) PROVE TypeOK'
  BY <1>3 DEF CreateJobThrows
<1>4. ASSUME NEW r \in Runs, Validate(r) PROVE TypeOK'
  BY <1>4 DEF Validate
<1>5. ASSUME NEW r \in Runs, StoreInput(r) PROVE TypeOK'
  <2> DEFINE file == <<r, "input", Cardinality(stored[r]) + 1>>
  <2>1. file \in Files /\ file \in Inputs(r)
    BY FS_CardinalityType DEF Files, Inputs
  <2>2. temp' = temp \union {file} /\ stored' = [stored EXCEPT ![r] = @ \union {file}]
    BY <1>5 DEF StoreInput
  <2>3. IsFiniteSet(stored[r] \union {file})
    BY FS_AddElement
  <2> HIDE DEF file
  <2>4. temp' \subseteq Files /\ stored' \in [Runs -> SUBSET Files]
    BY <2>1, <2>2
  <2>5. \A q \in Runs : stored'[q] \subseteq Inputs(q) /\ IsFiniteSet(stored'[q])
    BY <2>1, <2>2, <2>3
  <2> QED
    BY <1>5, <2>4, <2>5 DEF StoreInput
<1>6. ASSUME NEW r \in Runs, RefuseOffline(r) PROVE TypeOK'
  BY <1>6 DEF RefuseOffline
<1>7. ASSUME NEW r \in Runs, Process(r) PROVE TypeOK'
  BY <1>7 DEF Process
<1>8. ASSUME NEW r \in Runs, TimeOut(r) PROVE TypeOK'
  BY <1>8 DEF TimeOut
<1>9. ASSUME NEW r \in Runs, SaveOutput(r) PROVE TypeOK'
  BY <1>9 DEF SaveOutput, Files
<1>10. ASSUME NEW r \in Runs, RejectOutput(r) PROVE TypeOK'
  BY <1>10 DEF RejectOutput
<1>11. ASSUME NEW r \in Runs, Succeed(r) PROVE TypeOK'
  BY <1>11 DEF Succeed
<1>12. ASSUME NEW r \in Runs, Catch(r) PROVE TypeOK'
  BY <1>12 DEF Catch
<1>13. ASSUME NEW r \in Runs, FailJob(r) PROVE TypeOK'
  BY <1>13 DEF FailJob
<1>14. ASSUME NEW r \in Runs, FailJobThrows(r) PROVE TypeOK'
  BY <1>14 DEF FailJobThrows
<1>15. ASSUME NEW r \in Runs, CleanupInput(r) PROVE TypeOK'
  BY <1>15, FS_RemoveElement DEF CleanupInput, Files, Inputs
<1>16. ASSUME NEW r \in Runs, Answer(r) PROVE TypeOK'
  BY <1>16 DEF Answer
<1>17. ASSUME NEW r \in Runs, ExecutorReports(r) PROVE TypeOK'
  BY <1>17 DEF ExecutorReports
<1>18. ASSUME NEW r \in Runs, ExecutorReturns(r) PROVE TypeOK'
  BY <1>18 DEF ExecutorReturns
<1>19. ASSUME NEW r \in Runs, ExecutorReturnsLate(r) PROVE TypeOK'
  BY <1>19 DEF ExecutorReturnsLate
<1>20. ASSUME NEW file \in temp, Withdraw(file) PROVE TypeOK'
  BY <1>20 DEF Withdraw
<1>21. ASSUME NEW S, DeleteHistory(S) PROVE TypeOK'
  BY <1>21 DEF DeleteHistory, Removed
<1>22. CASE DeleteAccount
  BY <1>22 DEF DeleteAccount, Removed
<1>23. CASE Crash
  BY <1>23 DEF Crash, Removed
<1>24. CASE UNCHANGED vars
  BY <1>24 DEF vars
<1> QED
  BY <1>1, <1>2, <1>3, <1>4, <1>5, <1>6, <1>7, <1>8, <1>9, <1>10, <1>11, <1>12, <1>13, <1>14, <1>15, <1>16, <1>17, <1>18, <1>19, <1>20, <1>21, <1>22, <1>23, <1>24 DEF Next, Step, Executor

THEOREM TypeCorrect == Spec => []TypeOK
<1> QED
  BY InitType, StepType, PTL DEF Spec

-----------------------------------------------------------------------------
(* The inductive invariant.                                                 *)

LEMMA InitIInv == Init => IInv
<1> SUFFICES ASSUME Init PROVE IInv
  OBVIOUS
<1>1. TypeOK
  BY InitType
<1>2. JobPhase /\ OutcomePhase /\ FilePhase /\ ExecutorPhase
  BY DEF Init, JobPhase, RowsAt, OutcomePhase, FilePhase, ExecutorPhase, Working
<1> QED
  BY <1>1, <1>2 DEF IInv

\* Wherever a row may be, it may also have been removed.
LEMMA GoneAnywhere ==
  ASSUME NEW label, NEW status \in Statuses, status \in RowsAt(label)
  PROVE  "gone" \in RowsAt(label)
BY DEF RowsAt, Statuses

Inv == JobPhase /\ OutcomePhase /\ FilePhase /\ ExecutorPhase

LEMMA StepInv == IInv /\ [Next]_vars => Inv'
<1> SUFFICES ASSUME IInv, [Next]_vars PROVE Inv'
  OBVIOUS
<1> USE DEF IInv, TypeOK, Inv, JobPhase, OutcomePhase, FilePhase, ExecutorPhase, Goto, fileVars,
            resultVars, storeVars
<1>1. ASSUME NEW r \in Runs, Start(r) PROVE Inv'
  BY <1>1 DEF Start, RowsAt, Holders
<1>2. ASSUME NEW r \in Runs, CreateJob(r) PROVE Inv'
  <2>1. Evicted \subseteq {q \in Runs : job[q] \in Statuses}
    BY DEF Evicted
  <2>2. \A q \in Runs : q # r =>
          \/ job'[q] = job[q]
          \/ job'[q] = "gone" /\ job[q] \in Statuses
    BY <1>2, <2>1 DEF CreateJob
  <2>3. job'[r] = "pending" /\ pc[r] = "creating"
    BY <1>2 DEF CreateJob
  <2>4. /\ pc' = [pc EXCEPT ![r] = "begin"]
        /\ UNCHANGED <<temp, stored, saved, outputs, executor, outcome>>
    BY <1>2 DEF CreateJob
  <2>5. JobPhase'
    <3> SUFFICES ASSUME NEW q \in Runs PROVE job'[q] \in RowsAt(pc'[q])
      OBVIOUS
    <3>1. CASE q = r
      BY <3>1, <2>3, <2>4 DEF RowsAt
    <3>2. CASE q # r
      BY <3>2, <2>2, <2>4, GoneAnywhere
    <3> QED
      BY <3>1, <3>2
  <2>6. OutcomePhase'
    BY <2>2, <2>3, <2>4 DEF RowsAt, Statuses
  <2>7. FilePhase' /\ ExecutorPhase'
    BY <2>3, <2>4 DEF Holders
  <2> QED
    BY <2>5, <2>6, <2>7
<1>3. ASSUME NEW r \in Runs, CreateJobThrows(r) PROVE Inv'
  BY <1>3 DEF CreateJobThrows, RowsAt, Holders
<1>4. ASSUME NEW r \in Runs, Validate(r) PROVE Inv'
  BY <1>4 DEF Validate, RowsAt, Updatable, CanTransition, AllowedTransitions, Statuses, Holders
<1>5. ASSUME NEW r \in Runs, StoreInput(r) PROVE Inv'
  BY <1>5 DEF StoreInput, RowsAt, Holders, Inputs
<1>6. ASSUME NEW r \in Runs, RefuseOffline(r) PROVE Inv'
  BY <1>6 DEF RefuseOffline, RowsAt, AllStored, Holders
<1>7. ASSUME NEW r \in Runs, Process(r) PROVE Inv'
  BY <1>7 DEF Process, RowsAt, Updatable, CanTransition, AllowedTransitions, Statuses, AllStored, Holders
<1>8. ASSUME NEW r \in Runs, TimeOut(r) PROVE Inv'
  BY <1>8 DEF TimeOut, RowsAt, Holders
<1>9. ASSUME NEW r \in Runs, SaveOutput(r) PROVE Inv'
  BY <1>9 DEF SaveOutput, RowsAt, Inputs
<1>10. ASSUME NEW r \in Runs, RejectOutput(r) PROVE Inv'
  BY <1>10 DEF RejectOutput, RowsAt, Holders
<1>11. ASSUME NEW r \in Runs, Succeed(r) PROVE Inv'
  BY <1>11 DEF Succeed, RowsAt, Updatable, CanTransition, AllowedTransitions, Statuses, Holders
<1>12. ASSUME NEW r \in Runs, Catch(r) PROVE Inv'
  BY <1>12 DEF Catch, RowsAt, Throws, AllStored, Updatable, CanTransition, AllowedTransitions, Statuses, Holders
<1>13. ASSUME NEW r \in Runs, FailJob(r) PROVE Inv'
  BY <1>13 DEF FailJob, RowsAt, Updatable, CanTransition, AllowedTransitions, Statuses, Holders
<1>14. ASSUME NEW r \in Runs, FailJobThrows(r) PROVE Inv'
  BY <1>14 DEF FailJobThrows, RowsAt, Updatable, CanTransition, AllowedTransitions, Statuses, Holders
<1>15. ASSUME NEW r \in Runs, CleanupInput(r) PROVE Inv'
  BY <1>15 DEF CleanupInput, RowsAt, Holders
<1>16. ASSUME NEW r \in Runs, Answer(r) PROVE Inv'
  BY <1>16 DEF Answer, RowsAt, Holders
<1>17. ASSUME NEW r \in Runs, ExecutorReports(r) PROVE Inv'
  BY <1>17 DEF ExecutorReports, RowsAt
<1>18. ASSUME NEW r \in Runs, ExecutorReturns(r) PROVE Inv'
  BY <1>18 DEF ExecutorReturns, RowsAt, Holders
<1>19. ASSUME NEW r \in Runs, ExecutorReturnsLate(r) PROVE Inv'
  BY <1>19 DEF ExecutorReturnsLate, RowsAt
<1>20. ASSUME NEW file \in temp, Withdraw(file) PROVE Inv'
  BY <1>20 DEF Withdraw
<1>21. ASSUME NEW S, DeleteHistory(S) PROVE Inv'
  BY <1>21, GoneAnywhere DEF DeleteHistory, Removed
<1>22. CASE DeleteAccount
  BY <1>22, GoneAnywhere DEF DeleteAccount, Removed
<1>23. CASE Crash
  BY <1>23, GoneAnywhere DEF Crash, Removed, RowsAt, Working, Holders
<1>24. CASE UNCHANGED vars
  BY <1>24 DEF vars
<1> QED
  BY <1>1, <1>2, <1>3, <1>4, <1>5, <1>6, <1>7, <1>8, <1>9, <1>10, <1>11, <1>12, <1>13, <1>14, <1>15, <1>16, <1>17, <1>18, <1>19, <1>20, <1>21, <1>22, <1>23, <1>24 DEF Next, Step, Executor

\* IInv holds in every reachable state.
THEOREM Invariance == Spec => []IInv
<1>1. IInv /\ [Next]_vars => IInv'
  BY StepType, StepInv DEF IInv, Inv
<1> QED
  BY <1>1, InitIInv, PTL DEF Spec

\* No answered call leaves its job open, whatever happened to the row, the files or the process.
THEOREM JobsAreClosed == Spec => []NoOpenJobAfterAnswer
<1>1. IInv => NoOpenJobAfterAnswer
  BY DEF IInv, JobPhase, RowsAt, NoOpenJobAfterAnswer, TypeOK, Statuses, Final, Working
<1> QED
  BY <1>1, Invariance, PTL

\* runPipeline throws only for a job row that was removed or could never be created.
THEOREM ThrowsAreMissingJobs == Spec => []ThrowsOnlyWithoutJob
<1>1. IInv => ThrowsOnlyWithoutJob
  BY DEF IInv, OutcomePhase, ThrowsOnlyWithoutJob
<1> QED
  BY <1>1, Invariance, PTL

\* The inputs of a call leave the server before its answer.
THEOREM InputsLeave == Spec => []InputsLeaveWithTheCall
<1>1. IInv => InputsLeaveWithTheCall
  <2> SUFFICES ASSUME IInv, NEW file \in temp, file[2] = "input"
               PROVE  pc[file[1]] \in Holders /\ file \in stored[file[1]]
    BY DEF InputsLeaveWithTheCall, Holders
  <2>1. file[1] \in Runs /\ file \in Inputs(file[1])
    BY DEF IInv, TypeOK, Files, Inputs
  <2> QED
    BY <2>1 DEF IInv, FilePhase
<1> QED
  BY <1>1, Invariance, PTL

\* The progress bar of a call that decided its outcome has ended, unless its executor overran
\* or the call threw.
THEOREM BarsEnd == Spec => []BarEndsWithTheCall
<1>1. Init => BarEndsWithTheCall
  BY DEF Init, BarEndsWithTheCall
<1>2. IInv /\ BarEndsWithTheCall /\ [Next]_vars => BarEndsWithTheCall'
  <2> SUFFICES ASSUME IInv, BarEndsWithTheCall, [Next]_vars PROVE BarEndsWithTheCall'
    OBVIOUS
  <2> USE DEF IInv, TypeOK, BarEndsWithTheCall, Working, Goto, Report, EndProgress, fileVars,
              resultVars, storeVars
  <2>1. ASSUME NEW r \in Runs, Start(r) \/ Executor(r) PROVE BarEndsWithTheCall'
    BY <2>1 DEF Start, Executor, ExecutorReports, ExecutorReturns, ExecutorReturnsLate,
                ExecutorPhase
  <2>2. ASSUME NEW r \in Runs, Step(r) PROVE BarEndsWithTheCall'
    BY <2>2 DEF Step, CreateJob, CreateJobThrows, Validate, StoreInput, RefuseOffline, Process,
                TimeOut, SaveOutput, RejectOutput, Succeed, Catch, FailJob, FailJobThrows,
                CleanupInput, Answer, AllStored, Throws
  <2>3. ASSUME NEW file \in temp, Withdraw(file) PROVE BarEndsWithTheCall'
    BY <2>3 DEF Withdraw
  <2>4. ASSUME NEW S, DeleteHistory(S) PROVE BarEndsWithTheCall'
    BY <2>4 DEF DeleteHistory
  <2>5. CASE DeleteAccount \/ Crash
    BY <2>5 DEF DeleteAccount, Crash
  <2>6. CASE UNCHANGED vars
    BY <2>6 DEF vars
  <2> QED
    BY <2>1, <2>2, <2>3, <2>4, <2>5, <2>6 DEF Next
<1> QED
  BY <1>1, <1>2, Invariance, PTL DEF Spec

-----------------------------------------------------------------------------
(* Which files are where: inputs under a working executor, outputs in a     *)
(* result.  Both invariants are inductive relative to IInv.                 *)

\* The inputs stored so far are the first ones of the request, and nothing but withdrawal
\* takes them away before the cleanup.
StoredPhase ==
  \A r \in Runs : pc[r] \in {"storing", "executing"} =>
    /\ stored[r] = {<<r, "input", i>> : i \in 1..Cardinality(stored[r])}
    /\ stored[r] \subseteq temp \union withdrawn
    /\ pc[r] = "executing" => Cardinality(stored[r]) = req[r].files

\* The saved outputs are served or withdrawn, and a success saved all of them.
OutputPhase ==
  \A r \in Runs :
    /\ \A i \in 1..saved[r] : <<r, "output", i>> \in temp \union withdrawn
    /\ job[r] = "success" \/ outcome[r] = "ok" =>
         saved[r] = outputs[r] /\ pc[r] \in {"cleanup", "answered", "dead"}

LEMMA InitReach == Init => StoredPhase /\ OutputPhase
BY DEF Init, StoredPhase, OutputPhase

LEMMA StepStored == IInv /\ StoredPhase /\ [Next]_vars => StoredPhase'
<1> SUFFICES ASSUME IInv, StoredPhase, [Next]_vars PROVE StoredPhase'
  OBVIOUS
<1> USE DEF IInv, TypeOK, StoredPhase, Goto, fileVars, resultVars, storeVars
\* Steps that change no file and take no other call into "storing" or "executing".
<1>1. ASSUME NEW r \in Runs,
             Start(r) \/ CreateJob(r) \/ CreateJobThrows(r) \/ RefuseOffline(r) \/ TimeOut(r)
               \/ RejectOutput(r) \/ Succeed(r) \/ Catch(r) \/ FailJob(r) \/ FailJobThrows(r)
               \/ Answer(r) \/ Executor(r)
      PROVE  StoredPhase'
  BY <1>1 DEF Start, CreateJob, CreateJobThrows, RefuseOffline, TimeOut, RejectOutput, Succeed,
              Catch, FailJob, FailJobThrows, Answer, Executor, ExecutorReports, ExecutorReturns,
              ExecutorReturnsLate
<1>2. ASSUME NEW r \in Runs, Validate(r) PROVE StoredPhase'
  <2>1. stored[r] = {} /\ Cardinality(stored[r]) = 0
    BY <1>2, FS_EmptySet DEF Validate, FilePhase, Holders
  <2>2. stored[r] = {<<r, "input", i>> : i \in 1..Cardinality(stored[r])}
    BY <2>1
  <2>3. pc'[r] \in {"storing", "failing"} /\ \A q \in Runs : q # r => pc'[q] = pc[q]
    BY <1>2 DEF Validate
  <2>4. UNCHANGED <<stored, temp, withdrawn, req>>
    BY <1>2 DEF Validate
  <2> SUFFICES ASSUME NEW q \in Runs, pc'[q] \in {"storing", "executing"}
               PROVE  /\ stored[q] = {<<q, "input", i>> : i \in 1..Cardinality(stored[q])}
                      /\ stored[q] \subseteq temp \union withdrawn
                      /\ pc'[q] = "executing" => Cardinality(stored[q]) = req[q].files
    BY <2>4
  <2>5. CASE q = r
    <3>1. pc'[q] # "executing" /\ stored[q] \subseteq temp \union withdrawn
      BY <2>1, <2>3, <2>5
    <3> QED
      BY <2>2, <2>5, <3>1
  <2>6. CASE q # r
    BY <2>3, <2>6
  <2> QED
    BY <2>5, <2>6
<1>3. ASSUME NEW r \in Runs, StoreInput(r) PROVE StoredPhase'
  <2> DEFINE n == Cardinality(stored[r])
  <2> DEFINE file == <<r, "input", n + 1>>
  <2>1. n \in Nat /\ stored[r] = {<<r, "input", i>> : i \in 1..n} /\ pc[r] = "storing"
    BY <1>3, FS_CardinalityType DEF StoreInput
  <2>2. file \notin stored[r]
    BY <2>1
  <2>3. /\ temp' = temp \union {file}
        /\ stored' = [stored EXCEPT ![r] = @ \union {file}]
        /\ UNCHANGED <<pc, req, withdrawn>>
    BY <1>3 DEF StoreInput
  <2>4. Cardinality(stored[r] \union {file}) = n + 1
    BY <2>2, FS_AddElement
  <2>5. stored[r] \union {file} = {<<r, "input", i>> : i \in 1..(n + 1)}
    BY <2>1
  <2> HIDE DEF file, n
  <2> SUFFICES ASSUME NEW q \in Runs, pc'[q] \in {"storing", "executing"}
               PROVE  /\ stored'[q] = {<<q, "input", i>> : i \in 1..Cardinality(stored'[q])}
                      /\ stored'[q] \subseteq temp' \union withdrawn'
                      /\ pc'[q] = "executing" => Cardinality(stored'[q]) = req'[q].files
    OBVIOUS
  <2>6. CASE q = r
    <3>1. stored'[r] = stored[r] \union {file}
      BY <2>3
    <3>2. stored[r] \subseteq temp \union withdrawn
      BY <2>1
    <3>3. pc'[r] = "storing" /\ temp' = temp \union {file} /\ withdrawn' = withdrawn
      BY <2>1, <2>3
    <3>4. Cardinality(stored'[r]) = n + 1
      BY <2>4, <3>1
    <3>5. stored'[r] = {<<r, "input", i>> : i \in 1..Cardinality(stored'[r])}
      BY <2>5, <3>1, <3>4
    <3>6. stored'[r] \subseteq temp' \union withdrawn'
      BY <3>1, <3>2, <3>3
    <3> QED
      BY <2>6, <3>3, <3>5, <3>6
  <2>7. CASE q # r
    BY <2>3, <2>7
  <2> QED
    BY <2>6, <2>7
<1>4. ASSUME NEW r \in Runs, Process(r) PROVE StoredPhase'
  BY <1>4 DEF Process, AllStored
<1>5. ASSUME NEW r \in Runs, SaveOutput(r) PROVE StoredPhase'
  BY <1>5 DEF SaveOutput
<1>6. ASSUME NEW r \in Runs, CleanupInput(r) PROVE StoredPhase'
  <2>1. PICK file \in stored[r] :
          temp' = temp \ {file} /\ stored' = [stored EXCEPT ![r] = @ \ {file}]
    BY <1>6 DEF CleanupInput
  <2>2. \A q \in Runs : q # r => file \notin stored[q]
    BY <2>1 DEF Inputs
  <2>3. pc[r] = "cleanup" /\ UNCHANGED <<pc, req, withdrawn>>
    BY <1>6 DEF CleanupInput
  <2> QED
    BY <2>1, <2>2, <2>3
<1>7. ASSUME NEW file \in temp, Withdraw(file) PROVE StoredPhase'
  BY <1>7 DEF Withdraw
<1>8. ASSUME NEW S, DeleteHistory(S) PROVE StoredPhase'
  BY <1>8 DEF DeleteHistory
<1>9. CASE DeleteAccount \/ Crash
  BY <1>9 DEF DeleteAccount, Crash
<1>10. CASE UNCHANGED vars
  BY <1>10 DEF vars
<1> QED
  BY <1>1, <1>2, <1>3, <1>4, <1>5, <1>6, <1>7, <1>8, <1>9, <1>10 DEF Next, Step

LEMMA StepOutput == IInv /\ OutputPhase /\ [Next]_vars => OutputPhase'
<1> SUFFICES ASSUME IInv, OutputPhase, [Next]_vars PROVE OutputPhase'
  OBVIOUS
<1> USE DEF IInv, TypeOK, OutputPhase, OutcomePhase, Goto, fileVars, resultVars, storeVars
\* Steps that change neither the files nor the row of a call.
<1>1. ASSUME NEW r \in Runs,
             Start(r) \/ CreateJobThrows(r) \/ RefuseOffline(r) \/ TimeOut(r) \/ RejectOutput(r)
               \/ Catch(r) \/ FailJobThrows(r) \/ Answer(r) \/ ExecutorReports(r)
               \/ ExecutorReturnsLate(r)
      PROVE  OutputPhase'
  BY <1>1 DEF Start, CreateJobThrows, RefuseOffline, TimeOut, RejectOutput, Catch, FailJobThrows,
              Answer, ExecutorReports, ExecutorReturnsLate, AllStored, Throws
<1>2. ASSUME NEW r \in Runs, CreateJob(r) PROVE OutputPhase'
  BY <1>2 DEF CreateJob
<1>3. ASSUME NEW r \in Runs, Validate(r) \/ Process(r) \/ FailJob(r) PROVE OutputPhase'
  BY <1>3 DEF Validate, Process, FailJob, AllStored
<1>4. ASSUME NEW r \in Runs, StoreInput(r) PROVE OutputPhase'
  BY <1>4 DEF StoreInput
<1>5. ASSUME NEW r \in Runs, SaveOutput(r) PROVE OutputPhase'
  <2>1. /\ temp' = temp \union {<<r, "output", saved[r] + 1>>}
        /\ saved' = [saved EXCEPT ![r] = @ + 1] /\ pc[r] = "saving"
        /\ UNCHANGED <<job, outcome, outputs, pc, withdrawn>>
    BY <1>5 DEF SaveOutput
  <2>2. \A i \in 1..(saved[r] + 1) : i \in 1..saved[r] \/ i = saved[r] + 1
    OBVIOUS
  <2> QED
    BY <2>1, <2>2
<1>6. ASSUME NEW r \in Runs, Succeed(r) PROVE OutputPhase'
  BY <1>6 DEF Succeed
<1>7. ASSUME NEW r \in Runs, CleanupInput(r) PROVE OutputPhase'
  <2>1. PICK file \in stored[r] : temp' = temp \ {file}
    BY <1>7 DEF CleanupInput
  <2>2. \A q \in Runs, i \in Nat : <<q, "output", i>> # file
    BY <2>1 DEF Inputs
  <2>3. UNCHANGED <<job, outcome, outputs, saved, pc, withdrawn>>
    BY <1>7 DEF CleanupInput
  <2>4. \A q \in Runs : \A i \in 1..saved[q] : <<q, "output", i>> \in temp' \union withdrawn'
    <3> SUFFICES ASSUME NEW q \in Runs, NEW i \in 1..saved[q]
                 PROVE  <<q, "output", i>> \in temp' \union withdrawn'
      BY <2>3
    <3>1. i \in Nat /\ <<q, "output", i>> \in temp \union withdrawn
      OBVIOUS
    <3> QED
      BY <2>1, <2>2, <2>3, <3>1
  <2> QED
    BY <2>3, <2>4
<1>8. ASSUME NEW r \in Runs, ExecutorReturns(r) PROVE OutputPhase'
  BY <1>8 DEF ExecutorReturns, ExecutorPhase
<1>9. ASSUME NEW file \in temp, Withdraw(file) PROVE OutputPhase'
  BY <1>9 DEF Withdraw
<1>10. ASSUME NEW S, DeleteHistory(S) \/ DeleteAccount PROVE OutputPhase'
  BY <1>10 DEF DeleteHistory, DeleteAccount, Removed
<1>11. CASE Crash
  BY <1>11 DEF Crash, Removed, Working
<1>12. CASE UNCHANGED vars
  BY <1>12 DEF vars
<1> QED
  BY <1>1, <1>2, <1>3, <1>4, <1>5, <1>6, <1>7, <1>8, <1>9, <1>10, <1>11, <1>12
     DEF Next, Step, Executor

\* While the call waits for its executor, every input of the request can be read, unless it
\* was withdrawn.
THEOREM InputsStay == Spec => []InputsReadable
<1>1. IInv /\ StoredPhase => InputsReadable
  BY DEF IInv, TypeOK, StoredPhase, InputsReadable, RequestFields
<1> QED
  BY <1>1, InitReach, StepStored, Invariance, PTL DEF Spec

\* Every file a success lists was stored, and is served until it is withdrawn.
THEOREM ResultsStay == Spec => []ResultsReachable
<1>1. OutputPhase => ResultsReachable
  BY DEF OutputPhase, ResultsReachable
<1> QED
  BY <1>1, InitReach, StepOutput, Invariance, PTL DEF Spec

-----------------------------------------------------------------------------
(* Every turn of a call brings it closer to its answer.                     *)

\* The places of a call, in the order in which runPipeline can still reach the later from the
\* earlier.
Behind(label) ==
  CASE label = "idle"      -> 9
    [] label = "creating"  -> 8
    [] label = "begin"     -> 7
    [] label = "storing"   -> 6
    [] label = "executing" -> 5
    [] label = "saving"    -> 4
    [] label = "failing"   -> 3
    [] label = "catching"  -> 2
    [] label = "cleanup"   -> 1
    [] OTHER               -> 0

\* The files that the loop at this place still has to store, to save or to delete.
Todo(r) ==
  CASE pc[r] = "storing" -> req[r].files - Cardinality(stored[r])
    [] pc[r] = "saving"  -> outputs[r] - saved[r]
    [] pc[r] = "cleanup" -> Cardinality(stored[r])
    [] OTHER             -> 0

Closer(r) ==
  \/ Behind(pc'[r]) < Behind(pc[r])
  \/ pc'[r] = pc[r] /\ Todo(r)' \in Nat /\ Todo(r)' < Todo(r)

Still(r) == pc'[r] = pc[r] /\ Todo(r)' = Todo(r)

\* Whatever happens brings a call closer to its end or leaves it where it is, and its own turns
\* bring it closer: there are finitely many of them.
CallsWindDown == \A r \in Runs : Closer(r) \/ (Still(r) /\ ~Step(r))

LEMMA TurnsCountDown ==
  ASSUME IInv, StoredPhase, NEW r \in Runs, Step(r)
  PROVE  Closer(r)
<1> USE DEF IInv, TypeOK, Goto
<1>1. CASE CreateJob(r) \/ CreateJobThrows(r) \/ Validate(r) \/ RefuseOffline(r) \/ Process(r)
             \/ TimeOut(r) \/ RejectOutput(r) \/ Succeed(r) \/ Catch(r) \/ FailJob(r)
             \/ FailJobThrows(r) \/ Answer(r)
  BY <1>1 DEF CreateJob, CreateJobThrows, Validate, RefuseOffline, Process, TimeOut, RejectOutput,
     Succeed, Catch, Throws, AllStored, FailJob, FailJobThrows, Answer, Closer, Behind
<1>2. CASE StoreInput(r)
  <2> DEFINE n == Cardinality(stored[r])
             file == <<r, "input", n + 1>>
  <2>1. n \in Nat /\ pc[r] = "storing" /\ pc' = pc /\ req' = req /\ n < req[r].files
    BY <1>2, FS_CardinalityType DEF StoreInput
  <2>2. file \notin stored[r]
    BY <2>1 DEF StoredPhase
  <2>3. stored'[r] = stored[r] \union {file}
    BY <1>2 DEF StoreInput
  <2>4. Cardinality(stored'[r]) = n + 1
    <3>1. IsFiniteSet(stored[r])
      OBVIOUS
    <3> HIDE DEF file
    <3>2. Cardinality(stored[r] \union {file}) = Cardinality(stored[r]) + 1
      BY <2>2, <3>1, FS_AddElement
    <3> QED
      BY <2>3, <3>2
  <2>5. req[r].files \in Nat
    BY DEF RequestFields
  <2> HIDE DEF n
  <2>6. req[r].files - (n + 1) \in Nat /\ req[r].files - (n + 1) < req[r].files - n
    BY <2>1, <2>5
  <2>7. Todo(r) = req[r].files - n /\ Todo(r)' = req[r].files - (n + 1)
    BY <2>1, <2>4 DEF Todo, n
  <2> QED
    BY <2>1, <2>6, <2>7 DEF Closer
<1>3. CASE SaveOutput(r)
  <2>1. pc[r] = "saving" /\ pc' = pc /\ outputs' = outputs /\ saved'[r] = saved[r] + 1 /\ saved[r] < outputs[r]
    BY <1>3 DEF SaveOutput
  <2>2. Todo(r) = outputs[r] - saved[r] /\ Todo(r)' = outputs[r] - (saved[r] + 1)
    BY <2>1 DEF Todo
  <2>3. outputs[r] \in Nat /\ saved[r] \in Nat
    OBVIOUS
  <2> QED
    BY <2>1, <2>2, <2>3 DEF Closer
<1>4. CASE CleanupInput(r)
  <2>1. PICK file \in stored[r] : stored' = [stored EXCEPT ![r] = @ \ {file}]
    BY <1>4 DEF CleanupInput
  <2>2. stored'[r] = stored[r] \ {file} /\ pc[r] = "cleanup" /\ pc' = pc
    BY <1>4, <2>1 DEF CleanupInput
  <2>3. Cardinality(stored'[r]) = Cardinality(stored[r]) - 1 /\ Cardinality(stored'[r]) \in Nat
        /\ Cardinality(stored[r]) \in Nat
    BY <2>2, FS_RemoveElement, FS_CardinalityType
  <2>4. Todo(r) = Cardinality(stored[r]) /\ Todo(r)' = Cardinality(stored'[r])
    BY <2>2 DEF Todo
  <2> QED
    BY <2>2, <2>3, <2>4 DEF Closer
<1> QED
  BY <1>1, <1>2, <1>3, <1>4 DEF Step

LEMMA OthersLeaveAlone ==
  ASSUME IInv, NEW r \in Runs, [Next]_vars, ~Step(r)
  PROVE  Closer(r) \/ Still(r)
<1> USE DEF IInv, TypeOK, Goto, fileVars, resultVars, storeVars
<1> DEFINE Same == UNCHANGED <<pc[r], req[r], stored[r], outputs[r], saved[r]>>
<1>0. ASSUME Same PROVE Still(r)
  BY <1>0 DEF Still, Todo
<1>1. ASSUME NEW q \in Runs, q # r, Start(q) \/ Step(q) \/ Executor(q)
      PROVE  Same
  BY <1>1 DEF Start, Step, Executor, CreateJob, CreateJobThrows, Validate, StoreInput, RefuseOffline,
     Process, TimeOut, SaveOutput, RejectOutput, Succeed, Catch, FailJob, FailJobThrows, CleanupInput,
     Answer, ExecutorReports, ExecutorReturns, ExecutorReturnsLate
<1>2. CASE Start(r)
  BY <1>2 DEF Start, Closer, Behind
<1>3. CASE ExecutorReturns(r)
  BY <1>3 DEF ExecutorReturns, ExecutorPhase, Closer, Behind
<1>4. CASE ExecutorReports(r) \/ ExecutorReturnsLate(r)
  <2>1. Same
    BY <1>4 DEF ExecutorReports, ExecutorReturnsLate
  <2> QED
    BY <2>1, <1>0
<1>5. ASSUME \/ \E file \in temp : Withdraw(file)
             \/ \E S \in {{q} : q \in Runs} \union {Runs} : DeleteHistory(S)
             \/ DeleteAccount
             \/ UNCHANGED vars
      PROVE  Same
  BY <1>5 DEF Withdraw, DeleteHistory, DeleteAccount, vars
<1>6. CASE Crash
  <2>1. CASE pc[r] \in Working
    BY <1>6, <2>1 DEF Crash, Working, Closer, Behind
  <2>2. CASE pc[r] \notin Working
    BY <1>0, <1>6, <2>2 DEF Crash
  <2> QED
    BY <2>1, <2>2
<1> HIDE DEF Same
<1> QED
  BY <1>0, <1>1, <1>2, <1>3, <1>4, <1>5, <1>6 DEF Next, Executor

\* runPipeline has no way back: no retry, no loop over anything but the request's files and the
\* executor's outputs.  It is the half of EveryCallEnds that needs no fairness.
THEOREM CallsEndInTime == Spec => [][CallsWindDown]_vars
<1>1. IInv /\ StoredPhase /\ [Next]_vars => CallsWindDown
  BY TurnsCountDown, OthersLeaveAlone DEF CallsWindDown
<1>2. IInv /\ StoredPhase /\ [Next]_vars => StoredPhase'
  BY StepStored
<1>3. Init => StoredPhase
  BY InitReach
<1> QED
  BY <1>1, <1>2, <1>3, Invariance, PTL DEF Spec

-----------------------------------------------------------------------------
(* Refinement: Pipeline implements ToolRun.                                 *)

PRecord == [r \in Runs |-> Record(r)]
PAnswer == [r \in Runs |-> Reply(r)]
PHolding == {r \in Runs : temp \cap Inputs(r) # {}}

LEMMA InitRefines == Init => Promise!Init
BY DEF Init, Promise!Init, Record, Reply, Inputs, Statuses

\* A row that changes for one call changes that call's record only.
LEMMA RecordUpdate ==
  ASSUME TypeOK, NEW r \in Runs, NEW status \in Statuses, job' = [job EXCEPT ![r] = status]
  PROVE  PRecord' = [PRecord EXCEPT ![r] = IF status \in Final THEN status ELSE "open"]
BY DEF TypeOK, PRecord, Record, Statuses, Final

\* A call that moves on without being answered still waits.
LEMMA StillWaiting ==
  ASSUME TypeOK, NEW r \in Runs, NEW label \in Working, pc[r] \in Working, Goto(r, label),
         \A q \in Runs : q # r => outcome'[q] = outcome[q]
  PROVE  PAnswer' = PAnswer /\ PAnswer[r] = "waiting"
BY DEF TypeOK, Working, Goto, PAnswer, Reply

\* Removing rows is forgetting records.
LEMMA RemovalForgets ==
  ASSUME TypeOK, NEW S \in SUBSET Runs, job' = Removed(S)
  PROVE  PRecord' = [q \in Runs |-> IF q \in S /\ PRecord[q] # "none" THEN "gone" ELSE PRecord[q]]
BY DEF TypeOK, Removed, PRecord, Record, Statuses, Final

LEMMA StepRefines == IInv /\ [Next]_vars => [Promise!Next]_(Promise!vars)
<1> SUFFICES ASSUME IInv, [Next]_vars
             PROVE  Promise!Next \/ UNCHANGED <<PRecord, PAnswer, PHolding>>
  BY DEF Promise!vars, PRecord, PAnswer, PHolding
<1>t. TypeOK
  BY DEF IInv
<1>s. ASSUME UNCHANGED <<job, temp, pc, outcome>> PROVE UNCHANGED <<PRecord, PAnswer, PHolding>>
  BY <1>s DEF PRecord, PAnswer, PHolding, Record, Reply
<1>r. UNCHANGED job => UNCHANGED PRecord
  BY DEF PRecord, Record
<1>a. UNCHANGED <<pc, outcome>> => UNCHANGED PAnswer
  BY DEF PAnswer, Reply
<1>h. UNCHANGED temp => UNCHANGED PHolding
  BY DEF PHolding
<1>1. ASSUME NEW r \in Runs, Start(r) PROVE Promise!Accept(r)
  <2>1. PAnswer[r] = "none" /\ PAnswer' = [PAnswer EXCEPT ![r] = "waiting"]
    BY <1>t, <1>1 DEF Start, Goto, TypeOK, PAnswer, Reply
  <2> QED
    BY <1>1, <1>r, <1>h, <2>1 DEF Start, Promise!Accept, PRecord, PAnswer, PHolding, fileVars
<1>2. ASSUME NEW r \in Runs, CreateJob(r) PROVE Promise!Open(r)
  <2>1. PAnswer[r] = "waiting" /\ UNCHANGED PAnswer
    BY <1>t, <1>2, StillWaiting DEF CreateJob, Working
  <2>2. PRecord[r] = "none" /\ Evicted \in SUBSET (Runs \ {r})
    BY <1>2 DEF CreateJob, IInv, JobPhase, RowsAt, PRecord, Record, Statuses, Evicted
  <2>3. PRecord' = [[q \in Runs |-> IF q \in Evicted /\ PRecord[q] # "none" THEN "gone"
                                    ELSE PRecord[q]] EXCEPT ![r] = "open"]
    BY <1>t, <1>2, <2>2 DEF CreateJob, PRecord, Record, Statuses, Final, Evicted, TypeOK
  <2> QED
    BY <1>2, <1>h, <2>1, <2>2, <2>3
       DEF CreateJob, Promise!Open, Promise!Forgotten, PRecord, PAnswer, PHolding, fileVars
<1>3. ASSUME NEW r \in Runs, CreateJobThrows(r) PROVE Promise!Reply(r)
  <2>1. PAnswer[r] = "waiting" /\ PAnswer' = [PAnswer EXCEPT ![r] = "threw"]
    BY <1>t, <1>3 DEF CreateJobThrows, Goto, TypeOK, PAnswer, Reply
  <2>2. PRecord[r] = "none" /\ r \notin PHolding
    BY <1>3 DEF CreateJobThrows, IInv, JobPhase, RowsAt, FilePhase, Holders, PRecord, Record,
                PHolding, Statuses
  <2> QED
    BY <1>3, <1>r, <1>h, <2>1, <2>2
       DEF CreateJobThrows, Promise!Reply, Promise!Truthful, PRecord, PAnswer, PHolding, fileVars
\* Turns that move the call on and write nothing the caller or the owner sees.
<1>4. ASSUME NEW r \in Runs,
             RefuseOffline(r) \/ TimeOut(r) \/ RejectOutput(r) \/ Catch(r) \/ FailJobThrows(r)
      PROVE  UNCHANGED <<PRecord, PAnswer, PHolding>>
  <2>1. /\ UNCHANGED <<job, temp>>
        /\ pc[r] \in Working
        /\ \E label \in Working : Goto(r, label)
        /\ \A q \in Runs : q # r => outcome'[q] = outcome[q]
    BY <1>t, <1>4 DEF RefuseOffline, TimeOut, RejectOutput, Catch, FailJobThrows, AllStored,
                      Throws, Working, fileVars, TypeOK
  <2> QED
    BY <1>t, <1>r, <1>h, <2>1, StillWaiting
\* Turns that move an open job along.
<1>5. ASSUME NEW r \in Runs, Validate(r) \/ Process(r)
      PROVE  UNCHANGED <<PRecord, PAnswer, PHolding>>
  <2>1. PICK status \in {"validating", "processing"} :
          job' = [job EXCEPT ![r] = status] /\ job[r] \in Statuses \ Final
    BY <1>5 DEF Validate, Process, Updatable, CanTransition, AllowedTransitions, Statuses, Final
  <2>2. UNCHANGED PRecord
    BY <1>t, <2>1, RecordUpdate DEF PRecord, Record, Statuses, Final, TypeOK
  <2>3. pc[r] \in Working /\ \E label \in Working : Goto(r, label)
    BY <1>5 DEF Validate, Process, AllStored, Working
  <2> QED
    BY <1>t, <1>5, <1>h, <2>2, <2>3, StillWaiting DEF Validate, Process, fileVars
<1>6. ASSUME NEW r \in Runs, Succeed(r) \/ FailJob(r) PROVE Promise!Close(r)
  <2>1. PICK status \in Final :
          job' = [job EXCEPT ![r] = status] /\ job[r] \in Statuses \ Final
    BY <1>6 DEF Succeed, FailJob, Updatable, CanTransition, AllowedTransitions, Statuses, Final,
                IInv, JobPhase, RowsAt
  <2>2. PRecord[r] = "open" /\ PRecord' = [PRecord EXCEPT ![r] = status]
    BY <1>t, <2>1, RecordUpdate DEF PRecord, Record, Statuses, Final
  <2>3. PAnswer[r] = "waiting" /\ UNCHANGED PAnswer
    <3>1. /\ pc[r] \in Working /\ Goto(r, "cleanup") /\ "cleanup" \in Working
          /\ \A q \in Runs : q # r => outcome'[q] = outcome[q]
      BY <1>t, <1>6 DEF Succeed, FailJob, Working, TypeOK
    <3> QED
      BY <1>t, <3>1, StillWaiting
  <2> QED
    BY <1>6, <1>h, <2>1, <2>2, <2>3
       DEF Succeed, FailJob, Promise!Close, PRecord, PAnswer, PHolding, fileVars, Final
<1>7. ASSUME NEW r \in Runs, StoreInput(r) PROVE Promise!Hold(r)
  <2>1. PAnswer[r] = "waiting" /\ PRecord[r] \in {"open", "gone"}
    BY <1>7 DEF StoreInput, IInv, TypeOK, JobPhase, RowsAt, PAnswer, Reply, PRecord, Record,
                Statuses, Final
  <2>2. IsFiniteSet(stored[r]) /\ Cardinality(stored[r]) + 1 \in Nat
    BY <1>t, FS_CardinalityType DEF TypeOK
  <2>3. PHolding' = PHolding \union {r}
    <3> DEFINE file == <<r, "input", Cardinality(stored[r]) + 1>>
    <3>1. temp' = temp \union {file}
      BY <1>7 DEF StoreInput
    <3>2. file \in Inputs(r) /\ \A q \in Runs : q # r => file \notin Inputs(q)
      BY <2>2 DEF Inputs
    <3> HIDE DEF file
    <3> QED
      BY <3>1, <3>2 DEF PHolding
  <2> QED
    BY <1>7, <1>r, <1>a, <2>1, <2>3 DEF StoreInput, Promise!Hold, PRecord, PAnswer, PHolding
<1>8. ASSUME NEW r \in Runs, SaveOutput(r) PROVE UNCHANGED <<PRecord, PAnswer, PHolding>>
  BY <1>8, <1>r, <1>a DEF SaveOutput, PHolding, Inputs
\* Removing a file releases its owner's inputs, or some of them.
<1>9. ASSUME NEW file \in Files, temp' = temp \ {file}, UNCHANGED <<job, pc, outcome>>
      PROVE  Promise!Next \/ UNCHANGED <<PRecord, PAnswer, PHolding>>
  <2>1. file[1] \in Runs /\ \A r \in Runs : file \in Inputs(r) => r = file[1]
    BY DEF Files, Inputs
  <2>2. PHolding' = PHolding \/ PHolding' = PHolding \ {file[1]}
    BY <1>9, <2>1 DEF PHolding
  <2> QED
    BY <1>9, <1>r, <1>a, <2>1, <2>2
       DEF Promise!Next, Promise!Release, PRecord, PAnswer, PHolding
<1>10. ASSUME NEW r \in Runs, CleanupInput(r)
       PROVE  Promise!Next \/ UNCHANGED <<PRecord, PAnswer, PHolding>>
  <2>1. PICK file \in stored[r] : temp' = temp \ {file}
    BY <1>10 DEF CleanupInput
  <2>2. file \in Files
    BY <1>t, <2>1 DEF TypeOK
  <2> QED
    BY <1>9, <1>10, <2>1, <2>2 DEF CleanupInput
<1>11. ASSUME NEW r \in Runs, Answer(r) PROVE Promise!Reply(r)
  <2>1. PAnswer[r] = "waiting" /\ PAnswer' = [PAnswer EXCEPT ![r] = outcome[r]]
    BY <1>t, <1>11 DEF Answer, Goto, TypeOK, PAnswer, Reply
  <2>2. r \notin PHolding
    BY <1>11 DEF Answer, IInv, FilePhase, PHolding
  <2>3. outcome[r] \in {"ok", "failed", "threw"} /\ job[r] \in {"success", "failed", "gone"}
    BY <1>11 DEF Answer, IInv, OutcomePhase, JobPhase, RowsAt, TypeOK
  <2>4. PRecord[r] = job[r]
    BY <2>3 DEF PRecord, Record, Statuses, Final
  <2>5. outcome[r] \in Promise!Truthful(PRecord[r])
    BY <2>3, <2>4 DEF IInv, OutcomePhase, Promise!Truthful
  <2> QED
    BY <1>11, <1>r, <1>h, <2>1, <2>2, <2>5
       DEF Answer, Promise!Reply, PRecord, PAnswer, PHolding, fileVars
<1>12. ASSUME NEW r \in Runs, Executor(r) PROVE UNCHANGED <<PRecord, PAnswer, PHolding>>
  <2>1. CASE ExecutorReturns(r)
    <3>1. pc[r] \in Working /\ \E label \in Working : Goto(r, label)
      BY <2>1 DEF ExecutorReturns, IInv, ExecutorPhase, Working
    <3> QED
      BY <1>t, <1>r, <1>h, <2>1, <3>1, StillWaiting DEF ExecutorReturns, fileVars
  <2>2. CASE ExecutorReports(r) \/ ExecutorReturnsLate(r)
    BY <1>s, <2>2 DEF ExecutorReports, ExecutorReturnsLate, fileVars
  <2> QED
    BY <1>12, <2>1, <2>2 DEF Executor
<1>13. ASSUME NEW file \in temp, Withdraw(file)
       PROVE  Promise!Next \/ UNCHANGED <<PRecord, PAnswer, PHolding>>
  BY <1>t, <1>9, <1>13 DEF Withdraw, TypeOK
<1>14. ASSUME NEW S \in SUBSET Runs, DeleteHistory(S) \/ (DeleteAccount /\ S = Runs)
       PROVE  Promise!Forget(S)
  BY <1>t, <1>14, <1>a, <1>h, RemovalForgets
     DEF DeleteHistory, DeleteAccount, Promise!Forget, Promise!Forgotten, PRecord, PAnswer,
         PHolding, fileVars
<1>15. CASE Crash
  <2>1. PAnswer' = [r \in Runs |-> IF PAnswer[r] = "waiting" THEN "lost" ELSE PAnswer[r]]
    BY <1>t, <1>15 DEF Crash, PAnswer, Reply, TypeOK, Working
  <2>2. PICK S \in {{}, Runs} :
          PRecord' = [q \in Runs |-> IF q \in S /\ PRecord[q] # "none" THEN "gone"
                                     ELSE PRecord[q]]
    <3>1. CASE backend = "memory"
      BY <1>t, <1>15, <3>1, RemovalForgets DEF Crash
    <3>2. CASE backend # "memory"
      BY <1>15, <1>r, <3>2 DEF Crash, PRecord
    <3> QED
      BY <3>1, <3>2
  <2>3. Promise!Die
    BY <1>15, <1>h, <2>1, <2>2
       DEF Crash, Promise!Die, Promise!Forgotten, PRecord, PAnswer, PHolding, fileVars
  <2> QED
    BY <2>3 DEF Promise!Next
<1>16. CASE UNCHANGED vars
  BY <1>s, <1>16 DEF vars
<1>17. ASSUME NEW r \in Runs, Start(r) \/ Step(r) \/ Executor(r)
       PROVE  Promise!Next \/ UNCHANGED <<PRecord, PAnswer, PHolding>>
  BY <1>1, <1>2, <1>3, <1>4, <1>5, <1>6, <1>7, <1>8, <1>10, <1>11, <1>12, <1>17
     DEF Step, Promise!Next
<1>18. ASSUME NEW S \in {{r} : r \in Runs} \union {Runs}, DeleteHistory(S) PROVE Promise!Next
  <2>1. S \in SUBSET Runs
    OBVIOUS
  <2>2. Promise!Forget(S)
    BY <1>14, <1>18, <2>1
  <2> QED
    BY <2>1, <2>2 DEF Promise!Next
<1>19. CASE DeleteAccount
  BY <1>14, <1>19 DEF Promise!Next
<1> QED
  BY <1>13, <1>15, <1>16, <1>17, <1>18, <1>19 DEF Next

\* The pipeline keeps what ToolRun promises its caller.
THEOREM Refinement == Spec => KeepsThePromise
<1> QED
  BY InitRefines, StepRefines, Invariance, PTL DEF Spec, Promise!Spec, KeepsThePromise
=============================================================================
