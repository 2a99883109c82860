------------------------------ MODULE Workflows ------------------------------
(***************************************************************************)
(* runBatch (workflows/batch.ts) and, for each of its files, runWorkflow   *)
(* (workflows/run.ts): a pool of workers takes files from one cursor and   *)
(* runs a chain of tools over each, feeding every step with what the step  *)
(* before left in the temp store.                                          *)
(*                                                                         *)
(* A call of runPipeline is what ToolRun promises of it, an answer or a    *)
(* throw.  Its outputs may leave the temp store at any time.               *)
(***************************************************************************)
EXTENDS Integers, FiniteSets

CONSTANTS
  N,       \* files of the batch
  Steps,   \* tools of the chain
  Together,\* the steps whose tool takes all its files in one call (supportsBatch)
  Asked,   \* the concurrency the caller asked for, a whole number after Math.floor, or Unset
  Unset,   \* undefined, or no finite number
  MaxOut   \* bound: files one step leaves behind

ASSUME WorkflowsAssumption ==
  /\ N \in Nat
  /\ Steps \in Nat \ {0}
  /\ Together \subseteq 1..Steps
  /\ Asked \in Int \union {Unset} /\ Unset \notin Int
  /\ MaxOut \in Nat

VARIABLES
  valid,   \* does the chain pass validateWorkflow?
  next,    \* the cursor: the file the next free worker takes
  on,      \* [Workers -> the file it works on, or Idle, or Home]
  at,      \* [Files -> where the file's chain is]
  step,    \* [Files -> the step it is in]
  left,    \* [Files -> calls the step still has to make, the running one included]
  made,    \* [Files -> files the step has produced so far]
  here,    \* [Files -> those of them that the temp store still has]
  read,    \* [Files -> how many of them were read back for the next step]
  report,  \* [Files -> [1..Steps -> what the answer says of the step]]
  results, \* [Files -> the entry of the array of results, or "none"]
  bar,     \* the file count that the progress bar shows as done
  reply,   \* what runBatch returned, <<succeeded, failed>>, or <<>> before that
  called,  \* history: [Files -> the steps whose tool was called]
  trouble  \* history: [Files -> what went wrong in the file's own chain, or "none"]

batch == <<next, on, results, bar, reply>>
chain == <<valid, at, step, left, made, here, read, report, called, trouble>>
vars == <<batch, chain>>

Files == 1..N

MAX_BATCH_CONCURRENCY == 4
DEFAULT_BATCH_CONCURRENCY == 2

clampConcurrency(value) ==
  IF value = Unset THEN DEFAULT_BATCH_CONCURRENCY
  ELSE IF value < 1 THEN 1 ELSE IF value > MAX_BATCH_CONCURRENCY THEN MAX_BATCH_CONCURRENCY ELSE value

Limit == clampConcurrency(Asked)

Workers == 1..(IF Limit < N THEN Limit ELSE N)

\* A worker that has not begun, and one that found no file left.
Idle == 0
Home == N + 1

Places == {"waiting", "calling", "reading", "over"}
Troubles == {"none", "invalid", "failed", "threw", "empty", "expired"}

\* Each variable has its type; a worker's file is one it took from the cursor.
TypeOK ==
  /\ valid \in BOOLEAN
  /\ next \in 1..(N + 1)
  /\ on \in [Workers -> 0..(N + 1)]
  /\ at \in [Files -> Places]
  /\ step \in [Files -> 1..Steps]
  /\ left \in [Files -> Nat]
  /\ made \in [Files -> 0..MaxOut]
  /\ here \in [Files -> SUBSET (1..MaxOut)]
  /\ read \in [Files -> 0..MaxOut]
  /\ report \in [Files -> [1..Steps -> {"skipped", "success", "failed", "unsaid"}]]
  /\ results \in [Files -> {"none", "ok", "failed"}]
  /\ bar \in 0..N
  /\ reply \in {<<>>} \union (Nat \X Nat)
  /\ called \in [Files -> SUBSET (1..Steps)]
  /\ trouble \in [Files -> Troubles]

Init ==
  /\ valid \in BOOLEAN
  /\ next = 1
  /\ on = [w \in Workers |-> Idle]
  /\ at = [f \in Files |-> "waiting"]
  /\ step = [f \in Files |-> 1]
  /\ left = [f \in Files |-> 0]
  /\ made = [f \in Files |-> 0]
  /\ here = [f \in Files |-> {}]
  /\ read = [f \in Files |-> 0]
  /\ report = [f \in Files |-> [s \in 1..Steps |-> "skipped"]]
  /\ results = [f \in Files |-> "none"]
  /\ bar = 0
  /\ reply = <<>>
  /\ called = [f \in Files |-> {}]
  /\ trouble = [f \in Files |-> "none"]

-----------------------------------------------------------------------------
(* runWorkflow, over one file.                                              *)

\* How many calls the step needs for that many files: groupsFor.
Groups(s, files) == IF s \in Together \/ files <= 1 THEN 1 ELSE files

\* The step runs on those of the files it was handed that it can read, or on all: selectInputs.
EnterStep(f, s, handed) ==
  \E inputs \in 1..handed :
    /\ at' = [at EXCEPT ![f] = "calling"]
    /\ step' = [step EXCEPT ![f] = s]
    /\ left' = [left EXCEPT ![f] = Groups(s, inputs)]
    /\ made' = [made EXCEPT ![f] = 0]
    /\ here' = [here EXCEPT ![f] = {}]
    /\ read' = [read EXCEPT ![f] = 0]
    /\ called' = [called EXCEPT ![f] = @ \union {s}]

\* An invalid chain is refused before anything runs, with every step skipped.
RunWorkflow(f) ==
  /\ IF valid
       THEN EnterStep(f, 1, 1) /\ UNCHANGED trouble
       ELSE /\ at' = [at EXCEPT ![f] = "over"]
            /\ trouble' = [trouble EXCEPT ![f] = "invalid"]
            /\ UNCHANGED <<step, left, made, here, read, called>>
  /\ UNCHANGED <<valid, report>>

\* The chain stops: the step is on record as failed, the later ones stay skipped.
Stop(f, why) ==
  /\ at' = [at EXCEPT ![f] = "over"]
  /\ report' = [report EXCEPT ![f][step[f]] = "failed"]
  /\ trouble' = [trouble EXCEPT ![f] = why]
  /\ UNCHANGED <<valid, step, left, made, read, called>>

\* What the step has produced once a call adds "more" files to it.
Produce(f, more) ==
  /\ made' = [made EXCEPT ![f] = @ + more]
  /\ here' = [here EXCEPT ![f] = @ \union ((made[f] + 1)..(made[f] + more))]

\* A call that is not the step's last: the next group follows at once.
NextGroup(f, more) ==
  /\ left[f] > 1
  /\ Produce(f, more)
  /\ left' = [left EXCEPT ![f] = @ - 1]
  /\ UNCHANGED <<valid, at, step, read, report, called, trouble>>

\* Slip: a middle step that left nothing hands the empty list on.
CarryNothing(f, more) ==
  /\ left[f] = 1
  /\ Produce(f, more)
  /\ report' = [report EXCEPT ![f][step[f]] = "success"]
  /\ at' = [at EXCEPT ![f] = IF step[f] = Steps \/ made[f] + more = 0 THEN "over" ELSE "reading"]
  /\ UNCHANGED <<valid, step, left, read, called, trouble>>

\* The step's last call: the chain is over, or has nothing to go on with, or reads its files back.
StepDone(f, more) ==
  /\ left[f] = 1
  /\ \/ /\ step[f] < Steps /\ made[f] + more = 0
        /\ Stop(f, "empty") /\ UNCHANGED here
     \/ /\ step[f] = Steps \/ made[f] + more > 0
        /\ Produce(f, more)
        /\ report' = [report EXCEPT ![f][step[f]] = "success"]
        /\ at' = [at EXCEPT ![f] = IF step[f] = Steps THEN "over" ELSE "reading"]
        /\ UNCHANGED <<valid, step, left, read, called, trouble>>

CallSucceeds(f) ==
  /\ at[f] = "calling"
  /\ \E more \in 0..(MaxOut - made[f]) : NextGroup(f, more) \/ StepDone(f, more)
  /\ UNCHANGED batch

CallFails(f) ==
  /\ at[f] = "calling"
  /\ Stop(f, "failed")
  /\ UNCHANGED <<batch, here>>

\* Slip: nothing catches the throw, and the worker ends without an answer for its file.
ThrowEscapes(f) ==
  /\ at[f] = "calling"
  /\ at' = [at EXCEPT ![f] = "waiting"]
  /\ UNCHANGED <<batch, valid, step, left, made, here, read, report, called, trouble>>

\* runPipeline throws, and with it runWorkflow: runOne answers with no steps at all.
CallThrows(f) ==
  /\ at[f] = "calling"
  /\ at' = [at EXCEPT ![f] = "over"]
  /\ report' = [report EXCEPT ![f] = [s \in 1..Steps |-> "unsaid"]]
  /\ trouble' = [trouble EXCEPT ![f] = "threw"]
  /\ UNCHANGED <<batch, valid, step, left, made, here, read, called>>

\* reload: one output after the other.
ReadBack(f) ==
  /\ at[f] = "reading" /\ read[f] < made[f] /\ read[f] + 1 \in here[f]
  /\ read' = [read EXCEPT ![f] = @ + 1]
  /\ UNCHANGED <<batch, valid, at, step, left, made, here, report, called, trouble>>

ReadFails(f) ==
  /\ at[f] = "reading" /\ read[f] < made[f] /\ read[f] + 1 \notin here[f]
  /\ Stop(f, "expired")
  /\ UNCHANGED <<batch, here>>

AllRead(f) ==
  /\ at[f] = "reading" /\ read[f] = made[f]
  /\ EnterStep(f, step[f] + 1, made[f])
  /\ UNCHANGED <<batch, valid, report, trouble>>

Chain(f) ==
  CallSucceeds(f) \/ CallFails(f) \/ CallThrows(f) \/ ReadBack(f) \/ ReadFails(f) \/ AllRead(f)

\* An output's window closes, or somebody deletes it.
Expire(f) ==
  /\ at[f] = "reading"
  /\ \E k \in here[f] : here' = [here EXCEPT ![f] = @ \ {k}]
  /\ UNCHANGED <<batch, valid, at, step, left, made, read, report, called, trouble>>

-----------------------------------------------------------------------------
(* runBatch.                                                                *)

\* index = next; next += 1, and the worker ends when there is no such file.
Take(w) ==
  IF next > N
  THEN on' = [on EXCEPT ![w] = Home] /\ UNCHANGED <<next, chain>>
  ELSE on' = [on EXCEPT ![w] = next] /\ next' = next + 1 /\ RunWorkflow(next)

\* Slip: the bar counts from one and takes the file that starts for done.
BarAheadAtStart(f) == f + 1

\* What the bar shows when a file starts: percent is (fileIndex + done) / fileCount.
BarAtStart(f) == f - 1

Begin(w) ==
  /\ on[w] = Idle
  /\ Take(w)
  /\ bar' = IF next <= N THEN BarAtStart(next) ELSE bar
  /\ UNCHANGED <<results, reply>>

\* Slip: the first failure is kept as the answer of the whole batch.
FailTogether(f) ==
  [g \in Files |-> IF results[g] = "none" /\ trouble[f] # "none" THEN "failed"
                   ELSE IF g = f THEN "ok" ELSE results[g]]

\* The file's own verdict goes to the file's own place.
Place(f) == [results EXCEPT ![f] = IF trouble[f] = "none" THEN "ok" ELSE "failed"]

\* The worker keeps the answer and takes its next file in the same breath.
Answer(w) ==
  LET f == on[w] IN
  /\ f \in Files /\ at[f] = "over"
  /\ results' = Place(f)
  /\ Take(w)
  /\ bar' = IF next <= N THEN BarAtStart(next) ELSE f
  /\ UNCHANGED reply

\* Slip: the batch replies as soon as one worker is home.
FirstHome == \E w \in Workers : on[w] = Home

\* Promise.all over the workers.
AllHome == \A w \in Workers : on[w] = Home

\* results.filter(defined), and the counts of it.
Return ==
  /\ reply = <<>> /\ AllHome
  /\ reply' = <<Cardinality({f \in Files : results[f] = "ok"}),
                Cardinality({f \in Files : results[f] = "failed"})>>
  /\ UNCHANGED <<next, on, results, bar, chain>>

Worker(w) == Begin(w) \/ Answer(w) \/ (on[w] \in Files /\ Chain(on[w]))

Next ==
  \/ \E w \in Workers : Worker(w)
  \/ \E f \in Files : Expire(f)
  \/ Return

Spec == Init /\ [][Next]_vars

\* The event loop resumes every worker whose await has settled; a call of runPipeline ends
\* (Pipeline!EveryCallEnds) and a read of the temp store ends.
FairSpec == Spec /\ WF_vars(Return) /\ \A w \in Workers : WF_vars(Worker(w))

-----------------------------------------------------------------------------
(* Properties.                                                              *)

\* What an answer says of the steps is what happened to them: a file answered "ok" went through
\* every step; otherwise its report is a run of successes, one failure and then skipped steps,
\* and no tool was called for a step it calls skipped.  runWorkflow's promise to show "how far
\* the run got", kept through expired outputs and steps of several calls.
ReportIsTrue ==
  \A f \in Files : at[f] = "over" =>
    \/ trouble[f] = "none" /\ \A s \in 1..Steps : report[f][s] = "success" /\ s \in called[f]
    \/ trouble[f] = "invalid" /\ called[f] = {} /\ \A s \in 1..Steps : report[f][s] = "skipped"
    \/ trouble[f] = "threw" /\ \A s \in 1..Steps : report[f][s] = "unsaid"
    \/ /\ trouble[f] \in {"failed", "empty", "expired"}
       /\ \E k \in 1..Steps : \A s \in 1..Steps :
            /\ report[f][s] = (IF s < k THEN "success" ELSE IF s = k THEN "failed" ELSE "skipped")
            /\ s \in called[f] <=> s <= k

\* A file is "failed" only for something that went wrong in its own chain, and "ok" only when
\* nothing did: batch.ts, "one bad file reports its own specific failure and the other N-1 still
\* finish".
FailuresAreOwn ==
  \A f \in Files :
    /\ results[f] = "failed" => trouble[f] # "none"
    /\ results[f] = "ok" => called[f] = 1..Steps /\ trouble[f] = "none"

\* The progress bar counts files by their position and not by how many are done, so it may
\* overstate, and step back: by less than the number of workers.
BarNeverFarAhead ==
  bar <= Cardinality({f \in Files : results[f] # "none"}) + Cardinality(Workers) - 1

Promise == INSTANCE FileBatch WITH answer <- results

\* runBatch implements FileBatch: one answer per file, in its place, and a reply that counts all.
KeepsThePromise == Promise!Spec

\* Every batch replies.
EveryBatchReplies == <>(reply # <<>>)
=============================================================================
