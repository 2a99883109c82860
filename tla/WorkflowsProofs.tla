--------------------------- MODULE WorkflowsProofs ---------------------------
(***************************************************************************)
(* Proofs about Workflows, for any number of files, steps and workers.     *)
(*                                                                         *)
(* IInv adds to TypeOK and ReportIsTrue what the report of an unfinished   *)
(* chain says (ChainPhase), and how the cursor, the workers and the        *)
(* results divide the files between them (CursorPhase): that a file is     *)
(* one worker's alone is what keeps its failure its own, and that no file  *)
(* below the cursor is lost is what lets the batch reply.                  *)
(***************************************************************************)
EXTENDS Workflows, FiniteSetTheorems, FunctionTheorems, TLAPS

ChainPhase ==
  \A f \in Files :
    /\ at[f] = "waiting" =>
         /\ trouble[f] = "none" /\ called[f] = {}
         /\ \A s \in 1..Steps : report[f][s] = "skipped"
    /\ at[f] \in {"calling", "reading"} =>
         /\ trouble[f] = "none" /\ called[f] = 1..step[f]
         /\ \A s \in 1..Steps :
              report[f][s] = IF s < step[f] \/ (s = step[f] /\ at[f] = "reading") THEN "success" ELSE "skipped"
    /\ at[f] = "reading" => step[f] < Steps

CursorPhase ==
  /\ \A w \in Workers : on[w] \in Files =>
       on[w] < next /\ results[on[w]] = "none" /\ \A x \in Workers : on[x] = on[w] => x = w
  /\ \A w \in Workers : on[w] = Home => next > N
  /\ \A f \in Files : at[f] = "waiting" <=> next <= f
  /\ \A f \in Files : results[f] # "none" => at[f] = "over" /\ (results[f] = "ok" <=> trouble[f] = "none")
  /\ \A f \in Files : f < next => results[f] # "none" \/ \E w \in Workers : on[w] = f

\* What ReportIsTrue says of one file that is over.
Honest(why, told, tools) ==
  \/ why = "none" /\ \A s \in 1..Steps : told[s] = "success" /\ s \in tools
  \/ why = "invalid" /\ tools = {} /\ \A s \in 1..Steps : told[s] = "skipped"
  \/ why = "threw" /\ \A s \in 1..Steps : told[s] = "unsaid"
  \/ /\ why \in {"failed", "empty", "expired"}
     /\ \E k \in 1..Steps : \A s \in 1..Steps :
          /\ told[s] = (IF s < k THEN "success" ELSE IF s = k THEN "failed" ELSE "skipped")
          /\ s \in tools <=> s <= k

IInv == TypeOK /\ ChainPhase /\ CursorPhase /\ ReportIsTrue

-----------------------------------------------------------------------------
(* The inductive invariant.                                                 *)

LEMMA WorkersAreNumbers == Limit \in Nat \ {0} /\ \E k \in Nat : Workers = 1..k /\ (N > 0 => k > 0)
<1>1. Limit \in 1..MAX_BATCH_CONCURRENCY
  BY WorkflowsAssumption DEF Limit, clampConcurrency, MAX_BATCH_CONCURRENCY, DEFAULT_BATCH_CONCURRENCY
<1> QED
  BY <1>1, WorkflowsAssumption DEF MAX_BATCH_CONCURRENCY, Workers

LEMMA FilesAreFinite == IsFiniteSet(Files) /\ \A S \in SUBSET Files : IsFiniteSet(S) /\ Cardinality(S) \in Nat
<1>1. IsFiniteSet(1..N)
  BY WorkflowsAssumption, FS_Interval DEF WorkflowsAssumption
<1> QED
  BY <1>1, FS_Subset, FS_CardinalityType DEF Files

LEMMA ReportIsHonest ==
  ReportIsTrue <=> \A f \in Files : at[f] = "over" => Honest(trouble[f], report[f], called[f])
BY DEF ReportIsTrue, Honest

LEMMA ReportIsHonestNext ==
  ReportIsTrue' <=> \A f \in Files : at'[f] = "over" => Honest(trouble'[f], report'[f], called'[f])
BY DEF ReportIsTrue, Honest

LEMMA InitIInv == Init => IInv
<1> SUFFICES ASSUME Init PROVE IInv
  OBVIOUS
<1> USE WorkflowsAssumption DEF Init, WorkflowsAssumption, Files
<1>1. TypeOK
  BY WorkersAreNumbers DEF TypeOK, Idle, Places, Troubles
<1>2. ChainPhase /\ ReportIsTrue
  BY DEF ChainPhase, ReportIsTrue
<1>3. CursorPhase
  BY DEF CursorPhase, Idle, Home
<1> QED
  BY <1>1, <1>2, <1>3 DEF IInv

\* A step of one file's chain moves the file on, and leaves the workers and the results alone.
LEMMA ChainKeepsCursor ==
  ASSUME TypeOK, CursorPhase, NEW w \in Workers, on[w] \in Files, UNCHANGED batch,
         at'[on[w]] # "waiting", \A g \in Files \ {on[w]} : at'[g] = at[g] /\ trouble'[g] = trouble[g]
  PROVE  CursorPhase'
<1>1. on' = on /\ next' = next /\ results' = results
  BY DEF batch
<1>2. on[w] < next /\ results[on[w]] = "none"
  BY DEF CursorPhase
<1>3. next \in Nat /\ \A f \in Files : f \in Nat
  BY WorkflowsAssumption DEF WorkflowsAssumption, TypeOK, Files
<1>4. \A f \in Files : at'[f] = "waiting" <=> next <= f
  BY <1>2, <1>3 DEF CursorPhase
<1>5. \A f \in Files : results[f] # "none" => at'[f] = "over" /\ (results[f] = "ok" <=> trouble'[f] = "none")
  BY <1>2 DEF CursorPhase
<1> QED
  BY <1>1, <1>4, <1>5 DEF CursorPhase

\* A file that leaves the waiting ones gets its first step, or is refused.
LEMMA RunWorkflowStarts ==
  ASSUME TypeOK, ChainPhase, ReportIsTrue, NEW f \in Files, at[f] = "waiting", RunWorkflow(f)
  PROVE  /\ at' \in [Files -> Places] /\ step' \in [Files -> 1..Steps] /\ left' \in [Files -> Nat]
         /\ made' \in [Files -> 0..MaxOut] /\ here' \in [Files -> SUBSET (1..MaxOut)]
         /\ read' \in [Files -> 0..MaxOut] /\ called' \in [Files -> SUBSET (1..Steps)]
         /\ trouble' \in [Files -> Troubles] /\ UNCHANGED <<valid, report>>
         /\ at'[f] # "waiting" /\ \A g \in Files \ {f} : at'[g] = at[g] /\ trouble'[g] = trouble[g]
         /\ ChainPhase' /\ ReportIsTrue'
<1> USE WorkflowsAssumption DEF WorkflowsAssumption
<1>1. CASE valid
  <2>1. EnterStep(f, 1, 1) /\ UNCHANGED <<trouble, valid, report>>
    BY <1>1 DEF RunWorkflow
  <2>2. Groups(1, 1) = 1
    BY DEF Groups
  <2>3. /\ at' = [at EXCEPT ![f] = "calling"] /\ step' = [step EXCEPT ![f] = 1]
        /\ left' = [left EXCEPT ![f] = 1] /\ made' = [made EXCEPT ![f] = 0]
        /\ here' = [here EXCEPT ![f] = {}] /\ read' = [read EXCEPT ![f] = 0]
        /\ called' = [called EXCEPT ![f] = {1}]
    <3>1. PICK inputs \in 1..1 :
            /\ at' = [at EXCEPT ![f] = "calling"] /\ step' = [step EXCEPT ![f] = 1]
            /\ left' = [left EXCEPT ![f] = Groups(1, inputs)] /\ made' = [made EXCEPT ![f] = 0]
            /\ here' = [here EXCEPT ![f] = {}] /\ read' = [read EXCEPT ![f] = 0]
            /\ called' = [called EXCEPT ![f] = @ \union {1}]
      BY <2>1 DEF EnterStep
    <3>2. inputs = 1 /\ called[f] \union {1} = {1}
      BY DEF ChainPhase
    <3> QED
      BY <2>2, <3>1, <3>2
  <2>4. /\ at' \in [Files -> Places] /\ step' \in [Files -> 1..Steps] /\ left' \in [Files -> Nat]
        /\ made' \in [Files -> 0..MaxOut] /\ here' \in [Files -> SUBSET (1..MaxOut)]
        /\ read' \in [Files -> 0..MaxOut] /\ called' \in [Files -> SUBSET (1..Steps)]
    BY <2>3 DEF TypeOK, Places
  <2>5. at'[f] = "calling" /\ \A g \in Files \ {f} : at'[g] = at[g]
    BY <2>3 DEF TypeOK
  <2>6. ChainPhase'
    BY <2>1, <2>3 DEF TypeOK, ChainPhase
  <2>7. ReportIsTrue'
    BY <2>1, <2>3, ReportIsHonest, ReportIsHonestNext DEF TypeOK
  <2> QED
    BY <2>1, <2>4, <2>5, <2>6, <2>7 DEF TypeOK
<1>2. CASE ~valid
  <2>1. /\ at' = [at EXCEPT ![f] = "over"] /\ trouble' = [trouble EXCEPT ![f] = "invalid"]
        /\ UNCHANGED <<step, left, made, here, read, called, valid, report>>
    BY <1>2 DEF RunWorkflow
  <2>2. ChainPhase'
    BY <2>1 DEF TypeOK, ChainPhase
  <2>3. Honest(trouble'[f], report'[f], called'[f])
    BY <2>1 DEF TypeOK, ChainPhase, Honest
  <2>4. ReportIsTrue'
    BY <2>1, <2>3, ReportIsHonest, ReportIsHonestNext DEF TypeOK
  <2> QED
    BY <2>1, <2>2, <2>4 DEF TypeOK, Places, Troubles
<1> QED
  BY <1>1, <1>2 DEF TypeOK

\* A chain that stops tells of one failure, after successes and before skipped steps.
LEMMA StopIsHonest ==
  ASSUME IInv, NEW w \in Workers, on[w] \in Files, at[on[w]] \in {"calling", "reading"},
         NEW why \in {"failed", "empty", "expired"}, Stop(on[w], why), UNCHANGED <<batch, here>>
  PROVE  IInv'
<1> DEFINE f == on[w]
<1> USE DEF IInv
<1>1. /\ f \in Files /\ at[f] \in {"calling", "reading"}
      /\ at' = [at EXCEPT ![f] = "over"] /\ trouble' = [trouble EXCEPT ![f] = why]
      /\ report' = [report EXCEPT ![f][step[f]] = "failed"]
      /\ UNCHANGED <<valid, step, left, made, here, read, called>>
  BY DEF Stop
<1>2. UNCHANGED <<next, on, results, bar, reply>>
  BY DEF batch
<1>3. CursorPhase'
  BY <1>1, ChainKeepsCursor DEF TypeOK
<1> HIDE DEF f
<1>4. report'[f] = [report[f] EXCEPT ![step[f]] = "failed"] /\ step[f] \in 1..Steps
      /\ report[f] \in [1..Steps -> {"skipped", "success", "failed", "unsaid"}]
      /\ \A g \in Files \ {f} : report'[g] = report[g]
  BY <1>1 DEF TypeOK
<1>5. TypeOK'
  <2>1. report' \in [Files -> [1..Steps -> {"skipped", "success", "failed", "unsaid"}]]
    BY <1>1, <1>4 DEF TypeOK
  <2> QED
    BY <1>1, <1>2, <2>1 DEF TypeOK, Places, Troubles
<1>6. ChainPhase'
  BY <1>1, <1>4 DEF TypeOK, ChainPhase
<1>7. Honest(trouble'[f], report'[f], called'[f])
  <2>1. trouble'[f] = why /\ called'[f] = 1..step[f]
    BY <1>1 DEF TypeOK, ChainPhase
  <2>2. \A s \in 1..Steps :
          report'[f][s] = (IF s < step[f] THEN "success" ELSE IF s = step[f] THEN "failed" ELSE "skipped")
    <3>1. \A s \in 1..Steps \ {step[f]} : report[f][s] = IF s < step[f] THEN "success" ELSE "skipped"
      BY <1>1 DEF ChainPhase
    <3>2. \A s \in 1..Steps : report'[f][s] = IF s = step[f] THEN "failed" ELSE report[f][s]
      BY <1>4
    <3> QED
      BY <1>4, <3>1, <3>2
  <2>3. \A s \in 1..Steps : s \in 1..step[f] <=> s <= step[f]
    BY <1>4
  <2> QED
    BY <1>4, <2>1, <2>2, <2>3 DEF Honest
<1>8. ReportIsTrue'
  BY <1>1, <1>4, <1>7, ReportIsHonest, ReportIsHonestNext DEF TypeOK
<1> QED
  BY <1>3, <1>5, <1>6, <1>8

\* A step begins for a file whose steps before it are done.
LEMMA NextStepKeeps ==
  ASSUME IInv, NEW w \in Workers, on[w] \in Files, AllRead(on[w])
  PROVE  IInv'
<1> DEFINE f == on[w]
<1> USE DEF IInv
<1>1. /\ f \in Files /\ at[f] = "reading" /\ made[f] \in Nat /\ step[f] \in 1..Steps /\ step[f] < Steps
      /\ UNCHANGED batch /\ UNCHANGED <<valid, report, trouble>> /\ EnterStep(f, step[f] + 1, made[f])
  BY WorkflowsAssumption DEF WorkflowsAssumption, AllRead, ChainPhase, TypeOK
<1>2. PICK inputs \in 1..made[f] :
        /\ at' = [at EXCEPT ![f] = "calling"] /\ step' = [step EXCEPT ![f] = step[f] + 1]
        /\ left' = [left EXCEPT ![f] = Groups(step[f] + 1, inputs)] /\ made' = [made EXCEPT ![f] = 0]
        /\ here' = [here EXCEPT ![f] = {}] /\ read' = [read EXCEPT ![f] = 0]
        /\ called' = [called EXCEPT ![f] = @ \union {step[f] + 1}]
  BY <1>1 DEF EnterStep
<1>3. CursorPhase'
  BY <1>1, <1>2, ChainKeepsCursor DEF TypeOK
<1> HIDE DEF f
<1>4. Groups(step[f] + 1, inputs) \in Nat
  BY <1>1 DEF Groups
<1>5. called[f] = 1..step[f] /\ called'[f] = 1..(step[f] + 1)
  <2>1. called[f] = 1..step[f]
    BY <1>1 DEF ChainPhase
  <2>2. called'[f] = (1..step[f]) \union {step[f] + 1}
    BY <1>1, <1>2, <2>1 DEF TypeOK
  <2>3. (1..step[f]) \union {step[f] + 1} = 1..(step[f] + 1)
    BY <1>1
  <2> QED
    BY <2>1, <2>2, <2>3
<1>6. TypeOK'
  <2>1. UNCHANGED <<next, on, results, bar, reply>>
    BY <1>1 DEF batch
  <2>2. step[f] + 1 \in 1..Steps
    BY <1>1, WorkflowsAssumption DEF WorkflowsAssumption
  <2>3. /\ step' \in [Files -> 1..Steps] /\ left' \in [Files -> Nat]
        /\ called' \in [Files -> SUBSET (1..Steps)]
    BY <1>1, <1>2, <1>4, <2>2 DEF TypeOK
  <2>4. /\ at' \in [Files -> Places] /\ made' \in [Files -> 0..MaxOut]
        /\ here' \in [Files -> SUBSET (1..MaxOut)] /\ read' \in [Files -> 0..MaxOut]
    BY <1>1, <1>2, WorkflowsAssumption DEF WorkflowsAssumption, TypeOK, Places
  <2> QED
    BY <1>1, <2>1, <2>3, <2>4 DEF TypeOK
<1>7. ChainPhase'
  <2>1. \A s \in 1..Steps : report[f][s] = IF s < step[f] + 1 THEN "success" ELSE "skipped"
    BY <1>1 DEF ChainPhase
  <2>2. at'[f] = "calling" /\ step'[f] = step[f] + 1 /\ trouble[f] = "none"
    BY <1>1, <1>2 DEF TypeOK, ChainPhase
  <2>3. \A g \in Files \ {f} : at'[g] = at[g] /\ step'[g] = step[g] /\ called'[g] = called[g]
    BY <1>1, <1>2 DEF TypeOK
  <2> QED
    BY <1>1, <1>5, <2>1, <2>2, <2>3 DEF ChainPhase
<1>8. ReportIsTrue'
  BY <1>1, <1>2, ReportIsHonest, ReportIsHonestNext DEF TypeOK
<1> QED
  BY <1>3, <1>6, <1>7, <1>8

\* One call of a step succeeds.
LEMMA CallKeeps ==
  ASSUME IInv, NEW w \in Workers, on[w] \in Files, CallSucceeds(on[w])
  PROVE  IInv'
<1> DEFINE f == on[w]
<1> USE DEF IInv
<1>1. f \in Files /\ at[f] = "calling" /\ UNCHANGED batch /\ step[f] \in 1..Steps
      /\ trouble[f] = "none" /\ called[f] = 1..step[f]
  BY DEF CallSucceeds, TypeOK, ChainPhase
<1>2. PICK more \in 0..(MaxOut - made[f]) : NextGroup(f, more) \/ StepDone(f, more)
  BY DEF CallSucceeds
<1>3. made[f] \in 0..MaxOut /\ made[f] + more \in 0..MaxOut
      /\ (made[f] + 1)..(made[f] + more) \subseteq 1..MaxOut
  BY <1>1, WorkflowsAssumption DEF WorkflowsAssumption, TypeOK
<1>4. UNCHANGED <<next, on, results, bar, reply>>
  BY <1>1 DEF batch
<1>5. ASSUME Produce(f, more)
      PROVE  made' \in [Files -> 0..MaxOut] /\ here' \in [Files -> SUBSET (1..MaxOut)]
  <2>1. made' = [made EXCEPT ![f] = made[f] + more]
        /\ here' = [here EXCEPT ![f] = here[f] \union ((made[f] + 1)..(made[f] + more))]
    BY <1>5 DEF Produce
  <2>2. here[f] \union ((made[f] + 1)..(made[f] + more)) \in SUBSET (1..MaxOut)
    BY <1>1, <1>3 DEF TypeOK
  <2> HIDE DEF f
  <2> QED
    BY <1>1, <1>3, <2>1, <2>2 DEF TypeOK
<1>6. CASE NextGroup(f, more)
  <2>1. left[f] > 1 /\ Produce(f, more) /\ left' = [left EXCEPT ![f] = @ - 1]
        /\ UNCHANGED <<valid, at, step, read, report, called, trouble>>
    BY <1>6 DEF NextGroup
  <2>2. CursorPhase'
    BY <1>1, <2>1, ChainKeepsCursor
  <2> HIDE DEF f
  <2>3. left' \in [Files -> Nat]
    BY <1>1, <2>1 DEF TypeOK
  <2>4. TypeOK'
    BY <1>4, <1>5, <2>1, <2>3 DEF TypeOK
  <2>5. ChainPhase'
    BY <2>1 DEF ChainPhase
  <2>6. ReportIsTrue'
    BY <2>1, ReportIsHonest, ReportIsHonestNext
  <2> QED
    BY <2>2, <2>4, <2>5, <2>6
<1>7. CASE step[f] < Steps /\ Stop(f, "empty") /\ UNCHANGED here
  BY <1>1, <1>7, StopIsHonest
<1>8. ASSUME Produce(f, more),
             report' = [report EXCEPT ![f][step[f]] = "success"],
             at' = [at EXCEPT ![f] = IF step[f] = Steps THEN "over" ELSE "reading"],
             UNCHANGED <<valid, step, left, read, called, trouble>>
      PROVE  IInv'
  <2>1. CursorPhase'
    BY <1>1, <1>8, ChainKeepsCursor DEF TypeOK
  <2> HIDE DEF f
  <2>2. report[f] \in [1..Steps -> {"skipped", "success", "failed", "unsaid"}]
        /\ report'[f] = [report[f] EXCEPT ![step[f]] = "success"]
        /\ \A g \in Files \ {f} : report'[g] = report[g] /\ at'[g] = at[g]
    BY <1>1, <1>8 DEF TypeOK
  <2>3. TypeOK'
    <3>1. report' \in [Files -> [1..Steps -> {"skipped", "success", "failed", "unsaid"}]]
      BY <1>1, <1>8, <2>2 DEF TypeOK
    <3>2. at' \in [Files -> Places]
      BY <1>8 DEF TypeOK, Places
    <3> QED
      BY <1>4, <1>5, <1>8, <3>1, <3>2 DEF TypeOK
  <2>4. \A s \in 1..Steps : report'[f][s] = IF s <= step[f] THEN "success" ELSE "skipped"
    <3>1. \A s \in 1..Steps : report[f][s] = IF s < step[f] THEN "success" ELSE "skipped"
      BY <1>1 DEF ChainPhase
    <3>2. \A s \in 1..Steps : report'[f][s] = IF s = step[f] THEN "success" ELSE report[f][s]
      BY <1>1, <2>2
    <3> QED
      BY <1>1, <3>1, <3>2
  <2>5. at'[f] = IF step[f] = Steps THEN "over" ELSE "reading"
    BY <1>1, <1>8 DEF TypeOK
  <2>6. ChainPhase'
    <3> SUFFICES ASSUME NEW g \in Files
                 PROVE  /\ at'[g] = "waiting" =>
                             /\ trouble'[g] = "none" /\ called'[g] = {}
                             /\ \A s \in 1..Steps : report'[g][s] = "skipped"
                        /\ at'[g] \in {"calling", "reading"} =>
                             /\ trouble'[g] = "none" /\ called'[g] = 1..step'[g]
                             /\ \A s \in 1..Steps : report'[g][s] =
                                  IF s < step'[g] \/ (s = step'[g] /\ at'[g] = "reading")
                                  THEN "success" ELSE "skipped"
                        /\ at'[g] = "reading" => step'[g] < Steps
      BY DEF ChainPhase
    <3>1. CASE g = f
      BY <1>1, <1>8, <2>4, <2>5, <3>1, WorkflowsAssumption DEF WorkflowsAssumption
    <3>2. CASE g # f
      BY <1>8, <2>2, <3>2 DEF ChainPhase
    <3> QED
      BY <3>1, <3>2
  <2>7. at'[f] = "over" => Honest(trouble'[f], report'[f], called'[f])
    BY <1>1, <1>8, <2>4, <2>5, WorkflowsAssumption DEF WorkflowsAssumption, Honest
  <2>8. ReportIsTrue'
    BY <1>8, <2>2, <2>7, ReportIsHonest, ReportIsHonestNext
  <2> QED
    BY <2>1, <2>3, <2>6, <2>8
<1> QED
  BY <1>2, <1>6, <1>7, <1>8 DEF StepDone

\* What else may happen to a chain in flight.
LEMMA ChainKeeps ==
  ASSUME IInv, NEW w \in Workers, on[w] \in Files, Chain(on[w])
  PROVE  IInv'
<1> DEFINE f == on[w]
<1> USE DEF IInv
<1>1. CASE CallSucceeds(f)
  BY <1>1, CallKeeps
<1>2. CASE CallFails(f)
  BY <1>2, StopIsHonest DEF CallFails
<1>3. CASE CallThrows(f)
  <2>1. /\ f \in Files /\ at[f] = "calling" /\ UNCHANGED batch
        /\ at' = [at EXCEPT ![f] = "over"] /\ trouble' = [trouble EXCEPT ![f] = "threw"]
        /\ report' = [report EXCEPT ![f] = [s \in 1..Steps |-> "unsaid"]]
        /\ UNCHANGED <<valid, step, left, made, here, read, called>>
    BY <1>3 DEF CallThrows
  <2>2. CursorPhase'
    BY <2>1, ChainKeepsCursor DEF TypeOK
  <2> HIDE DEF f
  <2>3. TypeOK'
    BY <2>1 DEF TypeOK, batch, Places, Troubles
  <2>4. ChainPhase'
    BY <2>1 DEF TypeOK, ChainPhase
  <2>5. Honest(trouble'[f], report'[f], called'[f])
    BY <2>1 DEF TypeOK, Honest
  <2>6. ReportIsTrue'
    BY <2>1, <2>5, ReportIsHonest, ReportIsHonestNext DEF TypeOK
  <2> QED
    BY <2>2, <2>3, <2>4, <2>6
<1>4. CASE ReadBack(f)
  <2>1. /\ f \in Files /\ at[f] = "reading" /\ read[f] < made[f]
        /\ read' = [read EXCEPT ![f] = @ + 1]
        /\ UNCHANGED <<batch, valid, at, step, left, made, here, report, called, trouble>>
    BY <1>4 DEF ReadBack
  <2>2. CursorPhase'
    BY <2>1, ChainKeepsCursor
  <2>3. read' \in [Files -> 0..MaxOut]
    <3> HIDE DEF f
    <3>1. read[f] + 1 \in 0..MaxOut
      BY <2>1, WorkflowsAssumption DEF WorkflowsAssumption, TypeOK
    <3> QED
      BY <2>1, <3>1 DEF TypeOK
  <2>4. TypeOK'
    BY <2>1, <2>3 DEF TypeOK, batch
  <2>5. ChainPhase' /\ ReportIsTrue'
    BY <2>1, ReportIsHonest, ReportIsHonestNext DEF ChainPhase
  <2> QED
    BY <2>2, <2>4, <2>5
<1>5. CASE ReadFails(f)
  BY <1>5, StopIsHonest DEF ReadFails
<1>6. CASE AllRead(f)
  BY <1>6, NextStepKeeps
<1> QED
  BY <1>1, <1>2, <1>3, <1>4, <1>5, <1>6 DEF Chain

\* A worker that is free, its answer placed, takes the file under the cursor or goes home.
LEMMA TakeKeeps ==
  ASSUME IInv, NEW w \in Workers, Take(w), reply' = reply, bar' \in 0..N,
         results' \in [Files -> {"none", "ok", "failed"}],
         \A f \in Files : results'[f] # "none" => at[f] = "over" /\ (results'[f] = "ok" <=> trouble[f] = "none"),
         \A x \in Workers \ {w} : on[x] \in Files => results'[on[x]] = "none",
         \A f \in Files : f < next => results'[f] # "none" \/ \E x \in Workers \ {w} : on[x] = f
  PROVE  IInv'
<1> USE DEF IInv
<1>1. N \in Nat /\ next \in 1..(N + 1) /\ \A f \in Files : f \in Nat /\ f <= N
  BY WorkflowsAssumption DEF WorkflowsAssumption, TypeOK, Files
<1>2. CASE next > N
  <2>1. on' = [on EXCEPT ![w] = Home] /\ next' = next /\ UNCHANGED chain
    BY <1>2 DEF Take
  <2>2. UNCHANGED <<valid, at, step, left, made, here, read, report, called, trouble>>
    BY <2>1 DEF chain
  <2>3. Home \notin Files /\ Home \in 0..(N + 1)
    BY <1>1 DEF Home
  <2>4. TypeOK'
    BY <2>1, <2>2, <2>3 DEF TypeOK
  <2>5. on'[w] = Home /\ \A x \in Workers \ {w} : on'[x] = on[x]
    BY <2>1 DEF TypeOK
  <2>6. CursorPhase'
    <3>1. \A x \in Workers : on'[x] \in Files =>
            on'[x] < next' /\ results'[on'[x]] = "none" /\ \A y \in Workers : on'[y] = on'[x] => y = x
      BY <2>1, <2>3, <2>5 DEF CursorPhase
    <3>2. \A f \in Files : f < next' => results'[f] # "none" \/ \E x \in Workers : on'[x] = f
      BY <2>1, <2>5
    <3> QED
      BY <1>2, <2>1, <2>2, <3>1, <3>2 DEF CursorPhase
  <2>7. ChainPhase' /\ ReportIsTrue'
    BY <2>2, ReportIsHonest, ReportIsHonestNext DEF ChainPhase
  <2> QED
    BY <2>4, <2>6, <2>7
<1>3. CASE next <= N
  <2>1. on' = [on EXCEPT ![w] = next] /\ next' = next + 1 /\ RunWorkflow(next)
    BY <1>1, <1>3 DEF Take
  <2>2. next \in Files /\ at[next] = "waiting"
    BY <1>1, <1>3 DEF Files, CursorPhase
  <2>3. /\ at' \in [Files -> Places] /\ step' \in [Files -> 1..Steps] /\ left' \in [Files -> Nat]
        /\ made' \in [Files -> 0..MaxOut] /\ here' \in [Files -> SUBSET (1..MaxOut)]
        /\ read' \in [Files -> 0..MaxOut] /\ called' \in [Files -> SUBSET (1..Steps)]
        /\ trouble' \in [Files -> Troubles] /\ UNCHANGED <<valid, report>>
        /\ at'[next] # "waiting"
        /\ \A g \in Files \ {next} : at'[g] = at[g] /\ trouble'[g] = trouble[g]
        /\ ChainPhase' /\ ReportIsTrue'
    BY <2>1, <2>2, RunWorkflowStarts
  <2>4. on'[w] = next /\ \A x \in Workers \ {w} : on'[x] = on[x]
    BY <2>1 DEF TypeOK
  <2>5. TypeOK'
    <3>1. next' \in 1..(N + 1) /\ on' \in [Workers -> 0..(N + 1)]
      BY <1>1, <1>3, <2>1 DEF TypeOK
    <3> QED
      BY <2>3, <3>1 DEF TypeOK
  <2>6. results'[next] = "none" /\ \A x \in Workers : on[x] # next
    BY <1>1, <2>2 DEF CursorPhase
  <2>7. CursorPhase'
    <3>1. \A x \in Workers : on'[x] \in Files =>
            on'[x] < next' /\ results'[on'[x]] = "none" /\ \A y \in Workers : on'[y] = on'[x] => y = x
      BY <1>1, <2>1, <2>4, <2>6 DEF CursorPhase
    <3>2. \A x \in Workers : on'[x] = Home => next' > N
      BY <1>1, <1>3, <2>1, <2>4 DEF CursorPhase, Home
    <3>3. \A f \in Files : at'[f] = "waiting" <=> next' <= f
      BY <1>1, <2>1, <2>2, <2>3 DEF CursorPhase
    <3>4. \A f \in Files : results'[f] # "none" => at'[f] = "over" /\ (results'[f] = "ok" <=> trouble'[f] = "none")
      BY <2>3, <2>6
    <3>5. \A f \in Files : f < next' => results'[f] # "none" \/ \E x \in Workers : on'[x] = f
      BY <1>1, <2>1, <2>4
    <3> QED
      BY <3>1, <3>2, <3>3, <3>4, <3>5 DEF CursorPhase
  <2> QED
    BY <2>3, <2>5, <2>7
<1> QED
  BY <1>1, <1>2, <1>3

LEMMA StepIInv == IInv /\ [Next]_vars => IInv'
<1> SUFFICES ASSUME IInv, [Next]_vars PROVE IInv'
  OBVIOUS
<1> USE DEF IInv
<1>1. N \in Nat /\ next \in 1..(N + 1) /\ \A f \in Files : f \in Nat /\ f <= N
  BY WorkflowsAssumption DEF WorkflowsAssumption, TypeOK, Files
<1>2. ASSUME NEW w \in Workers, Begin(w) PROVE IInv'
  <2>1. on[w] = Idle /\ Take(w) /\ UNCHANGED <<results, reply>>
        /\ bar' = IF next <= N THEN BarAtStart(next) ELSE bar
    BY <1>2 DEF Begin
  <2>2. on[w] \notin Files /\ bar' \in 0..N
    BY <1>1, <2>1 DEF Idle, BarAtStart, TypeOK, Files
  <2>3. \A f \in Files : f < next => results'[f] # "none" \/ \E x \in Workers \ {w} : on[x] = f
    BY <2>1, <2>2 DEF CursorPhase
  <2> QED
    BY <2>1, <2>2, <2>3, TakeKeeps DEF TypeOK, CursorPhase
<1>3. ASSUME NEW w \in Workers, Answer(w) PROVE IInv'
  <2> DEFINE f == on[w]
  <2>1. f \in Files /\ at[f] = "over" /\ results' = Place(f) /\ Take(w) /\ UNCHANGED reply
        /\ bar' = IF next <= N THEN BarAtStart(next) ELSE f
    BY <1>3 DEF Answer
  <2>2. bar' \in 0..N
    BY <1>1, <2>1 DEF BarAtStart
  <2> HIDE DEF f
  <2>3. /\ results' \in [Files -> {"none", "ok", "failed"}]
        /\ results'[f] # "none" /\ (results'[f] = "ok" <=> trouble[f] = "none")
        /\ \A g \in Files \ {f} : results'[g] = results[g]
    BY <2>1 DEF Place, TypeOK
  <2>4. \A x \in Workers \ {w} : on[x] \in Files => on[x] # f /\ results[on[x]] = "none"
    BY <2>1 DEF CursorPhase, f
  <2>5. \A x \in Workers \ {w} : on[x] \in Files => results'[on[x]] = "none"
    BY <2>3, <2>4
  <2>6. \A g \in Files : g < next => results'[g] # "none" \/ \E x \in Workers \ {w} : on[x] = g
    BY <2>3 DEF CursorPhase, f
  <2>7. \A g \in Files : results'[g] # "none" => at[g] = "over" /\ (results'[g] = "ok" <=> trouble[g] = "none")
    BY <2>1, <2>3 DEF CursorPhase
  <2> QED
    BY <2>1, <2>2, <2>3, <2>5, <2>6, <2>7, TakeKeeps
<1>4. ASSUME NEW f \in Files, Expire(f) PROVE IInv'
  <2>1. PICK k \in here[f] : here' = [here EXCEPT ![f] = @ \ {k}]
    BY <1>4 DEF Expire
  <2>2. UNCHANGED <<batch, valid, at, step, left, made, read, report, called, trouble>>
    BY <1>4 DEF Expire
  <2>3. TypeOK'
    BY <2>1, <2>2 DEF TypeOK, batch
  <2>4. CursorPhase'
    BY <2>2 DEF batch, CursorPhase
  <2>5. ChainPhase' /\ ReportIsTrue'
    BY <2>2, ReportIsHonest, ReportIsHonestNext DEF ChainPhase
  <2> QED
    BY <2>3, <2>4, <2>5
<1>5. CASE Return
  <2>1. \A v \in {"ok", "failed"} : Cardinality({f \in Files : results[f] = v}) \in Nat
    <3>1. \A v \in {"ok", "failed"} : {f \in Files : results[f] = v} \in SUBSET Files
      OBVIOUS
    <3> QED
      BY <3>1, FilesAreFinite
  <2>2. reply' \in Nat \X Nat /\ UNCHANGED <<next, on, results, bar, chain>>
    BY <1>5, <2>1 DEF Return
  <2>3. TypeOK'
    BY <2>2 DEF chain, TypeOK
  <2>4. CursorPhase' /\ ChainPhase' /\ ReportIsTrue'
    BY <2>2, ReportIsHonest, ReportIsHonestNext DEF chain, CursorPhase, ChainPhase
  <2> QED
    BY <2>3, <2>4
<1>6. CASE UNCHANGED vars
  <2>1. UNCHANGED <<next, on, results, bar, reply, valid, at, step, left, made, here, read, report, called, trouble>>
    BY <1>6 DEF vars, batch, chain
  <2>2. TypeOK'
    BY <2>1 DEF TypeOK
  <2>3. CursorPhase'
    BY <2>1 DEF CursorPhase
  <2>4. ChainPhase'
    BY <2>1 DEF ChainPhase
  <2>5. ReportIsTrue'
    BY <2>1, ReportIsHonest, ReportIsHonestNext
  <2> QED
    BY <2>2, <2>3, <2>4, <2>5
<1> QED
  BY <1>2, <1>3, <1>4, <1>5, <1>6, ChainKeeps DEF Next, Worker

\* IInv holds throughout.
THEOREM Invariance == Spec => []IInv
<1> QED
  BY InitIInv, StepIInv, PTL DEF Spec

\* Every variable keeps its type: the cursor stays within the files, and so does every worker.
THEOREM TypeCorrect == Spec => []TypeOK
<1> QED
  BY Invariance, PTL DEF IInv

\* The answer of runWorkflow says of every step what happened to it, however the chain ends.
THEOREM ReportsAreTrue == Spec => []ReportIsTrue
<1> QED
  BY Invariance, PTL DEF IInv

\* A file's entry is written from its own finished chain.
LEMMA IInvOwn == IInv => FailuresAreOwn
<1> SUFFICES ASSUME IInv, NEW f \in Files
             PROVE  /\ results[f] = "failed" => trouble[f] # "none"
                    /\ results[f] = "ok" => called[f] = 1..Steps /\ trouble[f] = "none"
  BY DEF FailuresAreOwn
<1>1. results[f] # "none" => at[f] = "over" /\ (results[f] = "ok" <=> trouble[f] = "none")
  BY DEF IInv, CursorPhase
<1>2. CASE results[f] = "ok"
  <2>1. trouble[f] = "none" /\ Honest(trouble[f], report[f], called[f])
    BY <1>1, <1>2, ReportIsHonest DEF IInv
  <2>2. \A s \in 1..Steps : s \in called[f]
    BY <2>1 DEF Honest
  <2> QED
    BY <1>2, <2>1, <2>2 DEF IInv, TypeOK
<1>3. CASE results[f] # "ok"
  BY <1>1, <1>3
<1> QED
  BY <1>2, <1>3

\* runBatch answers "failed" for a file only for what went wrong in its own chain, and "ok" only
\* when all its steps were called and nothing did, whatever the other files do.
THEOREM FailuresStayOwn == Spec => []FailuresAreOwn
<1> QED
  BY Invariance, IInvOwn, PTL

-----------------------------------------------------------------------------
(* The progress bar.                                                        *)

Finished == {f \in Files : results[f] # "none"}

\* A worker at the cursor: every file before it is finished, but for one of each other worker.
LEMMA FewInFlight ==
  ASSUME IInv, NEW w \in Workers, NEW done \in SUBSET Files,
         \A f \in Files : f < next => f \in done \/ \E x \in Workers \ {w} : on[x] = f
  PROVE  next - 1 <= Cardinality(done) + Cardinality(Workers) - 1 /\ Cardinality(Workers) \in Nat
<1> DEFINE others == Workers \ {w}
           held == [x \in others |-> on[x]]
           image == {held[x] : x \in others}
           before == 1..(next - 1)
<1>1. N \in Nat /\ next \in 1..(N + 1)
  BY WorkflowsAssumption DEF WorkflowsAssumption, IInv, TypeOK
<1>2. IsFiniteSet(Workers) /\ IsFiniteSet(Files) /\ IsFiniteSet(before)
  BY <1>1, WorkersAreNumbers, FS_Interval DEF Files
<1>3. IsFiniteSet(others) /\ Cardinality(others) = Cardinality(Workers) - 1
      /\ Cardinality(Workers) \in Nat /\ Cardinality(others) \in Nat
  BY <1>2, FS_RemoveElement, FS_CardinalityType
<1>4. held \in Surjection(others, image)
  BY Fun_RangeProperties DEF Surjection
<1>5. IsFiniteSet(image) /\ Cardinality(image) <= Cardinality(others) /\ Cardinality(image) \in Nat
  <2> HIDE DEF held, image, others
  <2> QED
    BY <1>3, <1>4, FS_Surjection, FS_CardinalityType
<1>6. IsFiniteSet(done) /\ Cardinality(done) \in Nat
  BY <1>2, FS_Subset, FS_CardinalityType
<1>7. before \subseteq done \union image
  BY <1>1 DEF Files
<1>8. IsFiniteSet(done \union image) /\ Cardinality(done \union image) <= Cardinality(done) + Cardinality(image)
  <2> HIDE DEF image
  <2>1. Cardinality(done \cap image) \in Nat
    BY <1>5, FS_Subset, FS_CardinalityType
  <2> QED
    BY <1>5, <1>6, <2>1, FS_Union
<1>9. Cardinality(before) = next - 1 /\ Cardinality(before) <= Cardinality(done \union image)
      /\ Cardinality(done \union image) \in Nat
  <2>1. Cardinality(before) = next - 1
    BY <1>1, FS_Interval
  <2> HIDE DEF before, image
  <2> QED
    BY <1>7, <1>8, <2>1, FS_Subset, FS_CardinalityType
<1> HIDE DEF before, image, others
<1> QED
  BY <1>1, <1>3, <1>5, <1>6, <1>8, <1>9

LEMMA InitBar == N # 0 /\ Init => BarNeverFarAhead
<1> SUFFICES ASSUME N # 0, Init PROVE BarNeverFarAhead
  OBVIOUS
<1>1. PICK k \in Nat : Workers = 1..k /\ k > 0
  BY WorkersAreNumbers, WorkflowsAssumption DEF WorkflowsAssumption
<1>2. Cardinality(Workers) = k
  BY <1>1, FS_Interval
<1>3. {f \in Files : results[f] # "none"} = {} /\ bar = 0
  BY DEF Init
<1> QED
  BY <1>1, <1>2, <1>3, FS_EmptySet DEF BarNeverFarAhead

LEMMA StepBar == IInv /\ BarNeverFarAhead /\ [Next]_vars => BarNeverFarAhead'
<1> SUFFICES ASSUME IInv, BarNeverFarAhead, [Next]_vars PROVE BarNeverFarAhead'
  OBVIOUS
<1>1. ASSUME UNCHANGED <<bar, results>> PROVE BarNeverFarAhead'
  BY <1>1 DEF BarNeverFarAhead
<1>2. N \in Nat /\ next \in 1..(N + 1) /\ \A f \in Files : f \in Nat /\ f <= N
  BY WorkflowsAssumption DEF WorkflowsAssumption, IInv, TypeOK, Files
<1>3. Finished' \in SUBSET Files /\ Cardinality(Finished') \in Nat
  <2>1. Finished' \in SUBSET Files
    BY DEF Finished
  <2> QED
    BY <2>1, FilesAreFinite
<1>4. ASSUME NEW w \in Workers, bar' \in Int, bar' <= next - 1,
             \A f \in Files : f < next => f \in Finished' \/ \E x \in Workers \ {w} : on[x] = f
      PROVE  BarNeverFarAhead'
  <2>1. next - 1 <= Cardinality(Finished') + Cardinality(Workers) - 1 /\ Cardinality(Workers) \in Nat
    BY <1>3, <1>4, FewInFlight
  <2>2. bar' <= Cardinality(Finished') + Cardinality(Workers) - 1
    BY <1>2, <1>3, <1>4, <2>1
  <2> QED
    BY <2>2 DEF BarNeverFarAhead, Finished
<1>5. ASSUME NEW w \in Workers, Begin(w) PROVE BarNeverFarAhead'
  <2>1. on[w] = Idle /\ UNCHANGED results /\ bar' = IF next <= N THEN next - 1 ELSE bar
    BY <1>5 DEF Begin, BarAtStart
  <2>2. CASE next <= N
    <3>1. on[w] \notin Files
      BY <2>1 DEF Idle, Files
    <3>2. \A f \in Files : f < next => f \in Finished' \/ \E x \in Workers \ {w} : on[x] = f
      BY <2>1, <3>1 DEF Finished, IInv, CursorPhase
    <3> QED
      BY <1>2, <1>4, <2>1, <2>2, <3>2
  <2>3. CASE ~(next <= N)
    BY <1>1, <2>1, <2>3
  <2> QED
    BY <2>2, <2>3
<1>6. ASSUME NEW w \in Workers, Answer(w) PROVE BarNeverFarAhead'
  <2> DEFINE f == on[w]
  <2>1. f \in Files /\ results' = Place(f) /\ bar' = IF next <= N THEN next - 1 ELSE f
    BY <1>6 DEF Answer, BarAtStart
  <2>2. bar' \in Int /\ bar' <= next - 1
    BY <1>2, <2>1
  <2>3. f \in Finished' /\ \A g \in Files \ {f} : results[g] # "none" => g \in Finished'
    <3> HIDE DEF f
    <3> QED
      BY <2>1 DEF Place, Finished, IInv, TypeOK
  <2>4. \A g \in Files : g < next => g \in Finished' \/ \E x \in Workers \ {w} : on[x] = g
    BY <2>3 DEF IInv, CursorPhase
  <2> QED
    BY <1>4, <2>2, <2>4
<1>7. ASSUME NEW w \in Workers, on[w] \in Files, Chain(on[w]) PROVE BarNeverFarAhead'
  BY <1>1, <1>7 DEF Chain, CallSucceeds, CallFails, CallThrows, ReadBack, ReadFails, AllRead, batch
<1>8. ASSUME NEW f \in Files, Expire(f) PROVE BarNeverFarAhead'
  BY <1>1, <1>8 DEF Expire, batch
<1>9. CASE Return
  BY <1>1, <1>9 DEF Return
<1>10. CASE UNCHANGED vars
  BY <1>1, <1>10 DEF vars, batch
<1> QED
  BY <1>5, <1>6, <1>7, <1>8, <1>9, <1>10 DEF Next, Worker

\* The bar overstates by less than the number of workers (an empty batch has neither).
THEOREM BarStays == ASSUME N # 0 PROVE Spec => []BarNeverFarAhead
<1>1. Init => BarNeverFarAhead
  BY InitBar
<1> QED
  BY <1>1, Invariance, StepBar, PTL DEF Spec

-----------------------------------------------------------------------------
(* The refinement.                                                          *)

LEMMA InitRefines == Init => Promise!Init
BY DEF Init, Promise!Init

\* When every worker is home, no file is without its answer.
LEMMA NobodyIsLost ==
  ASSUME IInv, AllHome
  PROVE  \A f \in Files : results[f] # "none"
<1>1. CASE N = 0
  BY <1>1 DEF Files
<1>2. CASE N # 0
  <2>1. N \in Nat /\ \A f \in Files : f \in Nat /\ f <= N
    BY WorkflowsAssumption DEF WorkflowsAssumption, Files
  <2>2. PICK w : w \in Workers
    BY <1>2, <2>1, WorkersAreNumbers
  <2>3. next > N
    BY <2>2 DEF AllHome, IInv, CursorPhase
  <2>4. next \in Nat /\ \A f \in Files : f < next /\ f # Home
    BY <2>1, <2>3 DEF IInv, TypeOK, Home
  <2> QED
    BY <2>4 DEF AllHome, IInv, CursorPhase
<1> QED
  BY <1>1, <1>2

\* The two modules count alike.
LEMMA SameCount == \A S : Promise!Cardinality(S) = Cardinality(S)
BY DEF Promise!Cardinality, Cardinality

\* An answer settles its own file, the return is the reply, everything else is unseen.
LEMMA StepRefines == IInv /\ [Next]_vars => [Promise!Next]_Promise!vars
<1> SUFFICES ASSUME IInv, [Next]_vars PROVE [Promise!Next]_Promise!vars
  OBVIOUS
<1>1. ASSUME UNCHANGED <<results, reply>> PROVE UNCHANGED Promise!vars
  BY <1>1 DEF Promise!vars
<1>2. ASSUME NEW w \in Workers, Answer(w) PROVE Promise!Next
  <2>1. on[w] \in Files /\ results' = Place(on[w]) /\ UNCHANGED reply
    BY <1>2 DEF Answer
  <2>2. results[on[w]] = "none"
    BY <2>1 DEF IInv, CursorPhase
  <2>3. Promise!Settle(on[w])
    BY <2>1, <2>2 DEF Place, Promise!Settle
  <2> QED
    BY <2>1, <2>3 DEF Promise!Next
<1>3. CASE Return
  <2>1. reply = <<>> /\ AllHome /\ UNCHANGED results
        /\ reply' = <<Cardinality({f \in Files : results[f] = "ok"}),
                      Cardinality({f \in Files : results[f] = "failed"})>>
    BY <1>3 DEF Return
  <2>2. {f \in Files : results[f] = "none"} = {}
    BY <2>1, NobodyIsLost
  <2>3. Promise!Answered("none") = {}
    BY <2>2 DEF Promise!Answered
  <2>4. reply' = <<Cardinality(Promise!Answered("ok")), Cardinality(Promise!Answered("failed"))>>
    BY <2>1 DEF Promise!Answered
  <2>5. Promise!Reply
    BY <2>1, <2>3, <2>4, SameCount DEF Promise!Reply
  <2> QED
    BY <2>5 DEF Promise!Next
<1>4. ASSUME NEW w \in Workers, Begin(w) PROVE UNCHANGED Promise!vars
  BY <1>1, <1>4 DEF Begin
<1>5. ASSUME NEW w \in Workers, on[w] \in Files, Chain(on[w]) PROVE UNCHANGED Promise!vars
  BY <1>1, <1>5 DEF Chain, CallSucceeds, CallFails, CallThrows, ReadBack, ReadFails, AllRead, batch
<1>6. ASSUME NEW f \in Files, Expire(f) PROVE UNCHANGED Promise!vars
  BY <1>1, <1>6 DEF Expire, batch
<1>7. CASE UNCHANGED vars
  BY <1>1, <1>7 DEF vars, batch
<1> QED
  BY <1>2, <1>3, <1>4, <1>5, <1>6, <1>7 DEF Next, Worker

\* runBatch implements FileBatch, for every number of files, steps and workers: one answer per
\* file, in its own place, never taken back, and a reply that counts them all.
THEOREM Refinement == Spec => KeepsThePromise
<1> QED
  BY InitRefines, StepRefines, Invariance, PTL DEF Spec, KeepsThePromise, Promise!Spec

-----------------------------------------------------------------------------
(* Every turn of a worker brings the batch closer to its reply.             *)

\* Where a file's chain is, and how far inside its step.
Where(f) == <<at[f], step[f], left[f], made[f], read[f]>>

\* A chain only goes forward: out of the queue, to its end, to the next step, from the calls of a
\* step to its files, and by one call or one file inside them.
Closer(f) ==
  \/ at[f] = "waiting" /\ at'[f] # "waiting"
  \/ at[f] \in {"calling", "reading"} /\ at'[f] = "over"
  \/ at[f] = "reading" /\ at'[f] = "calling" /\ step'[f] = step[f] + 1 /\ step'[f] <= Steps
  \/ at[f] = "calling" /\ at'[f] = "reading" /\ step'[f] = step[f]
  \/ /\ at[f] = "calling" /\ at'[f] = "calling" /\ step'[f] = step[f]
     /\ left'[f] \in Nat /\ left'[f] < left[f]
  \/ /\ at[f] = "reading" /\ at'[f] = "reading" /\ step'[f] = step[f]
     /\ made'[f] = made[f] /\ read[f] < read'[f] /\ read'[f] <= made'[f]

\* Workers never turn back, no file is ever run again, and each turn of a worker takes it to a
\* later file or brings the file it has closer to its end: there are finitely many of them.
BatchWindsDown ==
  /\ \A w \in Workers : on'[w] >= on[w]
  /\ \A f \in Files : Closer(f) \/ UNCHANGED Where(f)
  /\ \A w \in Workers : Worker(w) => on'[w] > on[w] \/ (on'[w] = on[w] /\ Closer(on[w]))

LEMMA NumbersOfFiles ==
  ASSUME TypeOK
  PROVE  /\ \A f \in Files : f \in Nat /\ f # Idle /\ f # Home /\ f <= N
         /\ next \in Nat /\ N \in Nat /\ 0 < next /\ next <= N + 1
         /\ \A w \in Workers : on[w] \in Nat /\ on[w] <= N + 1
BY WorkflowsAssumption DEF WorkflowsAssumption, TypeOK, Files, Idle, Home

\* A turn of a chain brings its own file closer, and touches no other.
LEMMA ChainWindsDown ==
  ASSUME IInv, IInv', NEW w \in Workers, on[w] \in Files, Chain(on[w])
  PROVE  on' = on /\ Closer(on[w]) /\ \A f \in Files \ {on[w]} : UNCHANGED Where(f)
<1> DEFINE f == on[w]
<1> USE DEF IInv, TypeOK, Closer, Where
<1>0. Steps \in Nat /\ step[f] \in Nat /\ MaxOut \in Nat
  BY WorkflowsAssumption DEF WorkflowsAssumption
<1>1. CASE CallSucceeds(f)
  <2>1. UNCHANGED batch /\ at[f] = "calling"
    BY <1>1 DEF CallSucceeds
  <2>2. PICK more \in 0..(MaxOut - made[f]) : NextGroup(f, more) \/ StepDone(f, more)
    BY <1>1 DEF CallSucceeds
  <2>3. CASE NextGroup(f, more)
    BY <2>1, <2>3 DEF NextGroup, Produce, batch
  <2>4. CASE StepDone(f, more)
    BY <2>1, <2>4 DEF StepDone, Stop, Produce, batch
  <2> QED
    BY <2>2, <2>3, <2>4
<1>2. CASE CallFails(f) \/ CallThrows(f)
  BY <1>2 DEF CallFails, CallThrows, Stop, batch
<1>3. CASE ReadBack(f)
  <2>1. read[f] \in Nat /\ made[f] \in Nat
    OBVIOUS
  <2> QED
    BY <1>3, <2>1 DEF ReadBack, batch
<1>4. CASE ReadFails(f)
  BY <1>4 DEF ReadFails, Stop, batch
<1>5. CASE AllRead(f)
  <2>1. step[f] < Steps
    BY <1>5 DEF AllRead, ChainPhase
  <2>2. UNCHANGED batch /\ at[f] = "reading" /\ EnterStep(f, step[f] + 1, made[f])
    BY <1>5 DEF AllRead
  <2> QED
    BY <1>0, <2>1, <2>2 DEF EnterStep, batch
<1> QED
  BY <1>1, <1>2, <1>3, <1>4, <1>5 DEF Chain

\* A worker that takes its next file, or finds none, goes up.
LEMMA TakeWindsDown ==
  ASSUME IInv, IInv', NEW w \in Workers, on[w] < next, on[w] # Home, Take(w)
  PROVE  /\ on'[w] > on[w] /\ \A x \in Workers \ {w} : on'[x] = on[x]
         /\ \A f \in Files : Closer(f) \/ UNCHANGED Where(f)
<1> USE DEF IInv, Where
<1>1. CASE next > N
  <2>1. on' = [on EXCEPT ![w] = Home] /\ UNCHANGED chain
    BY <1>1 DEF Take
  <2>2. on'[w] > on[w] /\ \A x \in Workers \ {w} : on'[x] = on[x]
    BY <2>1, NumbersOfFiles DEF TypeOK, Home
  <2> QED
    BY <2>1, <2>2 DEF chain
<1>2. CASE ~(next > N)
  <2>1. PICK f \in Files : f = next
    BY <1>2, NumbersOfFiles DEF Files
  <2>2. on' = [on EXCEPT ![w] = f] /\ RunWorkflow(f)
    BY <1>2, <2>1 DEF Take
  <2>3. on'[w] > on[w] /\ \A x \in Workers \ {w} : on'[x] = on[x]
    BY <2>1, <2>2 DEF TypeOK
  <2>4. at[f] = "waiting"
    BY <2>1, NumbersOfFiles DEF CursorPhase
  <2>5. at'[f] # "waiting"
    BY <2>2, <2>4, RunWorkflowStarts
  <2>6. \A g \in Files \ {f} : UNCHANGED Where(g)
    <3>1. CASE valid
      <4>1. EnterStep(f, 1, 1)
        BY <2>2, <3>1 DEF RunWorkflow
      <4> QED
        BY <4>1 DEF EnterStep, TypeOK
    <3>2. CASE ~valid
      BY <2>2, <3>2 DEF RunWorkflow, TypeOK
    <3> QED
      BY <3>1, <3>2
  <2> QED
    BY <2>3, <2>4, <2>5, <2>6 DEF Closer
<1> QED
  BY <1>1, <1>2

LEMMA WorkersWindDown ==
  ASSUME IInv, IInv', NEW w \in Workers, Worker(w)
  PROVE  /\ on'[w] > on[w] \/ (on'[w] = on[w] /\ Closer(on[w]))
         /\ \A x \in Workers \ {w} : on'[x] = on[x]
         /\ \A f \in Files : Closer(f) \/ UNCHANGED Where(f)
<1>1. CASE Begin(w)
  <2>1. on[w] < next /\ on[w] # Home /\ Take(w)
    BY <1>1, NumbersOfFiles DEF Begin, Idle, Home, IInv
  <2> QED
    BY <2>1, TakeWindsDown
<1>2. CASE Answer(w)
  <2>1. on[w] \in Files /\ Take(w)
    BY <1>2 DEF Answer
  <2>2. on[w] < next /\ on[w] # Home
    BY <2>1, NumbersOfFiles DEF IInv, CursorPhase
  <2> QED
    BY <2>1, <2>2, TakeWindsDown
<1>3. CASE on[w] \in Files /\ Chain(on[w])
  BY <1>3, ChainWindsDown
<1> QED
  BY <1>1, <1>2, <1>3 DEF Worker

LEMMA StepWindsDown == IInv /\ IInv' /\ [Next]_vars => BatchWindsDown
<1> SUFFICES ASSUME IInv, IInv', [Next]_vars PROVE BatchWindsDown
  OBVIOUS
<1>1. \A w \in Workers : on[w] \in Nat /\ on'[w] \in Nat
  BY WorkflowsAssumption DEF WorkflowsAssumption, IInv, TypeOK
<1>2. CASE \E w \in Workers : Worker(w)
  BY <1>1, <1>2, WorkersWindDown DEF BatchWindsDown
<1>3. CASE \A w \in Workers : ~Worker(w)
  <2>1. on' = on /\ UNCHANGED <<at, step, left, made, read>>
    BY <1>3 DEF Next, Expire, Return, vars, batch, chain
  <2> QED
    BY <1>1, <1>3, <2>1 DEF BatchWindsDown, Where
<1> QED
  BY <1>2, <1>3

\* A batch cannot go round in circles, for every number of files, steps and workers: what is left
\* of EveryBatchReplies is that somebody with a turn to take takes it.
THEOREM BatchEndsInTime == Spec => [][BatchWindsDown]_vars
<1>1. IInv /\ IInv' /\ [Next]_vars => [BatchWindsDown]_vars
  BY StepWindsDown
<1> QED
  BY <1>1, Invariance, PTL DEF Spec
=============================================================================
