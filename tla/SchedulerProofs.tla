---------------------------- MODULE SchedulerProofs ----------------------------
(***************************************************************************)
(* Proofs about Scheduler, for any calendar, any number of schedules and   *)
(* of invocations under way at once.                                       *)
(*                                                                         *)
(* The count behind ExtraRunsHaveReasons: as long as a row is there, each  *)
(* run since its plan was written is one still under way, or one of the at *)
(* most |Invocations| that a fault has cut short; once it is deleted, only *)
(* the invocations whose snapshot still holds it can run it once more.     *)
(***************************************************************************)
EXTENDS Scheduler, CadenceProofs, FiniteSetTheorems, TLAPS

-----------------------------------------------------------------------------
(* The calendar.                                                            *)

\* computeNextRun names a moment that is still to come, whatever the calendar.
LEMMA NextRunIsLater ==
  ASSUME NEW c \in Cadences, NEW t \in Nat
  PROVE  NextRun(c, t) \in Nat /\ NextRun(c, t) > t
BY NextRunIsFirst DEF IsNext

-----------------------------------------------------------------------------
(* The inductive invariant.                                                 *)

\* The invocations at whose hands s is being run, and those that may still take it.
Running(s) == {w \in Invocations : pc[w] = "running" /\ hand[w].id = s}
Waiting(s) == {w \in Invocations : \E x \in due[w] : x.id = s}

K == Cardinality(Invocations)

\* A snapshot holds a row once.
OnceEach == \A w \in Invocations : \A x, y \in due[w] : x.id = y.id => x = y

RunsCounted ==
  \A s \in Schedules :
    IF Exists(s) THEN served[s] <= Cardinality(Running(s)) + faults * K
                 ELSE served[s] + Cardinality(Waiting(s)) <= K

IInv == TypeOK /\ OnceEach /\ RunsCounted

LEMMA Counts ==
  /\ IsFiniteSet(Invocations) /\ K \in Nat
  /\ \A S \in SUBSET Invocations : IsFiniteSet(S) /\ Cardinality(S) \in Nat /\ Cardinality(S) <= K
BY SchedulerAssumption, FS_Subset, FS_CardinalityType DEF SchedulerAssumption, K

LEMMA CountsGrow ==
  ASSUME NEW S \in SUBSET Invocations, NEW T \in SUBSET Invocations, S \subseteq T
  PROVE  Cardinality(S) <= Cardinality(T)
BY Counts, FS_Subset

LEMMA PlansAreRows ==
  ASSUME clock \in Nat, NEW c \in Chosen, NEW b \in BOOLEAN
  PROVE  Planned(c, b) \in Rows
BY NextRunIsLater, SchedulerAssumption DEF SchedulerAssumption, Planned, Rows

LEMMA RowsAreThere ==
  ASSUME NEW r \in Rows
  PROVE  r # NoRow /\ r # Gone
<1>1. r \in [cadence: Cadences, enabled: BOOLEAN, nextRunAt: Nat]
  BY SchedulerAssumption DEF SchedulerAssumption, Rows
<1> QED
  BY <1>1, SchedulerAssumption DEF SchedulerAssumption

LEMMA SnapshotsAreNotNone == NoRow \notin Snapshots
BY SchedulerAssumption DEF SchedulerAssumption, Snapshots

LEMMA InitIInv == Init => IInv
<1> SUFFICES ASSUME Init PROVE IInv
  OBVIOUS
<1>1. 0 \in 0..MaxTime /\ 0 \in 0..MaxEdits /\ 0 \in 0..MaxFaults
  BY SchedulerAssumption DEF SchedulerAssumption
<1>2. row \in [Schedules -> Rows \union {NoRow, Gone}]
  <2>1. {NoRow} \union {Planned(c, TRUE) : c \in Chosen} \subseteq Rows \union {NoRow, Gone}
    BY PlansAreRows DEF Init
  <2> QED
    BY <2>1 DEF Init
<1>3. TypeOK
  BY <1>1, <1>2 DEF Init, TypeOK, Work
<1>4. OnceEach
  BY DEF Init, OnceEach
<1>5. RunsCounted
  <2> SUFFICES ASSUME NEW s \in Schedules
               PROVE  IF Exists(s) THEN served[s] <= Cardinality(Running(s)) + faults * K
                                   ELSE served[s] + Cardinality(Waiting(s)) <= K
    BY DEF RunsCounted
  <2>1. Cardinality(Running(s)) \in Nat /\ Cardinality(Waiting(s)) \in 0..K
    BY Counts DEF Running, Waiting
  <2>2. served[s] = 0 /\ faults = 0 /\ faults * K = 0
    BY Counts DEF Init
  <2> QED
    BY <2>1, <2>2, Counts
<1> QED
  BY <1>3, <1>4, <1>5 DEF IInv

LEMMA StepType == TypeOK /\ [Next]_vars => TypeOK'
<1> SUFFICES ASSUME TypeOK, [Next]_vars PROVE TypeOK'
  OBVIOUS
<1> USE SchedulerAssumption, SnapshotsAreNotNone DEF SchedulerAssumption
<1>1. ASSUME NEW w \in Invocations, Begin(w) PROVE TypeOK'
  BY <1>1 DEF Begin, Goto, TypeOK, Work
<1>2. ASSUME NEW w \in Invocations, FindDue(w) PROVE TypeOK'
  <2>1. {[id |-> s, cadence |-> row[s].cadence] : s \in {q \in Schedules : IsDue(q, from[w])}} \in SUBSET Snapshots
    BY DEF TypeOK, Rows, Snapshots, IsDue, Exists
  <2> QED
    BY <1>2, <2>1 DEF FindDue, Goto, TypeOK, Work
<1>3. ASSUME NEW w \in Invocations, RunTool(w) PROVE TypeOK'
  <2>1. PICK x \in due[w] : /\ due' = [due EXCEPT ![w] = @ \ {x}]
                            /\ hand' = [hand EXCEPT ![w] = x]
                            /\ served' = [served EXCEPT ![x.id] = @ + 1]
    BY <1>3 DEF RunTool
  <2>2. x \in Snapshots /\ x.id \in Schedules /\ x # NoRow
    BY DEF TypeOK, Snapshots
  <2> QED
    BY <1>3, <2>1, <2>2 DEF RunTool, Goto, TypeOK, Work
<1>4. ASSUME NEW w \in Invocations, WriteRow(w) PROVE TypeOK'
  <2>1. hand[w] \in Snapshots
    BY <1>4 DEF WriteRow, TypeOK, Work
  <2>2. hand[w].id \in Schedules /\ hand[w].cadence \in Cadences /\ from[w] \in Nat
    BY <2>1 DEF Snapshots, TypeOK
  <2>3. NextRun(hand[w].cadence, from[w]) \in Nat
    BY <2>2, NextRunIsLater
  <2>4. row[hand[w].id] \in Rows
    BY <1>4, <2>2 DEF WriteRow, Exists, TypeOK
  <2>5. [row[hand[w].id] EXCEPT !.nextRunAt = NextRun(hand[w].cadence, from[w])] \in Rows
    BY <2>3, <2>4 DEF Rows
  <2>6. row' \in [Schedules -> Rows \union {NoRow, Gone}]
    BY <1>4, <2>2, <2>5 DEF WriteRow, TypeOK
  <2> QED
    BY <1>4, <2>2, <2>6 DEF WriteRow, Goto, TypeOK, Work
<1>5. ASSUME NEW w \in Invocations, Notify(w) PROVE TypeOK'
  BY <1>5 DEF Notify, Goto, TypeOK, Work
<1>6. ASSUME NEW w \in Invocations, Return(w) PROVE TypeOK'
  BY <1>6 DEF Return, Goto, TypeOK, Work
<1>7. ASSUME NEW w \in Invocations, Abandon(w), faults' \in 0..MaxFaults PROVE TypeOK'
  BY <1>7 DEF Abandon, Goto, TypeOK, Work
<1>8. ASSUME NEW w \in Invocations, RowIsGone(w) PROVE TypeOK'
  BY <1>7, <1>8 DEF RowIsGone, TypeOK
<1>9. ASSUME NEW w \in Invocations, QueryFails(w) PROVE TypeOK'
  <2>1. Abandon(w) /\ faults' \in 0..MaxFaults
    BY <1>9 DEF QueryFails, Fault, TypeOK
  <2> QED
    BY <1>7, <2>1
<1>10. ASSUME NEW s \in Schedules, NEW r \in Rows \union {Gone}, Edit(s, r) PROVE TypeOK'
  BY <1>10 DEF Edit, TypeOK
<1>11. ASSUME NEW s \in Schedules, CreateSchedule(s) \/ UpdateSchedule(s) \/ DeleteSchedule(s) PROVE TypeOK'
  <2>1. clock \in Nat
    BY DEF TypeOK
  <2> QED
    BY <1>10, <1>11, <2>1, PlansAreRows DEF CreateSchedule, UpdateSchedule, DeleteSchedule
<1>12. CASE TimePasses
  BY <1>12 DEF TimePasses, TypeOK
<1>13. CASE Restart
  BY <1>13 DEF Restart, Fault, TypeOK, Work
<1>14. CASE UNCHANGED vars
  BY <1>14 DEF vars, TypeOK
<1> QED
  BY <1>1, <1>2, <1>3, <1>4, <1>5, <1>6, <1>8, <1>9, <1>11, <1>12, <1>13, <1>14 DEF Next, Invocation

LEMMA StepOnce == TypeOK /\ OnceEach /\ [Next]_vars => OnceEach'
<1> SUFFICES ASSUME TypeOK, OnceEach, [Next]_vars PROVE OnceEach'
  OBVIOUS
<1>1. ASSUME NEW w \in Invocations, FindDue(w) PROVE OnceEach'
  BY <1>1 DEF FindDue, OnceEach, TypeOK
<1>2. ASSUME NEW w \in Invocations, RunTool(w) PROVE OnceEach'
  BY <1>2 DEF RunTool, OnceEach, TypeOK
<1>3. ASSUME NEW w \in Invocations, Abandon(w) PROVE OnceEach'
  BY <1>3 DEF Abandon, OnceEach, TypeOK
<1>4. CASE Restart
  BY <1>4 DEF Restart, OnceEach
<1>5. ASSUME UNCHANGED due PROVE OnceEach'
  BY <1>5 DEF OnceEach
<1>6. ASSUME NEW w \in Invocations, Invocation(w) PROVE OnceEach'
  BY <1>1, <1>2, <1>3, <1>5, <1>6
     DEF Invocation, Begin, WriteRow, Notify, Return, RowIsGone, QueryFails
<1>7. ASSUME NEW s \in Schedules, CreateSchedule(s) \/ UpdateSchedule(s) \/ DeleteSchedule(s) PROVE OnceEach'
  BY <1>5, <1>7 DEF CreateSchedule, UpdateSchedule, DeleteSchedule, Edit
<1> QED
  BY <1>4, <1>5, <1>6, <1>7 DEF Next, TimePasses, vars

\* The count for one schedule.
Counted(s) ==
  IF Exists(s) THEN served[s] <= Cardinality(Running(s)) + faults * K
               ELSE served[s] + Cardinality(Waiting(s)) <= K

\* Nothing that the count of s speaks of has grown.
LEMMA CountStays ==
  ASSUME TypeOK, NEW s \in Schedules, Counted(s), served'[s] = served[s], faults' = faults,
         Exists(s)' <=> Exists(s), Exists(s) => Running(s) \subseteq Running(s)',
         ~Exists(s) => Waiting(s)' \subseteq Waiting(s)
  PROVE  Counted(s)'
<1>1. Running(s) \in SUBSET Invocations /\ Running(s)' \in SUBSET Invocations
      /\ Waiting(s) \in SUBSET Invocations /\ Waiting(s)' \in SUBSET Invocations
  BY DEF Running, Waiting
<1>2. /\ Cardinality(Running(s)) \in Nat /\ Cardinality(Running(s)') \in Nat
      /\ Cardinality(Waiting(s)) \in Nat /\ Cardinality(Waiting(s)') \in Nat
  BY <1>1, Counts
<1>3. K' = K
  BY DEF K
<1>4. faults * K \in Nat /\ served[s] \in Nat /\ K \in Nat
  BY Counts, Products, SchedulerAssumption DEF TypeOK, SchedulerAssumption
<1>5. CASE Exists(s)
  <2>1. Cardinality(Running(s)) <= Cardinality(Running(s)')
    BY <1>1, <1>5, CountsGrow
  <2>2. served[s] <= Cardinality(Running(s)) + faults * K
    BY <1>5 DEF Counted
  <2>3. served'[s] <= Cardinality(Running(s)') + faults' * K'
    BY <1>2, <1>3, <1>4, <2>1, <2>2
  <2> QED
    BY <1>5, <2>3 DEF Counted
<1>6. CASE ~Exists(s)
  <2>1. Cardinality(Waiting(s)') <= Cardinality(Waiting(s))
    BY <1>1, <1>6, CountsGrow
  <2>2. served'[s] + Cardinality(Waiting(s)') <= K'
    BY <1>2, <1>3, <1>4, <1>6, <2>1 DEF Counted
  <2> QED
    BY <1>6, <2>2 DEF Counted
<1> QED
  BY <1>5, <1>6

\* The plan of s is written anew, or the row deleted.
LEMMA CountStarts ==
  ASSUME TypeOK, TypeOK', NEW s \in Schedules, served'[s] = 0
  PROVE  Counted(s)'
<1>1. Running(s)' \in SUBSET Invocations /\ Waiting(s)' \in SUBSET Invocations
  BY DEF Running, Waiting
<1>2. Cardinality(Running(s)') \in Nat /\ Cardinality(Waiting(s)') \in 0..K
  BY <1>1, Counts
<1>3. K' = K
  BY DEF K
<1>4. faults' * K \in Nat /\ K \in Nat
  <2>1. faults' \in Nat /\ K \in Nat
    BY Counts, SchedulerAssumption DEF TypeOK, SchedulerAssumption
  <2> QED
    BY <2>1, Products
<1>5. served'[s] <= Cardinality(Running(s)') + faults' * K'
  BY <1>2, <1>3, <1>4
<1>6. served'[s] + Cardinality(Waiting(s)') <= K'
  BY <1>2, <1>3, <1>4
<1> QED
  BY <1>5, <1>6 DEF Counted

\* A fault allows for every invocation under way.
LEMMA CountFails ==
  ASSUME TypeOK, NEW s \in Schedules, Counted(s), served'[s] = served[s], faults' = faults + 1,
         Exists(s)' <=> Exists(s), Waiting(s)' \subseteq Waiting(s)
  PROVE  Counted(s)'
<1>1. Running(s) \in SUBSET Invocations /\ Running(s)' \in SUBSET Invocations
      /\ Waiting(s) \in SUBSET Invocations /\ Waiting(s)' \in SUBSET Invocations
  BY DEF Running, Waiting
<1>2. /\ Cardinality(Running(s)) \in 0..K /\ Cardinality(Running(s)') \in Nat
      /\ Cardinality(Waiting(s)) \in Nat /\ Cardinality(Waiting(s)') \in Nat
      /\ Cardinality(Waiting(s)') <= Cardinality(Waiting(s))
  BY <1>1, Counts, CountsGrow
<1>3. K' = K
  BY DEF K
<1>4. faults \in Nat /\ served[s] \in Nat /\ K \in Nat
  BY Counts, SchedulerAssumption DEF TypeOK, SchedulerAssumption
<1>5. faults * K \in Nat /\ (faults + 1) * K = faults * K + K
  BY <1>4, Products
<1>6. CASE Exists(s)
  <2>1. served[s] <= Cardinality(Running(s)) + faults * K
    BY <1>6 DEF Counted
  <2>2. served'[s] <= Cardinality(Running(s)') + faults' * K'
    BY <1>2, <1>3, <1>4, <1>5, <2>1
  <2> QED
    BY <1>6, <2>2 DEF Counted
<1>7. CASE ~Exists(s)
  <2>1. served'[s] + Cardinality(Waiting(s)') <= K'
    BY <1>2, <1>3, <1>4, <1>7 DEF Counted
  <2> QED
    BY <1>7, <2>1 DEF Counted
<1> QED
  BY <1>6, <1>7

\* One more run of s: by one more invocation under way, or by one fewer that waits.
LEMMA CountRises ==
  ASSUME TypeOK, NEW s \in Schedules, NEW w \in Invocations, Counted(s),
         served'[s] = served[s] + 1, faults' = faults, Exists(s)' <=> Exists(s),
         w \notin Running(s), Running(s)' = Running(s) \union {w},
         w \in Waiting(s), Waiting(s)' = Waiting(s) \ {w}
  PROVE  Counted(s)'
<1>1. Running(s) \in SUBSET Invocations /\ Waiting(s) \in SUBSET Invocations
  BY DEF Running, Waiting
<1>2. Cardinality(Running(s)) \in Nat /\ Cardinality(Running(s)') = Cardinality(Running(s)) + 1
  BY <1>1, Counts, FS_AddElement
<1>3. Cardinality(Waiting(s)) \in Nat /\ Cardinality(Waiting(s)') = Cardinality(Waiting(s)) - 1
  BY <1>1, Counts, FS_RemoveElement
<1>4. K' = K
  BY DEF K
<1>5. faults * K \in Nat /\ served[s] \in Nat /\ K \in Nat
  BY Counts, Products, SchedulerAssumption DEF TypeOK, SchedulerAssumption
<1>6. CASE Exists(s)
  <2>1. served[s] <= Cardinality(Running(s)) + faults * K
    BY <1>6 DEF Counted
  <2>2. served'[s] <= Cardinality(Running(s)') + faults' * K'
    BY <1>2, <1>4, <1>5, <2>1
  <2> QED
    BY <1>6, <2>2 DEF Counted
<1>7. CASE ~Exists(s)
  <2>1. served'[s] + Cardinality(Waiting(s)') <= K'
    BY <1>3, <1>4, <1>5, <1>7 DEF Counted
  <2> QED
    BY <1>7, <2>1 DEF Counted
<1> QED
  BY <1>6, <1>7

LEMMA StepCounts == IInv /\ [Next]_vars => RunsCounted'
<1> SUFFICES ASSUME IInv, [Next]_vars, NEW s \in Schedules PROVE Counted(s)'
  BY DEF RunsCounted, Counted
<1> USE DEF IInv
<1>0. Counted(s) /\ TypeOK /\ TypeOK'
  BY StepType DEF RunsCounted, Counted
<1>1. ASSUME UNCHANGED <<row, due, served, faults>>, Running(s)' = Running(s) PROVE Counted(s)'
  <2>1. (Exists(s)' <=> Exists(s)) /\ Waiting(s)' = Waiting(s)
    BY <1>1 DEF Exists, Waiting
  <2> QED
    BY <1>0, <1>1, <2>1, CountStays
<1>2. ASSUME NEW w \in Invocations, Begin(w) \/ Notify(w) \/ Return(w) PROVE Counted(s)'
  <2>1. UNCHANGED <<row, due, served, faults>>
    BY <1>2 DEF Begin, Notify, Return
  <2>2. \A v \in Invocations : pc'[v] = "running" /\ hand'[v].id = s <=> pc[v] = "running" /\ hand[v].id = s
    BY <1>0, <1>2 DEF Begin, Notify, Return, Goto, TypeOK
  <2>3. Running(s)' = Running(s)
    BY <2>2 DEF Running
  <2> QED
    BY <1>1, <2>1, <2>3
<1>3. ASSUME NEW w \in Invocations, FindDue(w) PROVE Counted(s)'
  <2>1. UNCHANGED <<row, served, faults, hand>> /\ (Exists(s)' <=> Exists(s))
    BY <1>3 DEF FindDue, Exists
  <2>2. Running(s)' = Running(s)
    BY <1>0, <1>3 DEF FindDue, Goto, TypeOK, Running
  <2>3. ASSUME ~Exists(s) PROVE Waiting(s)' \subseteq Waiting(s)
    <3>1. \A x \in due'[w] : x.id # s
      BY <1>0, <1>3, <2>3 DEF FindDue, TypeOK, IsDue
    <3>2. \A v \in Invocations \ {w} : due'[v] = due[v]
      BY <1>0, <1>3 DEF FindDue, TypeOK
    <3> QED
      BY <3>1, <3>2 DEF Waiting
  <2> QED
    BY <1>0, <2>1, <2>2, <2>3, CountStays
<1>4. ASSUME NEW w \in Invocations, RunTool(w) PROVE Counted(s)'
  <2>1. PICK x \in due[w] : /\ due' = [due EXCEPT ![w] = @ \ {x}]
                            /\ hand' = [hand EXCEPT ![w] = x]
                            /\ served' = [served EXCEPT ![x.id] = @ + 1]
    BY <1>4 DEF RunTool
  <2>2. /\ pc[w] = "looping" /\ pc' = [pc EXCEPT ![w] = "running"] /\ faults' = faults
        /\ (Exists(s)' <=> Exists(s))
    BY <1>4 DEF RunTool, Goto, Exists
  <2>3. /\ hand'[w] = x /\ pc'[w] = "running" /\ due'[w] = due[w] \ {x}
        /\ \A v \in Invocations \ {w} : hand'[v] = hand[v] /\ pc'[v] = pc[v] /\ due'[v] = due[v]
    BY <1>0, <2>1, <2>2 DEF TypeOK
  <2>4. x.id \in Schedules
    BY <1>0 DEF TypeOK, Snapshots
  <2>5. CASE x.id = s
    <3>1. served'[s] = served[s] + 1
      BY <1>0, <2>1, <2>5 DEF TypeOK
    <3>2. w \notin Running(s) /\ Running(s)' = Running(s) \union {w}
      BY <2>2, <2>3, <2>5 DEF Running
    <3>3. w \in Waiting(s)
      BY <2>5 DEF Waiting
    <3>4. \A y \in due[w] : y.id = s => y = x
      BY <2>5 DEF OnceEach
    <3>5. Waiting(s)' = Waiting(s) \ {w}
      BY <2>3, <3>4 DEF Waiting
    <3> QED
      BY <1>0, <2>2, <3>1, <3>2, <3>3, <3>5, CountRises
  <2>6. CASE x.id # s
    <3>1. served'[s] = served[s]
      BY <1>0, <2>1, <2>4, <2>6 DEF TypeOK
    <3>2. Running(s)' = Running(s)
      BY <2>2, <2>3, <2>6 DEF Running
    <3>3. Waiting(s)' = Waiting(s)
      BY <2>3, <2>6 DEF Waiting
    <3> QED
      BY <1>0, <2>2, <3>1, <3>2, <3>3, CountStays
  <2> QED
    BY <2>5, <2>6
<1>5. ASSUME NEW w \in Invocations, WriteRow(w) PROVE Counted(s)'
  <2>1. hand[w].id \in Schedules
    BY <1>0, <1>5 DEF WriteRow, TypeOK, Work, Snapshots
  <2>2. CASE hand[w].id = s
    BY <1>0, <1>5, <2>2, CountStarts DEF WriteRow, TypeOK
  <2>3. CASE hand[w].id # s
    <3>1. row'[s] = row[s] /\ served'[s] = served[s] /\ faults' = faults
      BY <1>0, <1>5, <2>1, <2>3 DEF WriteRow, TypeOK
    <3>2. Running(s)' = Running(s) /\ Waiting(s)' = Waiting(s)
      BY <1>0, <1>5, <2>3 DEF WriteRow, Goto, TypeOK, Running, Waiting
    <3> QED
      BY <1>0, <3>1, <3>2, CountStays DEF Exists
  <2> QED
    BY <2>2, <2>3
<1>6. ASSUME NEW w \in Invocations, Abandon(w)
      PROVE  /\ served' = served /\ (Exists(s)' <=> Exists(s)) /\ Waiting(s)' \subseteq Waiting(s)
             /\ \A v \in Invocations \ {w} : pc'[v] = pc[v] /\ hand'[v] = hand[v]
  BY <1>0, <1>6 DEF Abandon, Goto, Exists, Waiting, TypeOK
<1>7. ASSUME NEW w \in Invocations, RowIsGone(w) PROVE Counted(s)'
  <2>1. Abandon(w) /\ faults' = faults /\ ~Exists(hand[w].id)
    BY <1>7 DEF RowIsGone
  <2>2. Exists(s) => Running(s) \subseteq Running(s)'
    BY <1>6, <2>1 DEF Running
  <2> QED
    BY <1>0, <1>6, <2>1, <2>2, CountStays
<1>8. ASSUME NEW w \in Invocations, QueryFails(w) PROVE Counted(s)'
  <2>1. Abandon(w) /\ faults' = faults + 1
    BY <1>8 DEF QueryFails, Fault
  <2> QED
    BY <1>0, <1>6, <2>1, CountFails
<1>9. ASSUME NEW q \in Schedules, NEW r, Edit(q, r) PROVE Counted(s)'
  <2>1. CASE q = s
    BY <1>0, <1>9, <2>1, CountStarts DEF Edit, TypeOK
  <2>2. CASE q # s
    <3>1. row'[s] = row[s] /\ served'[s] = served[s] /\ UNCHANGED <<pc, hand, due, faults>>
      BY <1>0, <1>9, <2>2 DEF Edit, TypeOK
    <3>2. Running(s)' = Running(s) /\ Waiting(s)' = Waiting(s)
      BY <3>1 DEF Running, Waiting
    <3> QED
      BY <1>0, <3>1, <3>2, CountStays DEF Exists
  <2> QED
    BY <2>1, <2>2
<1>10. ASSUME NEW q \in Schedules, CreateSchedule(q) \/ UpdateSchedule(q) \/ DeleteSchedule(q) PROVE Counted(s)'
  BY <1>9, <1>10 DEF CreateSchedule, UpdateSchedule, DeleteSchedule
<1>11. CASE Restart
  <2>1. served' = served /\ faults' = faults + 1 /\ (Exists(s)' <=> Exists(s)) /\ Waiting(s)' \subseteq Waiting(s)
    BY <1>11 DEF Restart, Fault, Exists, Waiting
  <2> QED
    BY <1>0, <2>1, CountFails
<1>12. CASE TimePasses \/ UNCHANGED vars
  BY <1>1, <1>12 DEF TimePasses, vars, Running
<1> QED
  BY <1>2, <1>3, <1>4, <1>5, <1>7, <1>8, <1>10, <1>11, <1>12 DEF Next, Invocation

\* IInv holds throughout.
THEOREM Invariance == Spec => []IInv
<1>1. IInv /\ [Next]_vars => IInv'
  BY StepType, StepOnce, StepCounts DEF IInv
<1> QED
  BY <1>1, InitIInv, PTL DEF Spec

-----------------------------------------------------------------------------
(* What the runs check, for any calendar and any instance.                  *)

\* Every variable keeps its type, and an invocation holds a row exactly while it works on one.
THEOREM TypeCorrect == Spec => []TypeOK
<1> QED
  BY Invariance, PTL DEF IInv

\* However many ticks and kicks of runDueSchedules overlap, a schedule runs no more often for one
\* planned moment than there are invocations, and faults to cut them short.
THEOREM ExtraRunsAreFew == Spec => []ExtraRunsHaveReasons
<1>1. IInv => ExtraRunsHaveReasons
  <2> SUFFICES ASSUME IInv, NEW s \in Schedules PROVE served[s] <= Cardinality(Invocations) * (1 + faults)
    BY DEF ExtraRunsHaveReasons
  <2>1. Cardinality(Running(s)) \in 0..K /\ Cardinality(Waiting(s)) \in Nat
    BY Counts DEF Running, Waiting
  <2>2. faults \in Nat /\ K \in Nat /\ served[s] \in Nat
    BY Counts, SchedulerAssumption DEF IInv, TypeOK, SchedulerAssumption
  <2>3. faults * K \in Nat /\ K * (1 + faults) = K + faults * K
    BY <2>2, Products
  <2>4. served[s] <= Cardinality(Running(s)) + faults * K \/ served[s] + Cardinality(Waiting(s)) <= K
    BY DEF IInv, RunsCounted
  <2>5. served[s] <= K * (1 + faults)
    BY <2>1, <2>2, <2>3, <2>4
  <2> QED
    BY <2>5 DEF K
<1> QED
  BY <1>1, Invariance, PTL

LEMMA StepSettings ==
  ASSUME TypeOK, Next, pc' # pc, NEW s \in Schedules
  PROVE  Settings(row'[s]) = Settings(row[s])
<1>1. ASSUME NEW w \in Invocations, WriteRow(w) PROVE Settings(row'[s]) = Settings(row[s])
  <2>1. hand[w] \in Snapshots
    BY <1>1 DEF WriteRow, TypeOK, Work
  <2>2. NextRun(hand[w].cadence, from[w]) \in Nat
    BY <2>1, NextRunIsLater, SchedulerAssumption DEF SchedulerAssumption, Snapshots, TypeOK
  <2>3. CASE hand[w].id = s
    <3>1. row[s] \in Rows /\ row'[s] = [row[s] EXCEPT !.nextRunAt = NextRun(hand[w].cadence, from[w])]
      BY <1>1, <2>3 DEF WriteRow, Exists, TypeOK
    <3>2. row'[s] \in Rows /\ row'[s].cadence = row[s].cadence /\ row'[s].enabled = row[s].enabled
      BY <2>2, <3>1 DEF Rows
    <3> QED
      BY <3>1, <3>2, RowsAreThere DEF Settings
  <2>4. CASE hand[w].id # s
    BY <1>1, <2>4 DEF WriteRow, TypeOK
  <2> QED
    BY <2>3, <2>4
<1>2. ASSUME UNCHANGED row PROVE Settings(row'[s]) = Settings(row[s])
  BY <1>2
<1>3. ASSUME NEW w \in Invocations, Invocation(w) PROVE Settings(row'[s]) = Settings(row[s])
  BY <1>1, <1>2, <1>3
     DEF Invocation, Begin, FindDue, RunTool, Notify, Return, RowIsGone, QueryFails, Abandon
<1>4. ASSUME NEW q \in Schedules, CreateSchedule(q) \/ UpdateSchedule(q) \/ DeleteSchedule(q) PROVE FALSE
  BY <1>4 DEF CreateSchedule, UpdateSchedule, DeleteSchedule, Edit
<1> QED
  BY <1>2, <1>3, <1>4 DEF Next, TimePasses, Restart

\* Whatever an invocation does with its old snapshot, cadence and switch of a schedule, and its
\* being deleted, are as its owner left them.
THEOREM OwnersDecide == Spec => OwnerDecides
<1>1. TypeOK /\ [Next]_vars => [pc' # pc => \A s \in Schedules : Settings(row'[s]) = Settings(row[s])]_vars
  BY StepSettings
<1> QED
  BY <1>1, TypeCorrect, PTL DEF Spec, OwnerDecides

\* Whatever the calendar and however late it gets, computeNextRun has the right answer for every row,
\* at any time of the week to come.
THEOREM NextRunStaysTheNext == Spec => []NextRunIsTheNext
<1>1. TypeOK => NextRunIsTheNext
  <2> SUFFICES ASSUME TypeOK, NEW s \in Schedules, Exists(s), NEW t \in SameTimeThisWeek
               PROVE  IsNext(row[s].cadence, t, NextRun(row[s].cadence, t))
    BY DEF NextRunIsTheNext
  <2>1. row[s].cadence \in Cadences
    BY SchedulerAssumption DEF SchedulerAssumption, TypeOK, Exists, Rows
  <2>2. t \in Nat
    <3>1. PICK d \in 0..DaysPerWeek : t = clock + d * Day
      BY DEF SameTimeThisWeek
    <3>2. d \in Nat /\ clock \in Nat
      BY Units, SchedulerAssumption DEF SchedulerAssumption, TypeOK
    <3>3. d * Day \in Nat
      BY <3>2, Units, Products
    <3> QED
      BY <3>1, <3>2, <3>3
  <2> QED
    BY <2>1, <2>2, NextRunIsFirst
<1> QED
  BY <1>1, TypeCorrect, PTL

-----------------------------------------------------------------------------
(* When the comments of computeNextRun are true.                            *)

\* Some invocation has s in its snapshot, or in hand.
Held(s) == \E w \in Invocations : (hand[w] # NoRow /\ hand[w].id = s) \/ \E x \in due[w] : x.id = s

\* The owner gives no schedule another cadence while an invocation holds it.
EditsSpareRuns ==
  \A s \in Schedules :
    Exists(s) /\ Exists(s)' /\ Held(s) => row'[s].cadence = row[s].cadence

\* A snapshot has the cadence of the row, which has never been made twice.
SnapshotsAgree ==
  \A w \in Invocations : \A x \in due[w] \union {hand[w]} :
    x # NoRow => row[x.id] # NoRow /\ (Exists(x.id) => row[x.id].cadence = x.cadence)

PlanInv == TypeOK /\ SnapshotsAgree /\ PlannedOnCadence

LEMMA PlansFire ==
  ASSUME NEW c \in Cadences, NEW t \in Nat
  PROVE  Fires(c, NextRun(c, t))
BY NextRunIsFirst DEF IsNext

LEMMA InitPlanInv == Init => PlanInv
<1> SUFFICES ASSUME Init PROVE PlanInv
  OBVIOUS
<1>1. TypeOK
  BY InitIInv DEF IInv
<1>2. SnapshotsAgree
  BY DEF Init, SnapshotsAgree
<1>3. PlannedOnCadence
  <2> SUFFICES ASSUME NEW s \in Schedules, Exists(s) PROVE Fires(row[s].cadence, row[s].nextRunAt)
    BY DEF PlannedOnCadence
  <2>1. PICK c \in Chosen : row[s] = Planned(c, TRUE)
    BY DEF Init, Exists
  <2>2. c \in Cadences /\ clock \in Nat
    BY <1>1, SchedulerAssumption DEF SchedulerAssumption, TypeOK
  <2> QED
    BY <2>1, <2>2, PlansFire DEF Planned
<1> QED
  BY <1>1, <1>2, <1>3 DEF PlanInv

\* What a step leaves alone, or takes away, agrees as before.
LEMMA SnapshotsStay ==
  ASSUME SnapshotsAgree, row' = row, NEW w \in Invocations,
         due'[w] \union {hand'[w]} \subseteq due[w] \union {hand[w], NoRow}
  PROVE  \A x \in due'[w] \union {hand'[w]} :
           x # NoRow => row'[x.id] # NoRow /\ (Exists(x.id)' => row'[x.id].cadence = x.cadence)
<1>1. \A x \in due'[w] \union {hand'[w]} : x # NoRow => x \in due[w] \union {hand[w]}
  OBVIOUS
<1> QED
  BY <1>1 DEF SnapshotsAgree, Exists

\* A row that somebody holds keeps its cadence or is deleted.
LEMMA RowsStay ==
  ASSUME TypeOK, SnapshotsAgree, due' = due, hand' = hand,
         \A s \in Schedules : Held(s) /\ row[s] # NoRow =>
           row'[s] = Gone \/ (row'[s] # NoRow /\ Exists(s) /\ row'[s].cadence = row[s].cadence)
  PROVE  SnapshotsAgree'
<1> SUFFICES ASSUME NEW w \in Invocations, NEW x \in due[w] \union {hand[w]}, x # NoRow
             PROVE  row'[x.id] # NoRow /\ (Exists(x.id)' => row'[x.id].cadence = x.cadence)
  BY DEF SnapshotsAgree
<1>1. x.id \in Schedules /\ Held(x.id)
  BY DEF TypeOK, Snapshots, Held
<1>2. row[x.id] # NoRow /\ (Exists(x.id) => row[x.id].cadence = x.cadence)
  BY DEF SnapshotsAgree
<1> QED
  BY <1>1, <1>2, SchedulerAssumption DEF SchedulerAssumption, Exists

LEMMA StepSnapshots ==
  ASSUME TypeOK, TypeOK', SnapshotsAgree, Next, EditsSpareRuns
  PROVE  SnapshotsAgree'
<1>1. ASSUME row' = row,
             \A w \in Invocations : due'[w] \union {hand'[w]} \subseteq due[w] \union {hand[w], NoRow}
      PROVE  SnapshotsAgree'
  BY <1>1, SnapshotsStay DEF SnapshotsAgree
<1>2. ASSUME NEW w \in Invocations, FindDue(w) PROVE SnapshotsAgree'
  <2> SUFFICES ASSUME NEW v \in Invocations, NEW x \in due'[v] \union {hand'[v]}, x # NoRow
               PROVE  row'[x.id] # NoRow /\ (Exists(x.id)' => row'[x.id].cadence = x.cadence)
    BY DEF SnapshotsAgree
  <2>1. row' = row /\ hand' = hand
    BY <1>2 DEF FindDue
  <2>2. CASE x \in due[v] \union {hand[v]}
    BY <2>1, <2>2 DEF SnapshotsAgree, Exists
  <2>3. CASE x \notin due[v] \union {hand[v]}
    <3>1. v = w /\ x \in due'[w]
      BY <1>2, <2>1, <2>3 DEF FindDue, TypeOK
    <3>2. PICK s \in Schedules : Exists(s) /\ x = [id |-> s, cadence |-> row[s].cadence]
      BY <1>2, <3>1 DEF FindDue, TypeOK, IsDue
    <3> QED
      BY <2>1, <3>2 DEF Exists
  <2> QED
    BY <2>2, <2>3
<1>3. ASSUME NEW w \in Invocations, RunTool(w) PROVE SnapshotsAgree'
  BY <1>1, <1>3 DEF RunTool, TypeOK
<1>4. ASSUME NEW w \in Invocations, WriteRow(w) PROVE SnapshotsAgree'
  <2>1. hand[w].id \in Schedules /\ row[hand[w].id] \in Rows
    BY <1>4 DEF WriteRow, Exists, TypeOK, Work, Snapshots
  <2>2. \A s \in Schedules : Exists(s) =>
          row'[s] # NoRow /\ row'[s].cadence = row[s].cadence
    <3> SUFFICES ASSUME NEW s \in Schedules, Exists(s)
                 PROVE  row'[s] # NoRow /\ row'[s].cadence = row[s].cadence
      OBVIOUS
    <3>1. CASE s = hand[w].id
      <4>1. row'[s] = [row[s] EXCEPT !.nextRunAt = NextRun(hand[w].cadence, from[w])]
        BY <1>4, <2>1, <3>1 DEF WriteRow, TypeOK
      <4>2. row'[s].cadence = row[s].cadence
        BY <2>1, <3>1, <4>1 DEF Rows
      <4>3. row'[s] \in Rows
        <5>1. NextRun(hand[w].cadence, from[w]) \in Nat
          BY <1>4, NextRunIsLater, SchedulerAssumption
             DEF SchedulerAssumption, WriteRow, TypeOK, Work, Snapshots
        <5> QED
          BY <2>1, <3>1, <4>1, <5>1 DEF Rows
      <4> QED
        BY <4>2, <4>3, RowsAreThere
    <3>2. CASE s # hand[w].id
      BY <1>4, <3>2 DEF WriteRow, TypeOK, Exists
    <3> QED
      BY <3>1, <3>2
  <2>3. \A s \in Schedules : ~Exists(s) => row'[s] = row[s]
    BY <1>4, <2>1 DEF WriteRow, TypeOK, Exists
  <2>4. due' = due /\ hand' = hand
    BY <1>4 DEF WriteRow
  <2> QED
    BY <2>2, <2>3, <2>4, RowsStay DEF Exists
<1>5. ASSUME NEW w \in Invocations, Notify(w) PROVE SnapshotsAgree'
  BY <1>1, <1>5 DEF Notify, TypeOK
<1>6. ASSUME NEW w \in Invocations, Begin(w) \/ Return(w) PROVE SnapshotsAgree'
  BY <1>1, <1>6 DEF Begin, Return
<1>7. ASSUME NEW w \in Invocations, Abandon(w) PROVE SnapshotsAgree'
  BY <1>1, <1>7 DEF Abandon, TypeOK
<1>8. ASSUME NEW s \in Schedules, CreateSchedule(s) \/ UpdateSchedule(s) \/ DeleteSchedule(s)
      PROVE  SnapshotsAgree'
  <2>1. PICK r : Edit(s, r) /\ (row[s] = NoRow \/ r = Gone \/ (Exists(s) /\ r \in Rows))
    <3>1. clock \in Nat
      BY DEF TypeOK
    <3> QED
      BY <1>8, <3>1, PlansAreRows DEF CreateSchedule, UpdateSchedule, DeleteSchedule
  <2>2. due' = due /\ hand' = hand /\ row'[s] = r /\ \A q \in Schedules \ {s} : row'[q] = row[q]
    BY <2>1 DEF Edit, TypeOK
  <2>3. ASSUME NEW q \in Schedules, Held(q), row[q] # NoRow
        PROVE  row'[q] = Gone \/ (row'[q] # NoRow /\ Exists(q) /\ row'[q].cadence = row[q].cadence)
    BY <2>1, <2>2, <2>3, RowsAreThere DEF EditsSpareRuns, Exists
  <2> QED
    BY <2>2, <2>3, RowsStay
<1>9. CASE TimePasses
  BY <1>1, <1>9 DEF TimePasses
<1>10. CASE Restart
  BY <1>1, <1>10 DEF Restart
<1> QED
  BY <1>2, <1>3, <1>4, <1>5, <1>6, <1>7, <1>8, <1>9, <1>10
     DEF Next, Invocation, RowIsGone, QueryFails

LEMMA StepPlans ==
  ASSUME TypeOK, SnapshotsAgree, PlannedOnCadence, Next
  PROVE  PlannedOnCadence'
<1> SUFFICES ASSUME NEW s \in Schedules, Exists(s)'
             PROVE  Fires(row'[s].cadence, row'[s].nextRunAt)
  BY DEF PlannedOnCadence
<1>1. CASE row'[s] = row[s]
  BY <1>1 DEF PlannedOnCadence, Exists
<1>2. ASSUME NEW w \in Invocations, WriteRow(w), row'[s] # row[s]
      PROVE  Fires(row'[s].cadence, row'[s].nextRunAt)
  <2>1. s = hand[w].id /\ Exists(s) /\ hand[w] \in Snapshots /\ hand[w] # NoRow
    BY <1>2 DEF WriteRow, TypeOK, Work
  <2>2. /\ row[s] \in Rows /\ row'[s] = [row[s] EXCEPT !.nextRunAt = NextRun(hand[w].cadence, from[w])]
    BY <1>2, <2>1 DEF WriteRow, TypeOK, Exists
  <2>3. hand[w].cadence = row[s].cadence
    BY <2>1 DEF SnapshotsAgree
  <2>4. row'[s].cadence = row[s].cadence /\ row'[s].nextRunAt = NextRun(row[s].cadence, from[w])
    BY <2>2, <2>3 DEF Rows
  <2>5. row[s].cadence \in Cadences /\ from[w] \in Nat
    BY <2>2, SchedulerAssumption DEF SchedulerAssumption, Rows, TypeOK
  <2> QED
    BY <2>4, <2>5, PlansFire
<1>3. ASSUME NEW q \in Schedules, CreateSchedule(q) \/ UpdateSchedule(q) \/ DeleteSchedule(q), row'[s] # row[s]
      PROVE  Fires(row'[s].cadence, row'[s].nextRunAt)
  <2>1. s = q /\ row'[s] # Gone
    BY <1>3 DEF CreateSchedule, UpdateSchedule, DeleteSchedule, Edit, TypeOK, Exists
  <2>2. PICK c \in Chosen, b \in BOOLEAN : row'[s] = Planned(c, b)
    BY <1>3, <2>1 DEF CreateSchedule, UpdateSchedule, DeleteSchedule, Edit, TypeOK
  <2>3. c \in Cadences /\ clock \in Nat
    BY SchedulerAssumption DEF SchedulerAssumption, TypeOK
  <2> QED
    BY <2>2, <2>3, PlansFire DEF Planned
<1>4. CASE row' = row
  BY <1>1, <1>4
<1> QED
  BY <1>1, <1>2, <1>3, <1>4
     DEF Next, Invocation, Begin, FindDue, RunTool, Notify, Return, RowIsGone, QueryFails, Abandon,
         TimePasses, Restart

\* As long as the owner gives no schedule another cadence while an invocation of runDueSchedules
\* holds it, every plan is a moment of the schedule's own cadence, whatever else is edited, deleted
\* or fails.  Without that the scheduler_edited run has the counterexample.
THEOREM PlansStayOnCadence == Spec /\ [][EditsSpareRuns]_vars => []PlannedOnCadence
<1>1. PlanInv /\ [Next]_vars /\ [EditsSpareRuns]_vars => PlanInv'
  <2> SUFFICES ASSUME PlanInv, [Next]_vars, [EditsSpareRuns]_vars PROVE PlanInv'
    OBVIOUS
  <2>1. TypeOK'
    BY StepType DEF PlanInv
  <2>2. CASE Next /\ EditsSpareRuns
    BY <2>1, <2>2, StepSnapshots, StepPlans DEF PlanInv
  <2>3. CASE UNCHANGED vars
    BY <2>1, <2>3 DEF vars, PlanInv, SnapshotsAgree, PlannedOnCadence, Exists
  <2> QED
    BY <2>2, <2>3
<1>2. PlanInv => PlannedOnCadence
  BY DEF PlanInv
<1> QED
  BY <1>1, <1>2, InitPlanInv, PTL DEF Spec

\* With one invocation at a time and no fault, a schedule runs once for a planned moment.
THEOREM AloneRunsOnce ==
  ASSUME Cardinality(Invocations) = 1, MaxFaults = 0 PROVE Spec => []RunsOnce
<1>1. TypeOK /\ ExtraRunsHaveReasons => RunsOnce
  <2> SUFFICES ASSUME TypeOK, ExtraRunsHaveReasons, NEW s \in Schedules PROVE served[s] <= 1
    BY DEF RunsOnce
  <2>1. faults = 0 /\ served[s] \in Nat
    BY DEF TypeOK
  <2> QED
    BY <2>1 DEF ExtraRunsHaveReasons
<1> QED
  BY <1>1, TypeCorrect, ExtraRunsAreFew, PTL

=============================================================================
