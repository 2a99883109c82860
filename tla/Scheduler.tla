------------------------------- MODULE Scheduler -------------------------------
(***************************************************************************)
(* The automation scheduler (automation/scheduler.ts, schedule.ts): every  *)
(* minute, and on a kick, an invocation of runDueSchedules reads the rows  *)
(* that are due and works through its snapshot: run the tool, write the    *)
(* row, push a notification.                                               *)
(*                                                                         *)
(* No invocation waits for another, and the owner creates, edits and       *)
(* deletes schedules at any time, so one action is what happens between    *)
(* two awaits.  The run of the tool is Pipeline.tla's; here it takes some  *)
(* time and ends.                                                          *)
(***************************************************************************)
EXTENDS Cadence, FiniteSets

CONSTANTS
  Schedules,    \* rows a user may have
  Chosen,       \* the cadences users choose from, some of Cadences
  Invocations,  \* invocations of runDueSchedules that may be under way at once
  NoRow,        \* no row yet; no row is being worked on
  Gone,         \* the row was deleted: ids are never used again
  MaxTime,      \* bound: the last moment
  MaxEdits,     \* bound: creations, edits and deletions of rows
  MaxFaults     \* bound: failed queries and stops of the process

ASSUME SchedulerAssumption ==
  /\ Chosen \subseteq Cadences
  /\ IsFiniteSet(Invocations)
  /\ NoRow # Gone
  /\ {NoRow, Gone} \cap [cadence: Cadences, enabled: BOOLEAN, nextRunAt: Nat] = {}
  /\ NoRow \notin [id: Schedules, cadence: Cadences]
  /\ {MaxTime, MaxEdits, MaxFaults} \subseteq Nat

VARIABLES
  clock,   \* Date.now()
  row,     \* [Schedules -> the row in the database, NoRow or Gone]
  pc,      \* [Invocations -> the await an invocation is at]
  from,    \* [Invocations -> `now` of runDueSchedules]
  due,     \* [Invocations -> what is left of `due`: ids with the cadence they were read with]
  hand,    \* [Invocations -> the row of `due` the loop is at]
  edits,   \* edits so far
  faults,  \* faults so far
  served   \* history: [Schedules -> runs since the row's nextRunAt was last written]

vars == <<clock, row, pc, from, due, hand, edits, faults, served>>

Rows == [cadence: Chosen, enabled: BOOLEAN, nextRunAt: Nat]
Snapshots == [id: Schedules, cadence: Chosen]

Work == {"running", "notifying"}

TypeOK ==
  /\ clock \in 0..MaxTime
  /\ row \in [Schedules -> Rows \union {NoRow, Gone}]
  /\ pc \in [Invocations -> {"idle", "reading", "looping"} \union Work]
  /\ from \in [Invocations -> 0..MaxTime]
  /\ due \in [Invocations -> SUBSET Snapshots]
  /\ hand \in [Invocations -> Snapshots \union {NoRow}]
  /\ edits \in 0..MaxEdits
  /\ faults \in 0..MaxFaults
  /\ served \in [Schedules -> Nat]
  /\ \A w \in Invocations : from[w] <= clock /\ (hand[w] = NoRow <=> pc[w] \notin Work)

Planned(c, b) == [cadence |-> c, enabled |-> b, nextRunAt |-> NextRun(c, clock)]

\* The server starts with the rows of earlier days, which are on: an edit turns one off.
Init ==
  /\ clock = 0
  /\ row \in [Schedules -> {NoRow} \union {Planned(c, TRUE) : c \in Chosen}]
  /\ pc = [w \in Invocations |-> "idle"]
  /\ from = [w \in Invocations |-> 0]
  /\ due = [w \in Invocations |-> {}]
  /\ hand = [w \in Invocations |-> NoRow]
  /\ edits = 0
  /\ faults = 0
  /\ served = [s \in Schedules |-> 0]

Goto(w, label) == pc' = [pc EXCEPT ![w] = label]

Exists(s) == row[s] \notin {NoRow, Gone}

IsDue(s, at) == Exists(s) /\ row[s].enabled /\ row[s].nextRunAt <= at

-----------------------------------------------------------------------------
(* runDueSchedules.  A tool runs, then its row is written: "running" is both. *)

\* A tick of the interval, or a kick.
Begin(w) ==
  /\ pc[w] = "idle"
  /\ from' = [from EXCEPT ![w] = clock]
  /\ Goto(w, "reading")
  /\ UNCHANGED <<clock, row, due, hand, edits, faults, served>>

FindDue(w) ==
  /\ pc[w] = "reading"
  /\ due' = [due EXCEPT ![w] =
       {[id |-> s, cadence |-> row[s].cadence] : s \in {q \in Schedules : IsDue(q, from[w])}}]
  /\ Goto(w, "looping")
  /\ UNCHANGED <<clock, row, from, hand, edits, faults, served>>

\* The rows come in no particular order.  The tool is started whatever became of the row.
RunTool(w) ==
  /\ pc[w] = "looping"
  /\ \E x \in due[w] :
       /\ due' = [due EXCEPT ![w] = @ \ {x}]
       /\ hand' = [hand EXCEPT ![w] = x]
       /\ served' = [served EXCEPT ![x.id] = @ + 1]
  /\ Goto(w, "running")
  /\ UNCHANGED <<clock, row, from, edits, faults>>

\* Slip: the row is written back as it was read.
WriteWholeRow(w) ==
  /\ pc[w] = "running"
  /\ LET x == hand[w]
     IN  /\ Exists(x.id)
         /\ row' = [row EXCEPT ![x.id] = [cadence   |-> x.cadence,
                                          enabled   |-> TRUE,
                                          nextRunAt |-> NextRun(x.cadence, from[w])]]
         /\ served' = [served EXCEPT ![x.id] = 0]
  /\ Goto(w, "notifying")
  /\ UNCHANGED <<clock, from, due, hand, edits, faults>>

\* Slip: the run is recorded and the next one is not planned.
WriteStatusOnly(w) ==
  /\ pc[w] = "running" /\ Exists(hand[w].id)
  /\ Goto(w, "notifying")
  /\ UNCHANGED <<clock, row, from, due, hand, edits, faults, served>>

\* Slip: the plan that has just been carried out is written again.
WriteOldPlan(w) ==
  /\ pc[w] = "running" /\ Exists(hand[w].id)
  /\ served' = [served EXCEPT ![hand[w].id] = 0]
  /\ Goto(w, "notifying")
  /\ UNCHANGED <<clock, row, from, due, hand, edits, faults>>

\* The run is over, answered or thrown, which decides a status only, and the row is written:
\* nextRunAt comes from the cadence of the snapshot and the `now` of the invocation.
WriteRow(w) ==
  /\ pc[w] = "running"
  /\ LET x == hand[w]
     IN  /\ Exists(x.id)
         /\ row' = [row EXCEPT ![x.id].nextRunAt = NextRun(x.cadence, from[w])]
         /\ served' = [served EXCEPT ![x.id] = 0]
  /\ Goto(w, "notifying")
  /\ UNCHANGED <<clock, from, due, hand, edits, faults>>

Notify(w) ==
  /\ pc[w] = "notifying"
  /\ hand' = [hand EXCEPT ![w] = NoRow]
  /\ Goto(w, "looping")
  /\ UNCHANGED <<clock, row, from, due, edits, faults, served>>

Return(w) ==
  /\ pc[w] = "looping" /\ due[w] = {}
  /\ Goto(w, "idle")
  /\ UNCHANGED <<clock, row, from, due, hand, edits, faults, served>>

\* Slip: the loop variable outlives the call.
AbandonKeepsHand(w) ==
  /\ due' = [due EXCEPT ![w] = {}]
  /\ Goto(w, "idle")
  /\ UNCHANGED <<clock, row, from, hand, edits, served>>

\* The call rejects: what is left of the snapshot is dropped.
Abandon(w) ==
  /\ due' = [due EXCEPT ![w] = {}]
  /\ hand' = [hand EXCEPT ![w] = NoRow]
  /\ Goto(w, "idle")
  /\ UNCHANGED <<clock, row, from, edits, served>>

\* update throws: the row was deleted.  So does the notification, if its owner was.
RowIsGone(w) ==
  /\ pc[w] \in {"running", "notifying"} /\ ~Exists(hand[w].id)
  /\ Abandon(w)
  /\ UNCHANGED faults

Fault == faults < MaxFaults /\ faults' = faults + 1

QueryFails(w) ==
  /\ pc[w] \in {"reading", "running", "notifying"}
  /\ Abandon(w)
  /\ Fault

-----------------------------------------------------------------------------
(* The owner, the clock and the process.                                    *)

Edit(s, r) ==
  /\ edits < MaxEdits
  /\ edits' = edits + 1
  /\ row' = [row EXCEPT ![s] = r]
  /\ served' = [served EXCEPT ![s] = 0]
  /\ UNCHANGED <<clock, pc, from, due, hand, faults>>

CreateSchedule(s) ==
  /\ row[s] = NoRow
  /\ \E c \in Chosen, b \in BOOLEAN : Edit(s, Planned(c, b))

\* Any edit, of the cadence or of `enabled`, plans the next run anew.
UpdateSchedule(s) ==
  /\ Exists(s)
  /\ \E c \in Chosen, b \in BOOLEAN : Edit(s, Planned(c, b))

\* deleteSchedule, or the cascade from its workflow or its user.
DeleteSchedule(s) ==
  /\ Exists(s)
  /\ Edit(s, Gone)

TimePasses ==
  /\ clock < MaxTime
  /\ clock' = clock + 1
  /\ UNCHANGED <<row, pc, from, due, hand, edits, faults, served>>

\* The process stops and is started again.
Restart ==
  /\ \E w \in Invocations : pc[w] # "idle"
  /\ pc' = [w \in Invocations |-> "idle"]
  /\ due' = [w \in Invocations |-> {}]
  /\ hand' = [w \in Invocations |-> NoRow]
  /\ Fault
  /\ UNCHANGED <<clock, row, from, edits, served>>

-----------------------------------------------------------------------------
Invocation(w) ==
  \/ Begin(w) \/ FindDue(w) \/ RunTool(w) \/ WriteRow(w) \/ Notify(w)
  \/ Return(w) \/ RowIsGone(w) \/ QueryFails(w)

Next ==
  \/ \E w \in Invocations : Invocation(w)
  \/ \E s \in Schedules : CreateSchedule(s) \/ UpdateSchedule(s) \/ DeleteSchedule(s)
  \/ TimePasses
  \/ Restart

Spec == Init /\ [][Next]_vars

\* The interval fires, queries are answered or fail, and a tool run ends (Pipeline's EveryCallEnds).
FairSpec == Spec /\ \A w \in Invocations : WF_vars(Invocation(w))

-----------------------------------------------------------------------------
(* Properties.                                                              *)

\* Between two writes of its nextRunAt a schedule runs at most once in every invocation that read
\* it as due, and again only when a fault undid those: no invocation runs it twice, and none that
\* comes after the write runs it for the moment the write has passed.
ExtraRunsHaveReasons == \A s \in Schedules : served[s] <= Cardinality(Invocations) * (1 + faults)

\* The settings of a row, which belong to its owner.
Settings(r) == IF r \in {NoRow, Gone} THEN r ELSE [cadence |-> r.cadence, enabled |-> r.enabled]

\* No step of an invocation changes a cadence, turns a schedule on or off, or brings a deleted one
\* back, however old the snapshot it works from.
OwnerDecides ==
  [][pc' # pc => \A s \in Schedules : Settings(row'[s]) = Settings(row[s])]_vars

\* A schedule that is due is run and planned anew, or its owner changes it: no deletion that ends
\* an invocation early, no failed query and no restart makes a schedule lie there for ever.
DueIsServed == \A s \in Schedules : IsDue(s, clock) ~> ~IsDue(s, clock)

\* What the comment of computeNextRun says: a schedule that was missed "just runs once at the next
\* check".  One run per planned moment, when nothing fails.
RunsOnce == \A s \in Schedules : served[s] <= 1

\* What the same comment says of the cadences ("hourly" fires every hour on `minute`, "daily" once
\* a day at `hour:minute`): the planned moment is one of the schedule's own.
PlannedOnCadence == \A s \in Schedules : Exists(s) => Fires(row[s].cadence, row[s].nextRunAt)

\* The moments of the coming week that are a number of days from now.
SameTimeThisWeek == {clock + d * Day : d \in 0..DaysPerWeek}

\* What computeNextRun promises a schedule, asked now or at this time on any day of the week to come:
\* it names the first moment of its cadence that is still ahead, strictly later than the one it is
\* asked at, even at the very end of an hour, a day or a week, and it skips none.
NextRunIsTheNext ==
  \A s \in Schedules : Exists(s) =>
    \A t \in SameTimeThisWeek : IsNext(row[s].cadence, t, NextRun(row[s].cadence, t))
=============================================================================
