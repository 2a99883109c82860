----------------------------- MODULE ResilientJobs -----------------------------
(***************************************************************************)
(* createResilientJobStore (db/job-store.ts): the Postgres job store with  *)
(* an in-memory one behind it, as runPipeline uses the pair.               *)
(*                                                                         *)
(* A connection error diverts the call to the memory store and, for a      *)
(* while, every call of every run.  The two stores share no rows and no    *)
(* ids, so a run may create its row in one and update it in the other.     *)
(* The calls a run makes are those of Pipeline.tla, in its order; what     *)
(* happens between them is left out, and so are the removals of rows.      *)
(***************************************************************************)
EXTENDS Naturals

CONSTANT Runs   \* calls of runPipeline, sharing one store

VARIABLES
  rows,      \* [Stores -> [Runs -> status of the run's row in that store, or "none"]]
  home,      \* [Runs -> the store that issued the job id the run holds, or "none"]
  degraded,  \* is now() < degradedUntil?
  wire,      \* [Runs -> is a query of the run on its way to Postgres?]
  todo,      \* [Runs -> the call the run makes next, or how it ended]
  verdict,   \* [Runs -> what the tool itself came to]
  diverted,  \* history: [Runs -> was a call of the run answered by the memory store?]
  reunited   \* history: [Runs -> and a later one by Postgres?]

vars == <<rows, home, degraded, wire, todo, verdict, diverted, reunited>>

Stores == {"postgres", "memory"}
Statuses == {"pending", "validating", "processing", "success", "failed"}

\* The calls on the store: "create", one update per status, and the failJob of the catch.
Updates == {"validating", "processing", "success", "failed", "rescue"}
Answers == {"answered ok", "answered failed", "threw"}

TypeOK ==
  /\ rows \in [Stores -> [Runs -> Statuses \union {"none"}]]
  /\ home \in [Runs -> Stores \union {"none"}]
  /\ degraded \in BOOLEAN
  /\ wire \in [Runs -> BOOLEAN]
  /\ todo \in [Runs -> {"create"} \union Updates \union Answers]
  /\ verdict \in [Runs -> {"none", "success", "failed"}]
  /\ diverted \in [Runs -> BOOLEAN]
  /\ reunited \in [Runs -> BOOLEAN]
  /\ \A r \in Runs : home[r] # "none" => rows[home[r]][r] # "none"

Init ==
  /\ rows = [s \in Stores |-> [r \in Runs |-> "none"]]
  /\ home = [r \in Runs |-> "none"]
  /\ degraded = FALSE
  /\ wire = [r \in Runs |-> FALSE]
  /\ todo = [r \in Runs |-> "create"]
  /\ verdict = [r \in Runs |-> "none"]
  /\ diverted = [r \in Runs |-> FALSE]
  /\ reunited = [r \in Runs |-> FALSE]

-----------------------------------------------------------------------------
(* One store, and what the run does with its answer.                        *)

\* Slip: the table forgets that a tool may fail.
ProcessingNeverFails ==
  [pending    |-> {"validating", "failed"},
   validating |-> {"processing", "failed", "success"},
   processing |-> {"success"},
   success    |-> {},
   failed     |-> {}]

AllowedTransitions ==
  [pending    |-> {"validating", "failed"},
   validating |-> {"processing", "failed", "success"},
   processing |-> {"success", "failed"},
   success    |-> {},
   failed     |-> {}]

CanTransition(from, to) == from = to \/ to \in AllowedTransitions[from]

Status(call) == CASE call = "create" -> "pending" [] call = "rescue" -> "failed" [] OTHER -> call

\* A create always works; an update needs the row the run's id names, and a legal transition.
Accepts(s, r) == todo[r] = "create" \/ (home[r] = s /\ CanTransition(rows[s][r], Status(todo[r])))

\* Slip: the new row is returned and not kept.
WriteNothing(s, r) == UNCHANGED rows

Write(s, r) == rows' = [rows EXCEPT ![s][r] = Status(todo[r])]

\* Slip: a validation that fails is answered at once, and its job left as it is.
AfterSparing(r) ==
  CASE todo[r] = "create"     -> {"validating"}
    [] todo[r] = "validating" -> {"processing", "answered failed"}
    [] todo[r] = "processing" -> {"success", "failed"}
    [] todo[r] = "success"    -> {"answered ok"}
    [] OTHER                  -> {"answered failed"}

\* What runPipeline asks of the store after a call that went well.
After(r) ==
  CASE todo[r] = "create"     -> {"validating"}
    [] todo[r] = "validating" -> {"processing", "failed"}
    [] todo[r] = "processing" -> {"success", "failed"}
    [] todo[r] = "success"    -> {"answered ok"}
    [] OTHER                  -> {"answered failed"}

\* "success" and "failed" are asked for when the tool has come to that.
Proceed(r) ==
  \E next \in After(r) :
    /\ todo' = [todo EXCEPT ![r] = next]
    /\ verdict' = IF todo[r] = "processing" THEN [verdict EXCEPT ![r] = next] ELSE verdict

\* The catch of runPipeline fails the job; when that throws as well, so does runPipeline.
Throw(r) ==
  /\ todo' = [todo EXCEPT ![r] = IF todo[r] = "rescue" THEN "threw" ELSE "rescue"]
  /\ UNCHANGED verdict

-----------------------------------------------------------------------------
(* run(op): Postgres unless degraded, memory when it cannot be reached.     *)

Live(r) == todo[r] \notin Answers /\ ~wire[r]

Send(r) ==
  /\ Live(r) /\ ~degraded
  /\ wire' = [wire EXCEPT ![r] = TRUE]
  /\ UNCHANGED <<rows, home, degraded, todo, verdict, diverted, reunited>>

Arrived(r) ==
  /\ wire[r]
  /\ wire' = [wire EXCEPT ![r] = FALSE]
  /\ reunited' = [reunited EXCEPT ![r] = @ \/ diverted[r]]
  /\ UNCHANGED <<degraded, diverted>>

PostgresDoes(r) ==
  /\ Accepts("postgres", r)
  /\ Write("postgres", r)
  /\ home' = IF todo[r] = "create" THEN [home EXCEPT ![r] = "postgres"] ELSE home
  /\ Proceed(r)
  /\ Arrived(r)

\* JobNotFoundError or InvalidJobTransitionError: not a connection error, so the run gets it.
PostgresRefuses(r) ==
  /\ ~Accepts("postgres", r)
  /\ Throw(r)
  /\ Arrived(r)
  /\ UNCHANGED <<rows, home>>

\* Slip: an update the memory store cannot place is an error, as it is in Postgres.
StrictMemoryDoes(r) ==
  /\ IF Accepts("memory", r) THEN Proceed(r) ELSE Throw(r)
  /\ home' = IF todo[r] = "create" THEN [home EXCEPT ![r] = "memory"] ELSE home
  /\ diverted' = [diverted EXCEPT ![r] = TRUE]
  /\ UNCHANGED reunited

\* The memory store reports the patch of a row it never had instead of failing.  The rows it
\* created itself never meet an illegal transition: EveryRunEnds would catch one here.
MemoryDoes(r) ==
  /\ Accepts("memory", r) \/ home[r] = "postgres"
  /\ Proceed(r)
  /\ home' = IF todo[r] = "create" THEN [home EXCEPT ![r] = "memory"] ELSE home
  /\ diverted' = [diverted EXCEPT ![r] = TRUE]
  /\ UNCHANGED reunited

\* What the memory store's rows become, on top of what Postgres may have kept of the lost call.
Divert(r, base) ==
  /\ rows' = IF Accepts("memory", r) THEN [base EXCEPT !["memory"][r] = Status(todo[r])] ELSE base
  /\ MemoryDoes(r)

\* Slip: the call that meets the connection error gets it; only later calls are diverted.
LostThrows(r) ==
  /\ wire[r] /\ todo[r] # "create"
  /\ wire' = [wire EXCEPT ![r] = FALSE]
  /\ degraded' = TRUE
  /\ Throw(r)
  /\ UNCHANGED rows \/ (Accepts("postgres", r) /\ Write("postgres", r))
  /\ UNCHANGED <<home, diverted, reunited>>

\* A connection error, before Postgres did the work or after: the call is retried in memory.
Lost(r) ==
  /\ wire[r]
  /\ wire' = [wire EXCEPT ![r] = FALSE]
  /\ degraded' = TRUE
  /\ \/ Divert(r, rows)
     \/ /\ Accepts("postgres", r)
        /\ Divert(r, [rows EXCEPT !["postgres"][r] = Status(todo[r])])

\* Slip: the calls wait for the window to end.
SkipNothing(r) == FALSE /\ UNCHANGED vars

Skip(r) ==
  /\ Live(r) /\ degraded
  /\ Divert(r, rows)
  /\ UNCHANGED <<degraded, wire>>

\* retryAfterMs have passed.
RetryWindowEnds ==
  /\ degraded
  /\ degraded' = FALSE
  /\ UNCHANGED <<rows, home, wire, todo, verdict, diverted, reunited>>

-----------------------------------------------------------------------------
Call(r) == Send(r) \/ PostgresDoes(r) \/ PostgresRefuses(r) \/ Lost(r) \/ Skip(r)

Next == RetryWindowEnds \/ \E r \in Runs : Call(r)

Spec == Init /\ [][Next]_vars

\* Every query is answered or breaks off.  Nothing says that a database comes back.
FairSpec == Spec /\ \A r \in Runs : WF_vars(Call(r))

-----------------------------------------------------------------------------
(* Properties.                                                              *)

\* However long Postgres is away, and whenever it goes, a tool that did its work is answered "ok":
\* only its coming back while the run is still going can spoil the answer.
OutageAloneIsHarmless ==
  \A r \in Runs : verdict[r] = "success" /\ todo[r] \in {"answered failed", "threw"} => reunited[r]

\* runPipeline throws because of the store only for a row Postgres never had.
ThrowsOnlyForeignRows == \A r \in Runs : todo[r] = "threw" => home[r] = "memory" /\ reunited[r]

\* Once a run is answered, no row of it says the opposite of its answer, in either store.
NoContradiction ==
  \A r \in Runs, s \in Stores :
    /\ todo[r] = "answered ok" => rows[s][r] # "failed"
    /\ todo[r] = "answered failed" => rows[s][r] # "success"

\* A row is closed when its run is answered, unless a call of the run was diverted: an open row
\* left behind in the history always tells of an outage.
OpenRowsTellOfOutages ==
  \A r \in Runs : todo[r] \in Answers /\ ~diverted[r] => rows["postgres"][r] \in {"success", "failed"}

\* Every run is answered, whether or not the database ever comes back.
EveryRunEnds == \A r \in Runs : <>(todo[r] \in Answers)

\* What the comment on the wrapper says: "so an unreachable database never takes the tools down
\* with it".  A tool that did its work is answered "ok".
NeverTakesToolsDown ==
  \A r \in Runs : verdict[r] = "success" => todo[r] \notin {"answered failed", "threw"}
=============================================================================
