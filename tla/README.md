# OneStop, in TLA+

Specifications, model checks and proofs for OneStop: what happens between a
click on a tool and its answer, what runs when nobody clicks, how codes by mail
move an account, and what the browser keeps of a conversation with the
assistant. Paths below are relative to `apps/api/src/` unless they begin
otherwise.

1. [The system](#1-the-system)
2. [Plan](#2-plan)
3. [Modules](#3-modules)
4. [Runs](#4-runs)
5. [Proofs](#5-proofs)
6. [Where the code and its comments part](#6-where-the-code-and-its-comments-part)
7. [What is not modelled](#7-what-is-not-modelled)

## 1. The system

OneStop is one Next.js server: some 290 tools (PDF, images, media, data,
network, ...), each an *executor* in a registry, all run by one function,
`runPipeline`, in the request that asked for them. There is no job queue. Calls
interleave in one Node process at every `await`; files, rows and in-memory maps
are the state they share. Postgres is optional, and its absence or loss must not
stop a tool.

| component | state | operations | interacts with |
|---|---|---|---|
| pipeline (`file-processing/pipeline.ts`) | a call's place, `stored`, `outputs` | `runPipeline` | job store, temp store, progress, executor |
| job store (`file-processing/job.ts`, `db/job-store.ts`) | job rows; `degradedUntil` | create, update (with a transition table), evict | Postgres, or memory |
| temp store (`file-processing/tempStore.ts`) | byte files and sidecars on disk, index in memory, the `ready` promise | put, get, read, delete, sweep, start-up scan | the file system; other instances on the same directory |
| progress (`progress/store.ts`) | one entry per token | set, end | pipeline, executors; the browser polls |
| history (`history/index.ts`) and accounts (`auth/users.ts`) | job and user rows | delete one, clear, delete account | rows of runs in flight |
| schedules and scheduler (`automation/`) | schedule rows, a snapshot per invocation | create, update, delete; tick, kick | `runPipeline`, notifications |
| workflows and batch (`workflows/`) | files carried from step to step, a cursor, results, a progress bar | run a chain; a pool of workers | pipeline, temp store |
| shares, favourites, tokens, QR links | rows with a limit per user | count, then create; revoke; resolve | Postgres |
| codes (`auth/email-change.ts`, `signup-otp.ts`, `reset-tokens.ts`, `account-delete.ts`) | pending rows with attempts and expiry | request, confirm, cancel, consume | Postgres, mail, the routes, the hourly pruning |
| maintenance (`automation/maintenance.ts`) | none of its own | `pruneExpired` | the pending rows |
| assistant (`apps/web/src/components/assistant/`, `lib/assistant-threads.ts`) | chats on the device, the turns of each mounted view, requests in flight | send, run, discard, stop, open, delete, reload | `/api/assistant/*`, the router |
| rate limits (`shared/rate-limit.ts`, `auth/throttle.ts`) | timestamps per key | consume; peek and record | routes |
| rest of the web client (`apps/web/src`) | tool page reducer, connectivity snapshot, service-worker caches | events, probes, polling | the routes |

What is hard in it, and hard to test:

- **Promise.race stops waiting, not working.** An executor that overran goes on
  reporting progress and reading files while its job is failed and its inputs go.
- **Rows disappear under a run**: the owner deletes the history entry or the
  account, or the in-memory store evicts its oldest row. Each later `update`
  throws, the one in the `catch` included.
- **Files are three facts** (bytes, sidecar, index entry) written and removed one
  await at a time, with crashes, failing writes and restarts in between.
- **Two job stores share nothing.** A run may create its row in one and update it
  in the other, and a lost query may have been carried out.
- **The scheduler works from a snapshot** for minutes, while ticks overlap and the
  owner edits.
- **A chain reads back what it wrote**: the outputs of a step may expire or be
  deleted before the next step reads them, one after the other; in a batch this
  happens to some files while the others go on.
- **A confirmation is four queries**: the row it read may have been replaced, used,
  cancelled or pruned by the time it writes, and so may the address it checked.
- **A view of a chat outlives its place on the screen.** Its requests go on, and
  each event saves all the turns it remembers over what is there by now.

What makes each component correct:

- pipeline: every call is answered; the answer, the job row and the files agree;
  inputs are gone before the answer; nothing a late executor or an owner does
  changes a closed job.
- temp store: an issued file is readable until it expires or is deleted; an
  expired one goes, whatever crashed.
- job store: an outage never turns a success into something else, and never
  contradicts what the caller was told.
- scheduler: a due schedule is served; it runs once per planned moment; the
  owner's settings are the owner's.
- workflows: a report says what happened; a failure is its own file's; a batch
  answers every file once, in its place.
- codes and limits: an account moves only after a code from a mailbox it had and
  one from the mailbox it goes to; a limit on wrong codes is overrun by those in
  flight at most.
- assistant: a chat keeps its turns and their answers, and the composer comes back.

`PROJECT.json` lists the hazards at their lines, each with the properties that
cover it or the reason none does.

## 2. Plan

Done, in this order: `ToolRun` and `Pipeline` with their refinement and proofs;
`TempStore`, `ResilientJobs`, `Cadence`, `Scheduler`; then `FileBatch` and
`Workflows` with refinement and proofs, `Accounts`, `Assistant`, and the proofs
about `Scheduler`, `ResilientJobs`, `Accounts`, `Assistant` and `TempStore`; then
the proofs about `Cadence`, `FileStore` and that `TempStore` implements it, and what
does hold where section 6 has a counterexample.

`Workflows` composes with the pipeline by its promise: a call of `runPipeline` is
an answer or a throw, and `Pipeline!EveryCallEnds` is what its fairness rests on.
`Scheduler` extends `Cadence`, and its run checks `computeNextRun` as well.

Left, by what it would add:

1. **Limits**: count-then-create, stated once for the tables that have the form.
2. **Reset links and deletion of an account**: the forms of `Accounts` again.
3. **Several tabs** over the same chats on the device, each with views of its own.

## 3. Modules

Every module follows one rule: **an action is what the code does between two
awaits**, because that is what Node runs without interruption. The label of a
process (`pc`, `at`, `todo`) is the await it is at. Definitions whose comment
begins with "Slip" are wrong variants of an action (a dropped guard, a swapped
order): no specification uses them. They are there so that a reader can put one
in the action's place and see which property notices.

### ToolRun

The abstract specification: a caller, a record and files held meanwhile. A record
is closed once and stays as it was closed; an answer agrees with the record or
the record was removed; no answer leaves while the caller's files are held.

### Pipeline

| model | code |
|---|---|
| `pc` | where the call of `runPipeline` is: `creating` is the `jobs.create`, `begin` the first `update`, `storing` the loop of `temp.put`, `executing` the race, `saving` the loop over outputs, `failing` a `failJob` inside the try, `catching` the one in the catch, `cleanup` the finally |
| `job`, `born`, `backend`, `account` | the row, its age (eviction takes the oldest), which store `getJobStore()` chose, whether the owner's row exists (a foreign key) |
| `temp`, `withdrawn` | what the temp store serves, and what left it by expiry or by `DELETE /api/files/:id` |
| `stored` | the array the finally deletes |
| `executor` | the executor itself: `overrun` once the race gave up, `late` when it returns after that |
| `Throws`, `Catch` | every throw inside the try: an update of a missing row, a `put` that cannot write |
| `DeleteHistory`, `DeleteAccount`, `Withdraw`, `Crash` | the other actors |

A request is four facts: how many files, whether its caller is signed in if need
be, whether it is usable (`checkShape`, `validateUpload`), whether it needs a
network that is off. The temp store is its contract here.

### TempStore and FileStore

`bytes` and `meta` are the disk (a sidecar may be torn: `writeFile` creates it
before filling it), `index` and `boot` the memory of each instance, `scan` what
its `ensureDir` still does about each entry of its one `readdir`. Removals and
purges are two unlinks, each of which may fail silently. A start may also fail to
make its directory (`ListFails`: the store is broken for good), to list it
(`ListUnread`: it counts as empty) or to read a sidecar (`CheckFails`: it counts as
expired, and `misread` remembers it). `Crash` empties a
process's memory and ends its calls wherever they are. Time is the moment a
file's window closes. The sweeper's runs do not overlap in the model; in the
code they could only if one took longer than the interval, and a second removal
of a removed file does nothing.

`FileStore` is what all this promises: an id is returned once, with a file that can
be read; the file goes only once it is doomed (expired, deleted, misread), and does
not come back. `TempStore!KeepsThePromise` maps `used` to the issued ids, `files` to
those whose bytes and sidecar are both whole.

### ResilientJobs

The calls a run makes are those of `Pipeline`, in its order. `wire` says a query
is on its way; `Lost` is the connection error, with the work done or not, and the
retry in memory that follows at once; `Skip` is a call inside the window in which
Postgres is not asked. `home` is the store that issued the id the run holds.

### Cadence and Scheduler

`NextRun` is `computeNextRun` with the calendar's proportions as parameters;
`Fires` is the reference: the moments a cadence names. In `Scheduler` an
invocation begins at any time (interval, kick or another process), reads the due
rows, and for each runs the tool, writes the row from its snapshot and notifies.
The owner creates, edits and deletes rows at any await. An edit is one step,
though the code reads the row before it writes it: the values written are any
values, so a merge with a stale row adds nothing. `served` counts the runs since
the plan was last written.

### FileBatch and Workflows

`FileBatch` is the promise of a batch: an answer per file, given once, in its
place, and a reply that counts them.

| model | code |
|---|---|
| `next`, `on`, `Take` | the cursor of `runBatch` and its workers: `index = next; next += 1` is one step with what precedes the first await of the file |
| `Answer` | the end of `runOne` and `results[index] = ...`, with the worker's next file in the same breath |
| `Return`, `bar` | `Promise.all`, and the count the web route derives for its progress entry |
| `at`, `step`, `left`, `made` | where a file's `runWorkflow` is: in a call of `runPipeline`, or reading outputs back; the groups of `groupsFor` still to call; the outputs so far |
| `EnterStep` | `selectInputs` (those it can read, or all) and `groupsFor` |
| `StepDone`, `Stop`, `CallThrows` | the ends of a step: an empty middle step, a failed call, and a throw, which `runOne` answers without steps |
| `here`, `Expire`, `ReadBack`, `ReadFails` | what the temp store still has of the outputs, and `reload` |

### Accounts

One pending change of address and one sign-up per address, each query a step.

| model | code |
|---|---|
| `Ask`, `CheckFree`, `Pending`, `Put`, `Mail` | `requestEmailChange` / `requestSignupCode`: the account's address, is the new one free, is a row too young, the upsert, and the mail by the route, which takes the row back if the mail fails |
| `Judge` and its three uses | the first query of a confirmation and its verdict on the code: expired, too many, wrong, right |
| `Count` | the increment of the attempts, a query of its own |
| `Advance` | `confirmCurrentEmail` writes the second code to whatever row there is and mails it to the address it read |
| `CheckTaken`, `Move`, `Remove` | the last look, `user.update` / `user.create`, the delete of the row |
| `GoogleSignIn`, `Cancel`, `Expire`, `Prune`, `Stop` | the other actors, time, `pruneExpired`, and a handler whose process stops |

Codes are numbered as they are made. `had` (the addresses the account has had), a
row's `by` (the first code whose confirmation wrote its second one) and what a
handler remembers of a row's `first` and `by` are history, from which the
properties say which codes were entered: `by < first` is a second code written to
a row that a newer request had put in the place of the one that was read.

### Assistant

| model | code |
|---|---|
| `threads`, `stored` | the chats in `localStorage`, each turn by its status |
| `views` | an `AssistantView`: `cur` is `currentIdRef`, `skip` is `skipNextHydrateRef`, `turns` is `turnsRef`, `inFlight` the controller Stop aborts. "left" is a view that a router navigation unmounted while its requests went on |
| `call` | a turn's request: the agent's stream, the rest of it after its answer, the planner it falls back to, a run of a plan |
| `UpdateTurn`, `Save` | `updateTurn`, which saves the whole chat from the view's memory |
| `Send`, `Run`, `Discard`, `Navigate`, `DeleteThread`, `Reload`, `Effect`, `Stop` | the user and the router; `Effect` is the hydration on a change of chat |
| `Step` ... `Breaks` | the events of the stream and its ends |

The rest is history, and names the cases in which the code does lose something,
turn by turn or chat by chat, so that the properties can say that it loses nothing
else. `answered` are the turns the agent answered in their own chat, `broken` those
whose request broke off there; `disputed` the turns that changed while both views
had the chat (each saves it without what the other changed); `mistaken` the chats
that a view entered with the turns of another one; `crossed` is a view with two
calls in flight. `send` saves the list of its render and shows the one of
`turnsRef`; the model has one list, as they differ only between a `setTurns` and
the render it asks for.

## 4. Runs

| run | instance | distinct states | shows |
|---|---|---|---|
| `pipeline` | 2 runs, 2 inputs, 1 output, room for 1 job | 406,688 | the pipeline's safety properties, `KeepsThePromise` (it implements `ToolRun`), `EveryCallEnds` |
| `temp_store` | 1 instance, 3 callers, 1 id, 2 crashes, 1 fault | 231,876 | `KeepsThePromise` (it implements `FileStore`, and so has `IssuedStaysReadable`), `NothingForgotten`, `ExpiredFilesGo` |
| `resilient_jobs` | 2 runs | 23,359 | the six properties of the pair of stores, `EveryRunEnds` among them |
| `scheduler` | 2 invocations, 2 schedules, 1 edit, 1 fault, 3 moments; 2-minute hours, 2-hour days, 3-day weeks | 830,334 | `ExtraRunsHaveReasons`, `OwnerDecides`, `DueIsServed`, `NextRunIsTheNext` |
| `workflows` | 3 files, 2 workers, 2 steps of which the second calls per file, 2 outputs a step | 325,702 | `ReportIsTrue`, `FailuresAreOwn`, `BarNeverFarAhead`, `KeepsThePromise` (it implements `FileBatch`), `EveryBatchReplies` |
| `accounts` | 2 handlers, 3 addresses one of which also signs up, 1 wrong code, 3 codes | 1,425,397 | `GuessesAreBounded`, `MovesAreProved` |
| `assistant` | 2 chats, 2 turns, 1 view left behind | 846,670 | `BusyTurnsCanBeStopped`, `ChatsKeepTheirTurns`, `AnswersAreKept`, `ComposerComesBack` |
| `temp_store_shared` | 2 instances, 2 callers, 1 id | violation | see section 6 |
| `resilient_jobs_back` | 1 run | violation | see section 6 |
| `scheduler_twice` | 2 invocations, no faults | violation | see section 6 |
| `scheduler_edited` | 1 invocation, 1 edit, no faults | violation | see section 6 |
| `accounts_overtaken` | as `accounts` | violation | see section 6 |

**Why the bounds are enough.** Runs of the pipeline meet only in the job store:
two of them and room for one row give eviction in every order; their requests
cover two files, too many files, none, and a refusal for lack of a network.
Ids of the temp store share nothing but the start-up promise and the
sweeper's queue, so one id and three calls on it give every race of a put, a read
and a removal (two ids with two callers and one crash were checked as well:
1,969,649 states);
two crashes let a restart itself be cut short. Runs of `ResilientJobs` share the
window only; two let one open it for the other. Two invocations are the overlap
of ticks; `MaxTime` is two moments of an hourly schedule and one of a weekly one,
`MaxEdits` and `MaxFaults` are spent at any step. In `Scheduler` the clock stops at
`MaxTime`; a plan past it is simply not due. The toy calendar has all the carries
of the real one (minute to hour, hour to day, day to week); `NextRunIsTheNext`
asks `computeNextRun` for the cadence of every row, an hourly or a weekly one, at every
moment of a week (the clock runs through one day of it, and the property adds the
other days), after which its answers repeat themselves. Daily cadences, whose
branch is the weekly one without its weekday, seconds within a minute and any other
calendar are left to `NextRunIsFirst`, which is proved for all of them. Three files
for two workers is the least in which a worker takes a second file while the other is in its first; two steps give a first, a middle
(which may come out empty) and a last one between them, and two outputs a
read-back that fails halfway; they ask for no concurrency and get the default of
two. In `accounts` one request can overtake one
confirmation and a third code still be made; the handlers differ by name only, so
the next request is taken by the first idle one; `MaxAttempts` is 1 so that two
wrong codes in flight meet the limit; the age of a row is not kept, so a request
may be refused or not as if the resend window could be anything. In `assistant`
two turns and two chats give a send beside a running turn, an answer after a
change of chat, and a view left behind that writes over a newer turn; one view is
left behind at a time, and a turn has one request at a time.

**Deadlock** is not checked where the system may stop: in `pipeline` and
`resilient_jobs` every call ends and, in the model, no more come; in `workflows` the batch has replied; in `accounts` the codes are spent.

**Fairness.** Weak, and only where something outside is bound to happen: the
event loop resumes a call whose await has settled; file operations and queries
settle, well or badly; the timer of the race fires (`TimeOut`, which is why
`EveryCallEnds` holds for an executor that hangs); intervals fire. No fairness is
given to executors, callers, the owner, the clock or the return of a database.
In `Pipeline` it is one weak fairness per call (some step of it, whichever), in
`Scheduler` one per invocation, which rests on `EveryCallEnds` for the runs it
awaits, as does `DueIsServed`: faults are bounded, so in the end a tick finishes.
`TempStore` has it per process, and its sweeper and start-up scan. `Workflows` has
it per worker and for the return, which rests on `EveryCallEnds` once more;
`Accounts` has none; `Assistant` for the two timers and for the
answer of a run (`runTurn` has no timer, and the route's call ends), not for the
stream, the user or the router.

## 5. Proofs

`PipelineProofs` proves about `Pipeline`, for any set of runs, any requests and
any limits, from `PipelineAssumption` alone (finitely many runs; the limits are
numbers, room for at least one job):

- `TypeCorrect`: `Spec => []TypeOK`.
- `Invariance`: `Spec => []IInv`. The invariants the runs check are not inductive
  by themselves: that no answered call has an open job needs to know which row a
  call can have at each place. `IInv` adds exactly that: `JobPhase` (the row's
  status, from the place), `OutcomePhase` (the outcome, from place and row),
  `FilePhase` (which inputs exist and who still deletes them), `ExecutorPhase`
  (the race is on exactly while the call executes).
- `JobsAreClosed`, `ThrowsAreMissingJobs`, `InputsLeave` follow from `IInv`.
- `BarsEnd`: its property is inductive once `IInv` holds.
- `InputsStay`, `ResultsStay` need two more parts, `StoredPhase` (the inputs stored
  so far are numbered without gaps, and each is in `temp` or `withdrawn` until the
  cleanup) and `OutputPhase` (likewise for what is saved, for good).
- `Refinement`: `Spec => Promise!Spec`. Each action maps to an action of `ToolRun`
  or to a stutter, under `IInv`; an eviction is an `Open` that forgets others, a
  crash is `Die`.
- `CallsEndInTime`: every turn of a call takes it to a later place, or leaves its
  loop fewer files to store, save or delete, and nothing else sets it back.

`WorkflowsProofs` proves about `Workflows`, for any number of files, steps, workers
and outputs, from `WorkflowsAssumption`: `TypeCorrect`, `ReportsAreTrue`,
`FailuresStayOwn`, `BarStays` (for a batch with a file in it; an empty one has no
workers to be ahead by) and `Refinement`, `Spec => Promise!Spec` with `FileBatch`.
Its `IInv` adds `ChainPhase`, what the report of a chain in flight says, without
which nothing is known of it when it stops, and `CursorPhase`: a file is past the
cursor, or of exactly one worker, or answered. The last part gives "no answer is
overwritten" and "nobody is forgotten when all workers are home"; with the
cardinality of a function's image, it also gives the bar's bound.
`BatchEndsInTime`: workers never turn back, a chain only goes forward, and every turn
of a worker takes it to a later file or its file closer to its end.

`CadenceProofs` proves about `computeNextRun`, for every calendar
(`CadenceAssumption`), cadence and moment, that it returns the first moment of the
cadence after the given one (`NextRunIsFirst`), and so `NextRunIsTheNext`
in every state of `Scheduler` (`NextRunStaysTheNext` in `SchedulerProofs`). The
moments of a cadence are those with one remainder modulo its period (`Fires`); a
number with that remainder, later than the moment and no more than a period later is therefore the first, and
the only one, and what is left is that each branch of the code returns such a number.

`SchedulerProofs` proves about `Scheduler`, for any calendar, schedules,
invocations and bounds, from `CadenceAssumption` and `SchedulerAssumption`:
`TypeCorrect`, `ExtraRunsAreFew` and `OwnersDecide`. Two more say what is left where
section 6 has a counterexample: `PlansStayOnCadence` (if no schedule changes its
cadence while an invocation has it in hand, every plan is a moment of its cadence)
and `AloneRunsOnce` (one invocation without faults runs each planned moment once). `ExtraRunsHaveReasons` is not inductive: its `IInv` counts, while
a row is there, the runs since its plan was written against the invocations that
have it in hand (`RunsCounted`), with one batch of them per fault; and once it is
deleted, against those whose snapshot still holds it.

`ResilientJobsProofs` proves about `ResilientJobs`, for any number of runs and from
no assumption, all its safety properties. Its `IInv` is one predicate on a run
(`Fits`): its row in the store that issued its id has `Reached` what the next call
builds on, unless a call was diverted.

`AccountsProofs` proves about `Accounts`, for any handlers, addresses and codes,
from `AccountsAssumption`: `TypeCorrect`, `GuessesStayFew`, `MovesStayProved`. The
first count is `Guesses`: the wrong codes on record and those still to be counted,
together. The moves need that a code is on its way once and delivered once
(`MailedOnce`); that a first code goes to an address the account has had and a second
one to where the row says, unless the code whose confirmation wrote it is older than
the row (`RowsFit`); and that what a handler has read is in keeping with that
(`Fits`).

`AssistantProofs` proves about `Assistant`, for any chats and requests, from
`AssistantAssumption`: `TypeCorrect`, `BusyTurnsStayStoppable`, `TurnsStay`,
`AnswersStay`. Its `IInv` says that the mounted view is where its effect left it or
waits for its own echo (`ViewPhase`); that every copy of a chat, on the device
(`ChatPhase`) or in a view (`ScreenPhase`), has exactly the turns asked in it and not
discarded, answered ones with their answer, up to the disputed ones, without which a
save could take anything away; and that a turn the agent may still answer, or has
answered, has a plan nowhere (`PlanPhase`), so that no run and no discard reaches an
answered turn.

`TempStoreProofs` proves about `TempStore`, from `TempStoreAssumption` and for any
calls, files, crashes and faults:

- for any number of instances, `TypeCorrect`;
- for any number of instances of which none starts while another is putting
  (`QuietStarts`, which one instance satisfies by itself), `SharedRefinement`
  (`KeepsThePromise`), `SharedFilesStay` (`IssuedStaysReadable`) and
  `ReadsMissDoomed` (a read misses doomed files only). So a start beside a put is all
  there is to the counterexample of `temp_store_shared`;
- for one instance, `Refinement`, `IssuedStays`, `NothingIsForgotten` and
  `ReadableStartsSpare` (every file inside its window survives a restart that can
  read the sidecars).

Why: puts write in a booted store only and a start scans before that (`BootPhase`), a
put has its id to itself until it returns it (`PutPhase`, `IssuedPhase`), and a
removal has a reason (`RemovePhase`): with `TInv`, that is `SharedInv`. That nothing is
forgotten needs moreover that what is half removed is half gone or failed to go,
and that what a start has not dealt with yet is still in its list (`LeftPhase`). In
the refinement `WriteMeta` is `Put`, or `PutLate` if the window closed meanwhile; each
removal is a `Drop` or a stutter; what dooms a file is a `Doom`.

**Only model-checked**: everything under fairness (`EveryCallEnds`, `ExpiredFilesGo`,
`EveryRunEnds`, `DueIsServed`, `EveryBatchReplies`, `ComposerComesBack`):
liveness and ENABLED are outside what the prover does here, as is induction over
data. `CallsEndInTime` and `BatchEndsInTime` are the half of `EveryCallEnds` and
`EveryBatchReplies` that needs neither: a call or a batch has finitely many turns to
take, and that it takes them is left to the runs. Every safety property of the
passing runs is a theorem.

## 6. Where the code and its comments part

Five runs end in a counterexample, because what they check is what a comment says
and not what the code does.

- `temp_store_shared`: `get` counts on other instances writing to the directory
  (tempStore.ts:172), and `ensureDir` deletes what such an instance is in the
  middle of writing (tempStore.ts:109-113). With one instance the property holds
  (`temp_store`), and with several as long as none starts beside a put
  (`SharedFilesStay`).
- `resilient_jobs_back`: "an unreachable database never takes the tools down"
  (db/job-store.ts:118). It does when it comes back: a run whose `create` was
  diverted has its row and its id in memory, and once the retry window ends its next
  update goes to Postgres, which has no such row; `runPipeline` throws. While it
  stays away, nothing is lost (`OutageAloneIsHarmless`).
- `scheduler_twice`: "just runs once at the next check"
  (automation/schedule.ts:70). A row stays due until its run is over; a tick or a
  kick meanwhile runs it again. `ExtraRunsHaveReasons` is what does hold, and one
  invocation at a time does run it once (`AloneRunsOnce`).
- `scheduler_edited`: the next run is computed from the cadence before the run and
  overwrites the plan of an edit made during it. Without such an edit, plans are on
  their cadence (`PlansStayOnCadence`).
- `accounts_overtaken`: "the address only changes once both have been entered"
  (auth/email-change.ts:4-7). `confirmCurrentEmail` reads the pending row and writes
  the second code to the row there is by then; when a new request has replaced it in
  between (it may, 30 seconds after the first), the code is mailed to the old
  request's address and moves the account to the new one's, whose mailbox never got
  a code. `MovesAreProved` is what does hold: a first code is always entered, and so
  is the new address's own, but for that case.

Smaller ones, visible in the properties' wording: `runPipeline` "throws only for
programming errors" (pipeline.ts:173-176), and throws for a row that is gone
(`ThrowsOnlyWithoutJob`); outputs stay "until they are downloaded"
(pipeline.ts:374), and a download does not delete them; "a sweeper deletes
anything past its expiry" (tempStore.ts:7-9), and a file whose unlink failed waits
for the next start (`NothingForgotten`); a result inside its window "survives a
process restart" (tempStore.ts:10-14), and goes, bytes and all, if that start
cannot read its sidecar, say for too many open files: it opens all at once
(`misread`; `SurvivesRestarts` in `TempStoreProofs` is the promise, and
`ReadableStartsSpare` what holds of it); rows of a run cut short by a crash stay
open for ever (`NoOpenJobAfterAnswer` says `dead`).

Met while modelling the later parts, and kept in the models as they are:

- Workflows: the web route reads `Number(form.get("concurrency"))`, which is 0 when
  the field is missing, and a finite 0 is clamped to one worker: the default of two
  never applies there. The bar counts a file by its position, so it may overstate
  (`BarNeverFarAhead` says by how much) and step back. `runWorkflow` lets a throw of
  `runPipeline` through, and the batch then answers without steps (`ReportIsTrue`
  says `unsaid`).
- Accounts: a second click on the last confirmation is told that the address is
  taken, though the change succeeded. Unique violations and rows gone under an
  update are not caught.
- Assistant: `skipNextHydrateRef` is one flag for "the prop change that follows"
  (AssistantView.tsx:528), and "every other change of `threadId`" is to reload the
  turns (532-534). A change of chat that gets there before the echo is taken for it:
  the view enters the chat with the turns of another one and saves them there
  (`mistaken`; `ChatsKeepTheirTurns` fails without that exception). Two views of one
  chat save their older turns over each other's newer ones, or bring a discarded one
  back (`disputed`). Changing chat during a turn loses its answer to the screen, and a
  later look shows it as interrupted, though its work may have been done. A
  connection that breaks after the answer turns it into a failure (`broken`). Stop
  reaches the last request only, and Run may start one beside another (`crossed`). A
  run has no timeout.

## 7. What is not modelled

- The executors and the Python processors: pure conversions and calls of outside
  programs. To a run they return, throw or hang.
- What a byte, a name or a message is: validation is a Boolean.
- Limits, shares, favourites, tokens, QR links: single rows, with a count before a
  create; reset links and the deletion of an account have the form of `Accounts`.
- Of workflows: the editor's rows, names and the validation of a chain, which is a
  Boolean here. Of accounts: passwords, profiles, the throttle.
- Of the assistant: what the agent does on the server, titles, pins, the caps on
  chats and turns, the actions a turn asks of the page, a second tab, blocked
  storage.
- The tool page's reducer, the connectivity monitor, the service worker: one actor
  each.
- The tool registry, the AI planner, UI, launcher: data, text matching,
  presentation. With the executors these are by far most of the repository's
  lines, which is why the models stand for a small share of them.
- `dispose` of the temp store, `delete` and `clear` of the job stores: only tests
  call them. The sweep of progress entries ten minutes old: it removes what nobody
  polls any more.
