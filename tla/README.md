# ClaRTK in TLA+

TLA+ models of the parts of ClaRTK that keep state and share it: the leased task
queue of the agent-memory service and the lanes that run on it, the runtime API
and the development console's broker, the two web consoles, and the RTK gateway.  Each module is translated from the code it names; TLC
checks small instances, and TLAPS proves nearly all safety properties for every
value of the constants.

## The system

ClaRTK is a monorepo around two PostgreSQL databases, the *development*
database (schemas `agent`, `memory`, `inventory`, `ui`, `preview`) and the
*runtime* database (schemas `rtk`, `ui`, accounts and profiles).

| Component | Code | State it keeps | Operations | What makes it hard |
|---|---|---|---|---|
| Task queue and workers | `services/agent-memory/.../service.py`, migration 0005 | `agent.task`, `agent.task_dependency`, `agent.run`; the claimed row in each worker | enqueue, claim, repair leases, record outcome, manual retry | several workers and HTTP threads, leases with no renewal, workers that die |
| Preference scores | same, `scripts/dev-queue-rebalance.py` | signals, decisions, score | write signal, deduplicated recompute, rebalance | look-then-insert, leased work that has already read |
| Hardware builds | same, migration 0007 | `inventory.build`, `inventory.unit` | start build, four chained tasks, publish to runtime | status written by two transactions per task |
| Hardware deployment runs | same, migration 0010 | run, steps, targets | start, resume, complete a step, cancel, automatic probe | operators and a task act on one run |
| UI reviews and previews | same, migrations 0008 and 0009 | review/preview run, findings, baselines | capture, analyse, review, draft fixes, promote | task side effects against human reviews |
| Suggestions and publication | same and `services/api/src/index.ts`, migration 0004 | observations, suggestions; runtime profile | observe, suggest, review, publish | a saga over two databases and two services |
| Embedding maintenance | same, migration 0002 | chunks, embeddings, jobs | schedule, stage, vectorise, evaluate | periodic work scheduled by every worker |
| Runtime API | `services/api/src/index.ts` | accounts, sessions, tokens, profiles, views | bootstrap, login, edit profile, every route behind a credential | checks and effects in separate transactions; read-merge-write on profiles |
| Dev console broker, HTTP clients | `services/dev-console-api/src/index.ts`, `packages/api-client/src/index.ts` | none | check the caller at the runtime API, pass the request on | an effect in one service, an error from another |
| Dev console page | `apps/dev-console-web/src/App.tsx` | sections, selections, `loading`, the number of the load | loads, retries, ticks, selections, orders | answers in any order, loads dropped while one is in flight |
| Dashboard page | `apps/dashboard-web/src/App.tsx` | page state, drafts, issued token | sign in and out, orders, one refresh behind each | refreshes that overlap, closures over old state |
| RTK gateway | `services/rtk-gateway/src/main.rs` | `ReplayState` behind a mutex, ingest sessions | replay, capture, transport loops | loops and requests on one port |
| Review and preview scripts | `scripts/ui-review-lib.mjs`, `scripts/presentation-preview-*.mjs` | pictures, summaries and reports on disk | capture, analyse, render | exit code 0 after a partial capture |
| NavSpark session | `.../navspark_session.rs` | read buffer | send a command and wait | retries against late answers |
| Native app, contracts, parsers, start-up scripts | see `PROJECT.json` | none, or a cache of answers | | |

Components talk over HTTP (`apiRequest`, `agentMemoryRequest`), through rows of the
shared databases, through `pg_notify` wake-ups (lost ones are covered by a
timeout), and, inside one process, through `Mutex<ReplayState>` or
a pool of four database slots.

What makes each correct, in a sentence: *queue* - one executor per task, every
claim ends in one recorded outcome, prerequisites first, nothing waits for
ever; *scores* - a recompute covers what was written before its claim, unless one that was overtaken wrote last; *builds* - the
status runs at most one stage ahead of what the tasks did and never behind, and a
build that failed stays failed unless its registration was decided without waiting for the
validation; *deployments* - a step that was confirmed or cancelled stays so, and a run that says completed has no
step that was never opened, and none unconfirmed where each confirmation came in its turn; *reviews* - one active baseline, human
decisions survive, nothing incomplete passes; *publication* - what was approved is what the profile
holds, once; *accounts and broker* - no effect without the authority for it, and an
answer that can be believed; *consoles* - what is shown is current in the end and
its lists never go back, and orders are given in the name of who is shown; *gateway* - an ingest session is whole or absent, failures are
counted; *NavSpark* - the answer belongs to the command.

## Modules

| Module | Models | State in the code -> variables |
|---|---|---|
| `TaskLifecycle` | what the queue promises, without workers, leases or clocks (abstract) | `phase`, `tries` |
| `AgentTaskQueue` | `run_worker`, `claim_task`, `requeue_expired_tasks`, `_record_*_task`, `enqueue_agent_task`, `retry_agent_task` | `agent.task` columns -> `status`, `attempts`, `owner`, `lapsed`, `delayed`, `queueOf`; the locals of a worker -> `pc`, `job`, `snap`, `cursor`; advisory lock -> `repairing`; a retry between SELECT and UPDATE -> `retrying` |
| `AgentTaskQueueProofs` | theorems about it | |
| `PreferenceScores` (extends the queue) | signals and decisions, the recomputes they enqueue, their executors (any number of them), `dev-queue-rebalance.py` | signal rows -> `signals` (how many); scorecard -> `score` (how many it covers); locals -> `writing`, `computing`, `seen`, `plan`; history -> `seenAtClaim`, `overtaken`, `stale`, `due` |
| `HardwareBuilds` (extends the queue) | `_create_hardware_build`, the executors of the five hardware tasks, their side effects, `trigger_hardware_runtime_publish` with whichever predecessor it finds; several builds, whose planned units (`UnitsOf`) may overlap (`Contested`) | `inventory.build` -> `buildStatus`, `runtimeDevice`; `inventory.unit` -> `unitStatus`, `holder`; completed deployment -> `deployed`; executor commit before the record -> `executed` |
| `HardwareBuildsProofs` | theorems about it, from those about the queue | |
| `HardwareDeployments` (extends `TaskLifecycle`) | one deployment run: probe task, confirmations, resumes, cancellations | `deployment_run.status` -> `run`; `deployment_step.status` -> `step`; open transactions and the rows they hold -> `tx` |
| `HardwareDeploymentsProofs` | theorems about it | |
| `ReviewScripts` | what the scripts make of their inputs: which pictures a capture takes and what it reports, which findings an analysis makes of it, the outcome, decks and companions of previews | none: pure operators |
| `ReviewRuns` (extends `TaskLifecycle`, `ReviewScripts`) | UI reviews and previews: start, executors with their scripts, records, review of findings, baselines and promotions | `review.ui_run.status` and `review.preview_run.status` -> `run`; which of the two -> `lane`; executor's own transactions -> `at`; the capture's summary on disk and in the row -> `summary`; outcome -> `judged`; `review.ui_finding.status` -> `verdict`; picture file and active row of a checkpoint -> `baseline`; another run's promotion -> `others` |
| `ReviewRunsProofs` | theorems about both | |
| `ProfilePublication` | profile edits, observations, suggestions, reviews and publications over two databases | profile -> `defaults`, `version`; change log -> `changes`; `memory.*` -> `observed`, `suggestion`; a request in progress -> `handler`; `approvals` is history |
| `PreferencesProofs` | theorems about it and about `PreferenceScores` | |
| `RuntimeAccounts` | every route of the runtime API as the sequence of its steps, each a transaction, a request or a check | `auth.account` -> `accounts`, `disabled`; `auth.session` -> `sessions`; `auth.api_token` -> `tokens`; `ui.saved_view` -> `views`; a client's request, with what it has done (`did`) and will answer for (`due`) -> `calls` |
| `ApiClient` | which requests `ApiClient` and `DevConsoleClient` can send | none |
| `DevConsoleBroker` (extends both) | every route of the broker, the client methods no route answers (`Unserved`); the composition of clients, broker and runtime API | none of its own |
| `DevConsoleBrokerProofs` | theorems about clients, broker and runtime API | |
| `ConsoleLoads` | the development console's page: session check, loads, hydration retries, ticks, selections, orders | `consoleLoadInFlight` -> `primary`; other requests and timers -> `pending`; sections -> `shown`; `selectedRunId` and its like -> `selected`, `detail`; `loading`; `...Scheduled` flags -> `retried`, `post`; `document.visibilityState` -> `visible`; the data -> the clock `server` |
| `DashboardPage` | the operators' dashboard: every handler, its order and its refresh | `DashboardState` -> `page`; the forms -> `draft`, `editing`; requests under way -> `orders`, `refreshes`; cookie and sessions -> `cookie`, `sessions`, `over`; the data -> `clock`; what a sign-out leaves in forms and notice -> `leftover`; history -> `shaken`, `issues`, `late` |
| `PagesProofs` | theorems about both pages | |
| `GatewayCaptures` | transport loops and diagnostics requests of the gateway | `ReplayState` -> `status`; open serial ports -> `port`; locked device rows -> `rowLock`; a thread's capture -> `job`; its committed session -> `stored` |
| `GatewayCapturesProofs` | theorems about it | |
| `MC...` | constants for TLC | |

In every module an action is one committed transaction or one step of a process
between transactions.  PostgreSQL runs at READ COMMITTED: a handler that reads,
decides and writes is two actions unless a row lock makes it one.  Operators
marked "Mutant" or "As if" (`ClaimableOrLeased`, `KeepsOldLoads`, ...) are broken variants of the
definition that follows them; nothing refers to them.  They record which bug
each property is there to catch.

Composition: `PreferenceScores` and `HardwareBuilds` extend `AgentTaskQueue`
and conjoin their own changes to its actions, so that leases, repairs and worker
deaths reach the lane.  `HardwareDeployments` and `ReviewRuns` only need what the
queue promises and build on `TaskLifecycle`, which `AgentTaskQueue` is shown to
implement while leases outlive executions (model-checked and proved).  What they show holds under
that condition: a script that outlasts its lease is not covered.
`DevConsoleBroker` composes the runtime API, the broker and the clients: one
request crosses two services, and each hop may fail.  Agent-memory behind them
is what it answers: success, refusal or failure.

### Abstractions of the scripts, consoles and broker

* `ReviewScripts`: a picture is a panel that was reached, what the browser
  reports is a set of categories (`Severity`); texts, layouts and pixels are
  left out.  A script ends with its worker: orphans are not modelled.
* `ConsoleLoads`: a list is the clock of the data it was composed at.  The lists
  a load fills share only that load, so a behaviour watches one slice of the page
  (`watched`) with the session and the primary load; each slice is an initial
  state.  A tick finds the requests before it ended (`Quiet`; ticks are 30 s
  apart): without that no load would ever be the last; and it comes only while the
  page is `visible`.  What a load falls back on is the present state, where the code reads
  `stateRef`, one render behind it (`App.tsx:262`).  Which preview run is preferred when the selected
  one is not listed follows the code (`Preferred`: the newest that is rendered, else the newest begun, else the newest),
  over runs whose state does not change (`Rendered`, `Planned`); the limit of
  twelve runs to a list is left out.
* `DevConsoleBroker`: steps that read and write nothing another request can notice
  are taken first (`MayMove`): every other order ends in the same state.
  `dead`, `roots` and `overlapped` are history.  Disabling an account is
  external, since no route does it.
* `DashboardPage`: forms are filled in as they are submitted; of the three that a
  sign-out does not empty, and of the notice, `leftover` keeps whose they are.  The lists are one clock of the orders that were done, tokens issued included; `shaken`
  remembers that refreshes overlapped or something failed since a refresh last
  started alone; a page is `Settled` when that is not so and no refresh is under way.

## Runs

| Run | Instance | What it shows |
|---|---|---|
| `queue_leases` | chain of two tasks, two mortal workers, two deaths, one retry | executors hold their leases, no task runs twice at a time, attempts are accounted for, dependencies hold, finished tasks change by retries only, `TaskLifecycle` is implemented |
| `queue_overruns` | same tasks, three workers, one death, one lease that lapses under its executor; fair | lease columns agree even then, one executor too many at most per overrun, the queue drains |
| `scores_recompute` | two writers, two workers of which one may die, one attempt for each task, one run of the rebalance tool, a legacy row | a recompute that succeeds covers all that was committed when it was claimed, and a row with a recompute of its own reaches the score, unless the score was written by an executor that another claim overtook |
| `builds_pipeline` | a physical build, two workers of which one may die, a publish request that picks the preparation or the validation as predecessor; fair | status follows tasks from planning to publication, failures stick but for a validation nobody waited for; the registration rests on three recorded stages and on a validation that was recorded or, where it is not the predecessor, attempted; parts are the build's own; every build is validated or given up and every request decided |
| `deployments_steps` | two operators, a worker that may die, the probe and three manual steps, four requests; fair | a completed run has no step that was never opened, and none unconfirmed unless one was confirmed out of its turn or opened before the probe was recorded; running means probing, closed steps stay closed, no transaction waits for ever |
| `publication_saga` | two requests at a time, two patches of which one survives normalisation, two suggestions | change log gapless, only approved patches published, what is marked published is in the log, suggestions have their evidence, updates lost only to overlapping writers |
| `publication_stale` | the same | *violated*: the stale check is overtaken |
| `gateway_captures` | three gateways (receiver pair with fixture; one receiver with caster; NMEA), one request, one fault; fair | sessions whole, status about stored sessions, ports and rows given back, errors healed by the loop, the request thread comes back |
| `reviews_lanes` | a run of either lane of two panels, two lost workers or one manual retry, a promotion of another run; fair | status and tasks tell one story until someone retries, no partial capture passes, the baseline file is the active row's unless promotions overlap, a recorded analysis keeps its verdicts, runs and accepted promotions conclude |
| `broker_requests` | two clients, two requests in all between them (one after the other or at once) out of all that the clients know, two accounts, anybody's credentials, one failing step | sessions, tokens and views have an owner, two bootstrap administrators need two overlapping bootstraps, a dead credential does nothing, an operator does nothing at the broker, refusal means nothing was done and success that all was |
| `console_loads` | a page, two acts (sign-out, sign-in, order, selection, change of the data, or out of view), one fault; fair | `loading` has a reason, sections never go back, a page that stays signed in and in view ends with the present data and the details of its selections |
| `dashboard_page` | an administrator and an operator on one page, three events | the lists, selections, drafts and tokens a sign-out takes away stay away, but for a token whose answer is late; orders of a settled page are in the name of the account shown; a settled page is current, but for tokens issued since |

### Bounds, and why they are enough

`MaxAttempts = 2` is the least for which an attempt can fail without being the
last one.  Every race in the queue is between one executor and one other party
(repairer, second executor, operator), so two workers show it; the third
worker of `queue_overruns` lets the overrun meet a death.  One death reaches each
of the program points; a second one in `queue_leases` lets a repaired task be lost
again.  `Threshold = 2` in `ProfilePublication` separates the first observation
from the one that proposes, and `MaxVersion = 3` leaves room for two changes
that overlap.  `LastStep = 4` instead of 5 keeps a step to find behind
the one that is opened and one behind that; four requests are one more than the manual steps, so
a run can be finished and still be cancelled or resumed.  `ReviewRuns` needs one run and the others' promotion of the same checkpoint,
since runs share no task and no other row; two deaths hit two stages or one
stage twice, two panels let a capture stop at none, one or after both.  A behaviour has either
deaths or a manual retry, and retries concern the stages in `Retriable`: a capture, a
fix draft and a render retried by hand are outside.  In `GatewayCaptures` a capture has at
most two sources, two devices suffice for a lock inversion, and the one request
meets loops that never stop.  In `DevConsoleBroker` `MaxCalls = 2` is one count for
both clients: a request meets one other at any point of both, or follows it.  The
run's `VIEW` keeps of an answered request only what the two invariants about answers say of it: nothing reads the
rest again, and the account behind it keeps its role.  Accounts with
sessions, tokens and views may exist from the start, and sessions expire and accounts are disabled by
themselves, so that one request is left to use, end or add to what the other relies on; three requests that depend on one another are
left to the proofs, which hold for any number.  In `PreferenceScores` every task has one attempt, so that a failed
recompute ends the promise at once; two workers overtake one another, and the third task is a former
release's.  In `HardwareBuilds` a build meets one request of either kind (`MaxRequests = 1`; with the preparation or
with the validation as predecessor: reservation and assembly are recorded by then, as the preparation is) and
one death; several requests, and builds that share units, are left to the proofs.  In `ConsoleLoads` two acts (hiding the page is one, showing it again is free) and a fault meet the
loads that sign-in, its refresh after a second and the ticks start by themselves.  In `DashboardPage`
three events are a sign-in, an order and a sign-out, whose refreshes all may overlap.

`CHECK_DEADLOCK FALSE` appears where the system may stop: in `Deployments_steps` and
`Reviews_lanes` a finished run has nothing left to do once requests,
retries and deaths are used up; in `Console_loads`, `Dashboard_page` and
`Broker_requests` a page or client waits for its user.

### Fairness

* Queue: `WF` for each worker's step (a process loops until it dies; the wait for a
  notification ends by its timeout, `run_worker`), for an accepted retry, and for
  time (leases lapse, backoff ends).  Nothing restarts a dead worker.  An
  outcome is success or failure as it comes; liveness relies on the
  attempt limit, not on success.
* Deployments: `SF` for the second half of a request, since a row lock is granted
  in turn to those who wait, `WF` for the worker.  Operators owe nothing, so a
  run may await confirmation for ever.
* Builds: `WF` for the steps of each worker and for time, as in the
  queue; publish requests owe nothing.
* Reviews: `WF` for the steps of each task: workers poll, a script ends or its
  attempt fails, and the lease of a lost worker is repaired.  Operators owe nothing.
* Gateway: `WF` for threads and loop timers; `SF` for a write that waits for a
  device row.  A lock inversion is broken by PostgreSQL.
* Console page: `WF` for an arrival (a request is answered or fails, a timer fires)
  and for the tick, which a page has only while it is in view.  Users owe nothing, so
  the page may stay hidden for ever.
* `PreferenceScores`, `ProfilePublication`, `DevConsoleBroker` and `DashboardPage`
  state no liveness: requests may die, and the dashboard never polls.

## Theorems

Every theorem holds for all values of the constants that satisfy the named
assumption of the module, which TLC evaluates in each run.  The assumptions are
shapes the code has (a set of patches, an order of priorities, finitely many
workers or accounts, a chain of four tasks); a theorem that needs more states
it as a hypothesis of its own.  All are proved the same way: an inductive invariant,
checked by TLC first, holds initially and is kept by each action; the
property follows from it.

| Module | Invariant | Properties proved | Hypotheses |
|---|---|---|---|
| `AgentTaskQueueProofs` | `TypeOK`, `LeaseColumnsAgree` | the same | none |
| | `QueueInv` | `ExclusiveExecution`, `AttemptsAccounted`, `SettledUntilRetried`, `StartedAfterPrerequisites`, `ImplementsLifecycle`; `FailedTasksExhausted`: a task fails only after its last attempt | `LeasesOutliveExecution`, `RetriesDoNotOverlap` |
| | `StraysInv` | `DuplicatesBounded` | `NobodyRetries` |
| `HardwareBuildsProofs` | `BuildInv` | `StatusMatchesTasks`; the lane implements the queue (no hypotheses) | `LeasesOutliveExecution`, `RetriesDoNotOverlap` |
| | `PartsInv` | `StagesRestOnEarlierOnes` | the same |
| `HardwareDeploymentsProofs` | `DeploymentInv` | types, `RunningMeansProbing`, `ManualStepsFinal`; the run implements `TaskLifecycle` | none |
| | `TurnOK` | `CompletedRunsConfirmed` | none |
| `ReviewRunsProofs` | `ReviewInv` | `StatusTellsTasks`, `JudgedAsCaptured`, `BaselineAsPromoted`, `VerdictsKept`; the lanes implement `TaskLifecycle` | none |
| `PreferencesProofs` | `PublicationInv` | `ChangeLogGapless`, `DatabasesAgree`, `LosesOnlyOverlapping`; `StaleOnlyWhenOverlapped` | none |
| | `RecomputeInv` | `UpsertCoversItsClaim`: an upsert covers what was there at the claim | none |
| | | `SuccessCoversItsClaim` | none |
| `DevConsoleBrokerProofs` | `BrokerInv` | `AccountsSound`, `AuthorityBehindEffects`, `AnswersTellEffects` | none |
| | | `UnservedMethods`: the broker has a route for every request of its client but those of four methods | none |
| `PagesProofs` | `PageInv` | `ListsLeaveWithAccount`, `OrdersInOwnName`, `SettledPageIsCurrent` | none |
| | `ConsoleInv` | `LoadingExplained`, `SectionsNeverGoBack` | none |
| `GatewayCapturesProofs` | `GatewayInv` | `HoldsOnlyWhatItUses`, `SessionsWhole`, `StatusReportsStored` | none |

**Queue.** `ExclusiveExecution` is not inductive: it depends on *why* nobody else claims the
task.  `QueueInv` says so: an executor's task is leased, unexpired, by
that worker and at the attempt it remembers (`ExecutorHoldsLease`), and a retry
that passed its check concerns a finished task (`RetryTargetsSettled`), hence
never one that somebody executes.  Two executors of one task would both be its
owner.  The same invariant makes late outcomes harmless, so that each step
of the queue is one step of `TaskLifecycle` under `phaseOf`, or a stutter.  It also
ties the count an executor reports with to the row: a task is recorded failed only when
its attempts are used up (`FailedTasksExhausted`), so nothing is given up early.  The two
circumstances (no lease lapses while its worker executes; one operator at a time)
cannot be dropped: `DuplicatesBounded` shows what happens without the first,
the first of the observations below what happens without the second.
`DuplicatesBounded` counts the *strays* of a task, executors its lease does not speak
for.  A lease that lapses under its executor makes one and is an overrun;
the repair and the claim that follow find it counted; an outcome that
clears another worker's lease makes one of that worker as its own leaves.  A
manual retry of a task that a stray still executes would break the bound.

**Builds.** Each step of the lane is one of the queue or leaves it alone, so the
queue's theorems carry over.  `Story` says of a build and its tasks that a stage of the pipeline that
was begun has every earlier one recorded behind it, so whatever is executed again was the last to commit.
A registration has three recorded stages behind it and a validation that was at least attempted, since a
request is accepted from the commit of its executor on; it has waited for the validation only if
the request picked it as predecessor (`3340`: four rows with one `created_at`).  Where it has not, the validation may
fail after the registration was decided (`DecidedWithout`) or before, when the record of the registration
overwrites `failed`: the invariant says that nothing else ever does.  `Parts` says what
preparation and reservation leave on the units of a build from the commit of their executor on,
recorded or not.  It speaks of the units no other build was started with
(`OwnUnits`); as builds are started these only become fewer (`OwnUnitsShrink`), and about a unit that is shared
nothing can be said (`5464` writes it without looking).

**Deployments.** The point of `DeploymentInv` is `TxOK`: between its halves a transaction relies on what it
read.  Its own step stays open because it holds the row; if it found no pending
step there is none later, because nothing makes a step pending again; the
worker's task stays active while the worker records it.  That a completed run has no step left
unconfirmed needs the operators' part: `_advance_hardware_deployment` completes a run when nothing is *pending*,
whatever awaits its confirmation.  `outOfTurn` remembers a confirmation of a step that
was not awaiting one (which the code accepts) and a first step opened, by a resume, before the probe was recorded.  While it is
false (`TurnOK`), the step that awaits its confirmation has none open before it, and
a transaction that advances the run opens the first it leaves open.  A cancellation
cannot pull a step from under a confirmation since it waits for all of them.
Every step of the lane moves the probe task as `TaskLifecycle` allows, or not at
all (`DeploymentsFollowLifecycle`); `ReviewsFollowLifecycle` says the same of the
tasks of a review.  With `ImplementsLifecycle` below it, the abstract queue is what
both sides agree on: the queue keeps to it, and the lanes ask no more of it.

**Reviews.** Runs share nothing but the baseline, so the invariant speaks of one run by its
own state.  Until somebody retries by hand, the tasks of the chain succeed in order and the run's status is
that of the stage that began or ended last (`Story`): retries are part of the model and
end this clause, not the rest.  `Judgement` follows what a
capture left on disk into the row and into what the analysis makes of it, through executors that
die between their transactions and are executed again; without it
`JudgedAsCaptured` would not be kept by the analysis.  The theorem on baselines is about
overlaps with `others`: pictures of two runs of the model are not told apart.

**Publication.** A handler acts on what it read.  `RequestOK` says what is still true of it:
the version it read is not later than the present one, and while they are
equal so are the defaults; what was approved stays approved, what was logged stays
logged.  All of it rests on what only grows (`Grows`).  The run `publication_stale`
shows that the stale check does not do what it is there for.  `StaleOnlyWhenOverlapped`
is what it is worth: a publication is loaded at the version its suggestion was made for
(`LoadedOnBase`), so it misses that version only if somebody committed between its
read and its commit.

**Scores.** A recompute is claimed, reads, upserts and reports, one after the other.
`Progress` says of the executor in a worker how far it is, and `ReadsCover` that it has read no fewer
rows than there were at its claim, because rows are never taken back; hence
`UpsertCoversItsClaim`, for any number of workers, deaths and lapsed leases.  What its success says of the score
that is stored is another matter: `_enqueue_preference_score_task` may leave two recomputes open
(`5272`), two executors upsert in either order (`6777`), and the older score may be the last.
An executor is `overtaken` by a claim between its read and its upsert, and the score is `stale` while
the last upsert was such an executor's.  `ScoreCovers` says of a score that is not stale
that it covers the claims of all executors that have written: whoever wrote last had read after
each of those claims.  `SuccessCoversItsClaim` therefore holds of any number of workers and
excepts the stale score, which the code does not repair before the next write.

**Accounts and broker.** What a request may do follows from the order of steps of its route.  `StepsOK` is shown
for every route there is; `CallOK` says the same of the steps a request
has left, together with what those behind it established, and survives other
requests because rows are never taken back (`RowsGrow`): what is revoked stays revoked.
`UnservedMethods` names the four methods of the broker's client (`api-client/src/index.ts:838`) that ask it for routes of
the runtime API: those requests end with 404, and the clause of `AnswersTellEffects` on routes speaks of all others.

**Dashboard.** Refreshes carry no number, so nothing follows for one that overlaps another.
`AloneOK` says what follows for one that runs alone: it carries the cookie or nothing
and, unless an order waits for its answer, what it has fetched lacks nothing but tokens issued since (`issues`):
the handler of an issued token throws before its refresh.

**Console.** The two properties rest on one fact the page does not check: no list is asked for twice
(`AskedOnce`), because a load drops the requests and retries of the one before it, and a retry takes
the place of a request that was answered.  So nothing lands between what a load keeps as
its fallback (`old`) and the arrival of its answer, and both are ahead of what is shown
(`PrimaryAhead`, `DecksAhead`).  Requests carry values of the clock no later than
the present one (`RequestFits`), for which the page's choice of a run had to be
bounded too: that a finite set of numbers has a greatest member (`MaxOfNumbers`) is shown
by a minimal element of the sets of its larger members.

**Gateway.** `CaptureOK` follows a capture through its steps: what it got
is what the sources behind it delivered, what is written and left to write make
one session, and a claimed success is stored.

Proof attempts changed the models where they were wrong or left something open:

* `LosesOnlyOverlapping` blamed a lost patch on a change that brought just that patch; a writer in
  between may also have brought an older patch back from its own old read, which takes more versions than
  the run allows (TLC finds it at `MaxVersion = 5`).  It now asks for some change logged since the read.
* the status after a stage of a build was a `CASE` whose guards overlap; it is decided in order now.
* whether corrections arrived decides in `GatewayCaptures` whether one receiver's capture can be
  solved; they are no part of the session.
* names of `ConsoleLoads` and of `ProfilePublication` were told apart from those of
  `DashboardPage` and `PreferenceScores`, so that one module can reason about both.
* routes are sets of records that one `Request` draws from; what the proofs need of constants became
  `GatewayAssumption`, `ScriptsAssumption`, `PipelineAssumption` and clauses of the others.

Model-checked only:

* liveness, which these proofs do not reach: `EventuallyDrained`,
  `BuildConcludes`, `ReviewsConclude`, `DeploymentsSettle`, `HealthConverges`,
  `RequestsAnswered`, `ConsoleCatchesUp`, `DetailsMatchSelection`;
* what `ReviewScripts` computes is used by the proofs through the few facts
  they need of an outcome; the decks of previews are only evaluated.

## Observations without a run

Met while modelling; none is a property, since the code makes no
promise about it or the model bounds it away.

* Queue: of two overlapping manual retries of one task the second resets a task
  that is queued or executing again (`service.py:3021`); the attempt limit is passed by lease repairs (`service.py:4927`; the
  property counts them); queues are scanned strictly in order and a busy first
  queue starves the others; a failed or skipped prerequisite blocks its
  dependents until someone retries it by hand; a dead worker leaves its `agent.run` row `running`.
* Scores: two writers that look before either commits leave two open recomputes
  (`service.py:5272`), although `docs/operations/cli-coordinator-workflow.md:138`
  wants a burst of signals to collapse to one; of two that are open the one that read first may upsert last, and the older
  score stays until the next write (`6777`); a signal written while a leased recompute has already read is covered by
  no open task (`service.py:5294`); the rebalance tool may mark a task skipped that
  was claimed since (`dev-queue-rebalance.py:131`).
* Builds: a publish request is accepted between the commit of the validation's
  executor and the record of its task (`3318`), and its predecessor is chosen by `created_at`, which is equal for
  tasks of one transaction (`3340`).  If that is not the validation, the registration is executed while the validation
  is repeated; the validation may fail for good, and the record of the registration turns `failed` into
  `runtime_published` (`6963`), where `docs/hardware/playbooks/runtime-handoff.md:12` requires a
  validation that succeeded and ADR-009 (line 29) a completed predecessor: hence the exception
  `DecidedWithout`.  Two builds planned with one unit both take it (`5464`), against
  `docs/hardware/guides/rover.md:41`; two publish
  requests create two register tasks (`3350`), and the record of each overwrites what the other decided.
* Deployments: steps confirmed out of order complete the run with a step nobody confirmed (`1822`), although
  `docs/operations/hardware-bench-deployment.md:34` asks for their order and rests the publish on the status; so does a
  resume before the probe is recorded, in whatever order the steps are confirmed.  The record of the probe of a cancelled run
  completes it (`7107` calls `_advance_hardware_deployment`, which finds nothing pending), where a resume is
  told that it is terminal (`3745`).  Either opens the publish gate.  A resume after a failed probe lets the run
  complete with step 1 failed; two confirmations of the last steps at a time
  can each look before the other commits and leave the run `awaiting_input` with nothing left to confirm;
  `start_hardware_deployment` locks the nullable side of an outer join
  (`3539`-`3552`), which PostgreSQL refuses.
* Reviews: an analysis that is executed again before its record discards the verdicts
  given in between (`service.py:6009`); a manual retry is not told to the run, so that a capture
  retried on its own leaves a finished run `captured`, and an analysis that ends after the
  retried capture failed for good overwrites `failed` and leaves an accepted promotion
  blocked; fix drafts replace `fix_draft_json`, where a review keeps its note
  (`6114`-`6241`); the check before a promotion (`2925`) is not repeated when the
  promotion is carried out, possibly on a newer capture; a baseline's file is
  copied before its row commits (`6316`), so of two promotions that overlap the
  file may be one's and the active row the other's, and a promotion that failed leaves its picture on
  disk.  Edge and Chromium captures share one baseline path.
* Review scripts: a capture that stops at a panel exits with 0, so the run
  becomes `captured` and only its analysis tells; the finding of such a capture is inserted
  by the script's report and again by the executor; a machine without a browser
  leaves outcome `warning` on a run that is `ready_for_review`; a preview
  analysis that met console errors but makes no warning is recorded `passed`; companions dress slides by
  position, so a slide inserted in the deck shifts their media; a capture that is
  retried by hand keeps the findings of the old one until it is analysed again.
* Publication: a request that dies between the runtime commit and the mark leaves the
  suggestion approved; publishing again is refused as stale, or, without a base
  version, logs the change twice.  `view_override` patches are logged as published but dropped by
  `normalizeProfileDefaults`.  The handler of the unique violation
  (`7442`) goes on in an aborted transaction, so the observation is lost.  A review
  may overwrite `published` (`4605`).
* Gateway: an error recorded for a transport without a loop (a capture requested
  over HTTP, `main.rs:2149`) keeps `/health` degraded; a lost commit
  answer reports a stored capture as failed; `/health` waits while a
  capture runs in the only request thread, and a client that sends no line blocks it for ever (`406`);
  rover and base windows of a pair never overlap (`651`).

* Accounts and broker: two overlapping bootstraps of different emails create two
  administrators (`api/src/index.ts:199`); a saved view, a profile or a decision can
  be committed and answered as failed; logout asks for no credential; revoking a token of
  somebody else answers 204; no `fetch` of the services has a timeout, so a hanging
  agent-memory hangs the request; the four runtime hardware methods of `DevConsoleClient` (`api-client/src/index.ts:838`-`884`) ask the
  broker (`dev-console-web/src/App.tsx:77`) for routes that only the runtime API serves, and get 404; a 404 of agent-memory on an optional
  record is answered as success with null.
* Dev console page: a reload asked for during a load is dropped (`App.tsx:601`) and a tick has to make up
  for it; a page out of view has no ticks (`275`); answers that land after a sign-out fill the page again, and
  `selectedRunId` survives it; hydration retries and the answers to decisions can
  take previews and the profile back to an older state, which is why
  `SectionsNeverGoBack` is about coordination and decks.
* Dashboard: refreshes carry no number, so one that ends late shows an account
  that is no longer signed in, until the next one; a failed refresh behind a
  sign-in does the same; handlers pass the selection of the render they were created in; `event.currentTarget.reset()` after an
  `await` throws (`App.tsx:304`), so that issuing a token shows an error and refreshes nothing,
  although the page lists the tokens (`633`); a sign-out empties the profile and view forms alone (`199`-`221`): what was typed into the sign-in,
  bootstrap and account forms, passwords included, and the notice stay for the next user,
  and so does a token answered after the sign-out; a
  refresh overwrites a profile that is being edited, and saving it compares no
  version.  Nothing polls.

## Not modelled

* Parsers, RTKLIB bridge, contracts, start-up scripts: pure functions, generated
  code or process start-up; the native app: two reads behind a button, with a
  token typed in; see `PROJECT.json`.
* What executors compute, payloads, artifacts, events, summaries: data no
  property tells apart.
* The four database slots of a process (`service.py:885`): each wait ends by timeout; a
  `resume` that holds one slot asks for another (`3799`).
* Embedding maintenance and the NavSpark session; the latter is used by its own tests only.
* Of the consoles: rendering, the telemetry of clicks, the slide a preview
  stands at, sign-ins in another tab, texts of view overrides that do not parse.

## Plan

Done so far: the queue and its lanes, deployments, publication, gateway, review
scripts and baselines, accounts, clients and broker, both web pages; and the
theorems above.  What is left, in order:

1. Instances of `HardwareBuilds` with two builds that share a unit and with two publish requests of one build: the proofs cover their safety, not their liveness.
2. Embedding maintenance: staging by two workers, periodic scheduling.
3. NavSpark session (answers and retries) and frame extraction as a function
   against a reference definition.
