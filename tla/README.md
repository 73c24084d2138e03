# Great Sage: a verification project

TLA+ models of Great Sage (`src/greatsage`), a local-first assistant that plans,
asks for approval and executes work through tools, alone or through a delegated
executor.  The modules model the control of the program: every state change,
guard, early return and error path of the operations they cover, with the data
reduced to what the properties tell apart.  TLC checks them on small instances;
TLAPS proves the most important safety properties for every value of the
constants.

`PROJECT.json` lists the components, the runs, the source lines every definition
translates, the hazards of the code and the properties that watch them.

Contents: 1 inventory, 2 how the parts interact, 3 the modules, 4 the runs,
5 fairness, 6 the proofs, 7 disagreements with the code, 8 abstractions,
9 what is not modelled, 10 plan.

## 1. Inventory

For each part: what state it keeps, its operations, what is hard about it, and
what makes it correct.  Paths are under `src/greatsage/`.

### Task (`task/`)

*State.*  SQLite rows shared by every running process: state, plan, linked step
results, `human_approved`.  In memory, per process: the executing `TaskRecord`,
the tokens of running tasks (`TaskService._tokens`), the approval provider
installed for the run.
*Operations.*  `TaskService.run`, `resume`, `cancel`; `TaskExecutor.execute`;
listing and reports.
*Hard.*  Rows are overwritten whole with a copy read earlier; a token exists only
while a run is registered; a crash leaves the row in any state and a person
resumes from there; two processes may resume the same task; a ready file replaces the steps
of a plan whose task is under way; results are kept by step id, and steps of a file
may share one.
*Correct.*  Completed means every step id really ran (every step, where ids name one),
in dependency order, behind the gate; recorded work is not redone; the plan shows
what its task is; every run ends.

### Planning (`planning/`)

*State.*  SQLite plan rows: steps, status, `metadata.task_id`.
*Operations.*  `create_plan` (the planner and `verify_plan`), `approve`; the
pure graph algorithms (cycle detection, topological order, levels).
*Hard.*  approve checks a copy it read and saves it later; two representations of
one state (plan and task); the in-degree bookkeeping of the ordering; `Plan.validate`
does not look at repeated ids, `verify_plan` does, and the ordering keeps its
degrees by id.
*Correct.*  Only verified and approved plans, or files that say ready, run; the
order lists every step once, after its dependencies; the cycle that is reported is one.

### Agent (`agent/orchestrator.py`, `service.py`, `loopdetect.py`, ...)

*State.*  The run's status, its token, step and call counts, the loop detector;
in `AgentService` the token and status of the run in flight; a history database.
*Operations.*  `AgentService.run`, `cancel`; the loop generate / limits / tools.
*Hard.*  The status is moved from three places; the token is set by other threads
between any two tests; limits count over responses; six ways to end.
*Correct.*  Limits and loop detection hold over the whole run; at most one tool
starts after a cancel; a run ends once, with one terminal event and a history row
that agrees with it.

### Agent approvals (`agent/approval_broker.py`, `agent/approval.py`)

*State.*  The pending queue by request id, the recorded decisions.
*Operations.*  post, poll, approve, reject, reject_all, pending; the provider's
wait with a timeout and the token.
*Hard.*  Decisions come from other threads, late or twice; ids may be reused.
*Correct.*  What runs was approved by somebody looking at that very call; the
queue shows exactly the request waited on; no wait is endless.

### Delegation (`delegation/`) and its executor (`intelligence/opencode.py`)

*State.*  Running delegations with token and status, kept results (a bounded
history), counts of requests, output, reconnects; in the provider the permission
ids already known; at the executor the session.
*Operations.*  `run`, `cancel`, `get`, `list`, the monitor loop, permission
handling, cleanup.
*Hard.*  Every HTTP request may fail, or fail only seemingly; the cancel of one
thread and the monitor of another both interrupt the session; a person may answer
a permission when everything is already over.
*Correct.*  It ends, once, with one outcome; nothing is left open or working at the
executor but what a lost request left; a person is asked once; an interrupted executor's
error is not taken for a failure.

### Event bus (`events/`)

*State.*  Subscriptions in order, `_closed`.
*Operations.*  `subscribe`, `unsubscribe`, `publish`, `publish_nowait`, `clear`,
`close`.
*Hard.*  Dispatches suspend in asynchronous handlers and overlap; handlers raise;
subscriptions change meanwhile; the loop may end under scheduled dispatches.
*Correct.*  Everybody who subscribed when a dispatch began is called once, in
order; the audit file is in order.

### Runtime (`core/`)

*State.*  The lifecycle state, the services it made, the registry.
*Operations.*  `start`, `_cleanup_after_failure`, `stop`.
*Hard.*  A start may fail at any service; several callers may stop; stop waits
for subscribers while the bus is still open.
*Correct.*  Services go down after those built on them; stop ends in stopped; the
audit file tells how it ended.

### Control (`control/state.py`, `server.py`, `process.py`)

*State.*  One run slot (kind, thread, result, error, broker, finished), a state file
that names a background server.
*Operations.*  HTTP: show, start an agent or task run, resume, cancel, decide, approve
a plan, cancel a task.  Commands: serve, `--background`, status, stop.
*Hard.*  A cancel or decision looks at the slot and acts after releasing the lock;
a run may end and another begin between; the process the state file names may be
gone and its id another's; starts and stops of several commands cross.
*Correct.*  One run at a time, and what is shown is one run's; a failed start
leaves no server behind; a stop kills the server.

### Scheduler (`scheduler/`)

*State.*  Schedule rows (next and last run, status, enabled), shared by processes.
*Operations.*  add, remove and `tick`, each a command of its own; nothing ticks
by itself.
*Hard.*  A tick works on the list it read and writes whole rows back; two processes
may tick; a process dies between a handler and the write.
*Correct.*  A tick runs all that was due when it began, whatever a handler does, and
what it wrote back alone is not run again for the same time.

### Tools (`tools/`)

*State.*  A registry; per request a place in the pipeline validation, policy,
approval, execution with a timeout, events; for a write a temporary file.
*Hard.*  Every stage may refuse, the provider may disappear, a command outlive its
call, a write be cut off.  The extractor of a page counts tags that have no end.
*Correct.*  The events of a request are one story with one end; an atomic write is
whole; the readable text of a page is its visible text.

### Intelligence (`intelligence/`)

*State.*  Each provider's state and whether it can call tools; the service; in
OpenCode one session per request.
*Operations.*  start, shutdown, health, generate (route, then ask), abort.
*Hard.*  A health check and a generation cross; the timeline of a session is polled
while the executor writes it.
*Correct.*  A reply is the last message of a session that ended well; no session is
left open but by a lost request.

### Memory (`memory/`)

*State.*  Rows (text, expiry, deletion mark) and a table of embedding vectors,
shared by processes.
*Operations.*  remember, update, forget one or many, expire, reindex, recall.
*Hard.*  An update reads a row, writes it whole, drops the vector and asks a model
for a new one outside any lock; a recall ranks vectors first and reads rows later.
*Correct.*  A vector is of the present text; what was forgotten is not recalled.

### Opening of the databases (`*/sqlite_repository.py`, `storage/recovery.py`)

*State.*  For each of six stores the tables made, `schema_version`, quarantined copies.
*Hard.*  SQLite commits each CREATE by itself; processes open a new file together,
or die between two statements.
*Correct.*  The version tells the truth; a sound file opens again.

### Front ends: command line, chat, voice, telegram, mcp

*State.*  A chat session's context and budget, the always-on loop with its speak
thread and barge-in monitor; the offset of a telegram listener.
*Hard.*  A reply is heard while the loop goes on; turns fail and history is trimmed;
Telegram forgets by offset, and replies get lost.
*Correct.*  The model is sent the conversation that took place; Telegram forgets
nothing unhandled.

### Configuration (`configuration/`)

*State.*  One untyped tree of defaults, file and variables, then a typed value.
*Hard.*  The merge of three trees in which any section may be something else.
*Correct.*  What is built says what was written; what is wrong is not built.

### Support: observability, interface, workspace, vision

The audit log (a synchronous first subscriber of the bus), redaction, rendering of
a status, a scanned file tree, screen capture.

## 2. How the parts interact

- A *run* of the agent, a *run* of a task and a *delegation* each execute in one
  worker thread.  The control server's handler threads, or other processes on the
  same databases, approve and cancel meanwhile.
- The agent and the task executor call the tool service; a tool whose policy says
  "ask" calls back the approval provider installed for the run: the broker's queue
  (agent), a grant for the task (task), or the tool service's own (delegation).
- Cancellation is cooperative everywhere: a token is set by one thread and tested
  at fixed places by another.
- Everything publishes on the bus with `publish_nowait`; only the runtime awaits
  its dispatches.  The audit log is the first subscriber.
- Tasks and plans share state twice over: the task row and the status the task
  service mirrors onto the plan row.
- The runtime makes the services in one order and shuts them down in another.

## 3. The modules

### Task and planning

| module | role |
|---|---|
| `PlanVersions` | what a plan may say: its versions (a draft's steps, a ready file's), the ids and the order of their steps |
| `TaskLifecycle` | the state tables: which moves a task may make, which plan status each state maps to (`task/models.py`, `planning/models.py`) |
| `TaskExecution` | the system: planning's gate, the task service, the executor, the databases, processes that crash |
| `TaskContract` | the abstract specification: what the task subsystem promises of one task row |
| `TaskInvariant` | the inductive invariant |
| `TaskExecutionMC` | instances |
| `TaskProofs` | the theorems for any processes and handler threads, and those for a process that does one command at a time |

`planRow`, `taskRow` and `results` are the databases and survive a crash.  `pc`
and `job` are a worker's place in `run`/`resume`/`execute` and its in-memory record;
each place is one database statement or one read whose value is used later, so that
threads and processes interleave exactly where they can.  `token` is the entry of
`_tokens`; `approver` and `canceller` are calls of `approve` and `cancel` in progress
on handler threads.  `ran` and `crashes` are history.

A plan row carries its *version*, the list of steps it was last saved with, and so does
every worker and handler that read it: `approve`, `run` and the mirroring of a task's
status save the row whole, so a `run(file)` replaces the steps under an execution that is
under way, and that execution saves back the version it read again.  A step is known by
its place in `topological_order` to the loop (the order itself is `PlanGraph`'s) and by
its id to the results: `StepSave` writes `results[task][id]`, over what is there, and
`ExecLoad` leaves in `todo` the places whose id is not recorded as done.

`verify_plan` refuses repeated ids, `Plan.validate`, which is all a ready file passes,
does not.  Such a file may order (`[a, a]`) and run: a resume after the first step skips
the second by its id, and the task is completed with a step that never ran
(`TaskSkipped.cfg`, section 4); and a later failure under an id takes back its recorded
success.  Or it may not order (`knot`: what waits for a repeated id): then the task fails
before the loop.  So the properties say what they say of ids, and of each step where the
plan has one version with an id for every step (`Unambiguous`).

### The agent and its approvals

| module | role |
|---|---|
| `ApprovalBroker` | the human gate on its own, for any request ids |
| `AgentRun` | the loop, its limits, its status, the cancel handlers, with `INSTANCE ApprovalBroker` as the gate |
| `ApprovalBrokerMC`, `AgentRunMC` | instances |
| `AssistantProofs`, `AgentRunProofs` | the theorems about the gate (with others, below) and about the loop |

In `ApprovalBroker`, `pending` and `decisions` are the two dictionaries, `ask` the
worker inside `request_approval`, `seen` what each deciding thread is looking at;
`accepted` and `granted` are history.  `IdOf` says which request id the AI provider
gave each call: the server's own, or, where the server gives none, the position in
the response (`intelligence/ollama.py`).

In `AgentRun`, `at` is the worker's place between the tests of the loop; `batch` and
`done` the calls of the current response; `total`, `last`, `streak` the counters of
the limits and the loop detector.  `canceller` is a cancel request between its look
at the slot and its effect.  A response is any sequence of up to `MaxSingle`+1 calls.
`Streak(n)` is where the detector's counter stands after `n` calls of the batch, said
of the calls instead of computed one after the other.

### Delegation

`Delegation` has the manager's thread of each delegation (`job`), what the threads share
(`running`, `results`, `token`), cancel calls in progress (`canceller`), and the
executor with its session (`exec`), an environment that talks, asks for permissions,
finishes, fails, or says nothing.  Each HTTP request may be carried out or not, and may
seem to fail either way.  The code swallows the failure of an interrupt and of a
deletion: `lost` notes which of them did not arrive, and a creation whose answer is lost
leaves a session `unknown` to the manager, open and never prompted.  `known` is the
provider's set of permission ids; `published`, `posed` and `lateGrants` are history.
`waiting` is the set of the permissions that wait, and a sweep lists those that are new
in any order. `DelegationProofs` has the theorems.

### Bus and runtime

`EventBus` is the bus and the loop it runs in: `cur` is who runs, `ready` the
scheduled dispatches, `disp` where each dispatch is, `list` its copy of the
subscribers and `next` its place there; it skips those whose filter the event does
not pass and calls the others.  Without a loop `publish_nowait` goes through its list
in the same way, step by step, and leaves coroutines out.  `owed` and `told` are
history: the places of the list to be called, and those called.  `file` and `audit`
are the audit log behind the first subscriber.  `Runtime` EXTENDS it: `state` the
lifecycle, `service` the runtime's references, `at` the coroutines in `start` and
`stop`.  The code between two awaits is a sequence of steps that keep `cur`, so
nothing else runs in between, as on an asyncio loop.  `RuntimeProofs` has the theorems.

### Beside the task engine

| module | state | actions |
|---|---|---|
| `PlanGraph` | the graph; `path`, `mark`, `cycle` of the search; `indegree`, `ready`, `order`, `level` | `CreatePlan`, `Check`; `Enter`, `Visit`, `Leave` of `find_cycle`; `StartOrder`, `Take`, `Finish` of `topological_order` and `levels` |
| `Scheduler` | `rows`, the place of each command, `exit`; `settled` is history | add, remove, tick as list, run, save per schedule; failing statements, kills, the clock |
| `Memory` | `memories`, `vectors`, the call of each client; `revived`, `raced` are history | remember, update, forget, bulk forget, expire, reindex, recall, each statement a step; a backend that is down; deaths |
| `DatabaseOpening` | `made`, `version`, `copies`, the statement each opener is at, `writer` | reading, each CREATE and version write, already exists, locked, quarantine, deaths |
| `Tools` | the place of each request, `audit`, the policy's settings, `file`, `temps`, `child` | the pipeline stage by stage; writes in two steps; a command's start, end and timeout; shutdown; death |
| `WebFetch` | the fetch, the extractor, the page as it is read | checks, redirects, reading; one action per callback of the HTML parser |
| `Chat` | the loop, the context, the budget, the speak threads, `audible`, the monitor | a turn of each style, the always-on windows and wake phrase, generation and its failures, playback, barge-in |
| `Telegram` | what has arrived and is kept, each listener's offset and batch, its approval provider | polls and their failures, each kind of message, replies, stops |
| `ServeProcess` | the processes by pid, the state file, each command | start, stop and status of a background server, foreground servers, reuse of pids |
| `Intelligence` | the service, each provider's state, each request and session | start, shutdown, health, routing, local and OpenCode generation with the executor's writes |
| `Configuration` | the document, the variables, the tree, the result | resolve, override, validate, build |
| `ControlPlane` | `slot`, the workers, the plan and task, each request | the gate of a request, each handler in the steps between locks, the worker |
| `PlanGraphProofs` | the theorems about `PlanGraph` | |
| `AssistantProofs` | the theorems about `Tools`, `Chat`, `Memory` and the gate | |
| `ServicesProofs` | the theorems about `Intelligence`, `DatabaseOpening`, `Telegram` and `Scheduler` | |
| `ControlPlaneProofs` | the theorems about `ControlPlane`, `ServeProcess`, `Configuration` and `WebFetch` | |
| `ServicesMC` | all of the components above, at TLC's size | |

These components meet only through the modules above, so `ServicesMC` does not
interleave them: a behaviour is one component's, chosen at the start from the constant
`Chosen`.  It EXTENDS the components, so what a run checks is the property the theorems
are about, and those not chosen rest in one of their first states.

`Memory`: a text is its version, a vector the version it was made from.
`Intelligence`: a session's timeline is the number of its messages, the last one's text
and whether it is idle; a poll takes it as it is (`Polls`) and is read later
(`AwaitsAssistant`), with the code's own test: an assistant message without an error, in
a session that is idle and did not fail.  That an idle session that succeeded has no
unfinished message is the executor's part (`ExecutorWrites`), not the test's.
`DatabaseOpening`: a store is its list of statements; there are three shapes of the
six stores (all IF NOT EXISTS; an ALTER that is not; the memory store).
`Tools`: what the hooks look at is one bit of a request.  `WebFetch`: the page is
written as it is read, a well-formed document in which void elements and list items may
go without end tags; what is told of it is all the extractor's blocks, or, cut at
`max_chars`, a first part of them marked as truncated (`PageEnds`, `CutAt`).
`Telegram`: `kept` is Telegram's side, modelled from what the client asks for.
`ServeProcess`: pids are reused, and a probe cannot tell which process answers.
`Configuration`: a value is what the loader can tell of it (good, beyond its range, of a
wrong kind, ...), and the file may be missing, malformed (YAML, or not readable at all),
garbled (bytes that are not UTF-8, an impossible date: exceptions `_load_yaml` does not
catch) or at a path whose home is unknown.  `ControlPlane`: runs are numbered, and what
is stored or shown is the number of the run it comes from.

### Faults

A definition called `...Swapped`, `...Unguarded` and so on, commented "Fault:" or "a
mutant", is a plausible bug of the operation after it.  No specification uses it: it
takes the operation's place to show that a property notices.

## 4. The runs

All runs are complete explorations; none uses a state constraint.

| run | instance | checks |
|---|---|---|
| `task_cli` | one process that does one command at a time; one plan, drafted with two steps, replaced by a ready file of three (more than `max_steps`); two tasks, two crashes, runs with and without an approval | `AskStepsAudited`: a tool that needs approval runs only in an attempt that was approved and for a task recorded so; `MirroredAtExit`: a run that returns leaves a plan that shows its task; `RecordedStepsNotRerun`; `ImplementsContract`: the tables implement `TaskContract` |
| `task_server` | one server with handler threads; one plan, a draft or a file with two steps of one id or one that cannot be ordered; one task, a crash | `TaskInv`, the inductive invariant; `RunsEnd` |
| `task_two_processes` | two processes; two plans, of which one is drafted so that it does not verify and is replaced by ready files, also one with two steps of one id; one task, a crash | `CompletedPlanRanAll`; `RunsInDependencyOrder` over all attempts; `OnlyGatedStepsRun` |
| `approval_broker` | three calls with ids of their own, two deciders | `ApprovedByPerson`: only what a person approved runs; `QueueShowsTheWait`; `EveryRequestAnswered` |
| `agent_control` | one run of up to 3 steps and 2 calls, one call a response, that reads, asks or calls something unknown, a decider, a canceller | `RunsBounded`: the limits on calls and the loop detection hold over the whole run; `OneToolAfterCancel`; `PausedWhileAsking`; `OneTerminalEvent`, agreeing with the history; `RunsEnd` |
| `runtime` | three subscribers (the recorder, an asynchronous one, a synchronous one), two notes, two stop calls | `EveryoneTold`; `FileTellsTheEnd`; `UsersStopFirst`; `StopEnds` |
| `delegation` | one delegation, three permissions (asked, allowed, denied), a reconnect, a canceller | `NothingLeftBehind`; `CancelIsNotAFailure`; `AskedOnce`; `OneGrantAfterCancel`; `DelegationsEnd` |
| `services` | the twelve components of `ServicesMC` | below |
| `task_stuck_ready`, `approval_reused_id`, `memory_first_open`, `webfetch_hidden_void` | smallest that show it | section 7 |

What `services` checks, by component, and at which size:

| component | size | properties |
|---|---|---|
| schedule | 2 schedules, 3 commands, 2 ticks of the clock | `TicksAccount`, which is `TickRunsAllDue`: a tick that reported ran all that was due, and `NoSettledRunRepeats`: what ran and was written back by a tick alone is not run again for the same time |
| memory | 2 memories, a server and a command with 2 calls each | `VectorsMatch`; `NothingForgottenRecalled` |
| database | 2 openers, 4 openings, 3 shapes of store; new, damaged and newer files | `OpeningIsSafe`, which is `VersionTellsTheSchema`, `TolerantFileOpens` (a tolerant store that commits each migration with its version is never refused) and `OthersFilesKept` |
| telegram | 2 listeners, 3 messages, 2 polls each | `HandledBeforeForgotten` |
| serve | 2 pids, 3 commands | `ServeKeepsItsWord` |
| plan | every graph on three steps, with distinct ids and with one repeated; two in which a step waits for a repeated id; five steps, above the ceiling of 4; plans of up to two steps from the planner | `PlansOrdered`, which is `CycleExact` (a reported cycle is one, a plan that passes has none), `OrderComplete` (with distinct ids the order is complete, stable and has dependencies first, levels are right) and `NoStepTwice` |
| tools | 3 requests, two policy modes | `AuditTellsTheStory`; `WholeFile` |
| chat | 4 turns, history of 1, a budget of 5 voice turns, three styles | `ContextIsTheConversation` |
| ai | a generation while the service starts, is probed again and stops; three kinds of request, two messages of the executor | `ReplyIsTheAnswer`: a reply is what its session said last, in a session that ended well; a session is left open only by a lost request |
| config | every section; one edit of the document, with one or with all variables of the section; no file, or one that is missing, malformed, garbled or without a home | `LoadsAsWritten` |
| web | pages of up to 7 tags and texts, one redirect, cut while reading and at `max_chars` | `PageTold` |
| control | 2 requests of every kind, 2 runs | `OneRunTold` |

`services` is symmetric in two ids, pids, listeners and openers (`x`, `y`), which no
component orders.  Plans have numbers for ids, as the steps of a plan are ordered.

*Why the bounds are enough.*  Two or three steps, the second in need of approval, have a
prefix that is recorded and a rest that is not, and a step to fail at; two steps of one
id are one to record and one to skip; two tasks per plan give a stale link; two
processes give every race between two copies of a row; one crash gives every row a crash
can leave, and a second one interrupts the retry. That every run is approved (`Grants =
{TRUE}`), where no property is about approvals, lets every step run.  Three calls are
one that timed out, one in progress, one yet to come; two deciders are a late one and a
competing one.  Two notes are needed for an overtaking, an asynchronous subscriber that
wants the first only lets it happen; a second stop call covers the overtaking of a stop
that waits.  One reconnect, a limit of two permissions out of three, and an output limit
of nothing reach both sides of each limit of a delegation. In the services: three steps
are the smallest graph with a cycle of two or three, a diamond's half and a repeated id;
three commands are two ticks and a removal; two memories tell the one worked on from
another; two openers and four openings are an overlap, and a third and fourth after a
cut-off one; four turns fill a history of one, trim it and fail again, and five voice
turns let a second reply sound while the budget still runs out in the typed sense; two
listeners are a restart and an overlap; two pids are a server and what reuses its id;
seven tokens close a nested list after an omitted end; two messages are an answer and an
older one.  In an agent's run of two calls, one a response, a third call passes the
limit on calls, a response of two the limit on responses, and two alike in a row the
loop threshold; the limit on steps is not met, as three responses are one call too many.
`AgentLimits.cfg` has three steps, three calls, two a response and nobody who cancels:
there each limit is met first by some run, and `RunsBounded` holds (1,551,163 states);
it is not among the runs, since the canceller besides would take TLC too long.

*Checks that the bounds bite.*  For every property there is a mutated definition
of the model under which TLC finds it violated in the same configuration
(`PROJECT.json`, "mutants").

`CHECK_DEADLOCK FALSE` is there where the system may really have nothing left to
do: when the bounded runs, delegations, sessions or services are over.

### Diagnostic configurations

These are not among the runs of `PROJECT.json`; each states an expectation that
the code does not meet, and TLC finds it violated.  The hazards refer to them.

| configuration | module | property | what happens |
|---|---|---|---|
| `TaskPendingCancel.cfg` | `TaskExecutionMC` | `PendingCanBeCancelled` | a pending task (left by a crash) cannot be cancelled: the refused move is swallowed |
| `TaskMirror.cfg` | `TaskExecutionMC` | `MirroredWhenQuiet` | a cancel between the two checks before a step leaves the row running and the plan failed |
| `TaskFinal.cfg` | `TaskExecutionMC` | `FinalStaysFinal` | a cancel that finds no token writes cancelled, and the run writes over it |
| `TaskSkipped.cfg` | `TaskExecutionMC` | `CompletedRanEachStep` | in a ready file whose two steps share an id, a resume after the first skips the second (`task/executor.py:103`), and the task is completed with a step that never ran |
| `AgentCancel.cfg` | `AgentRunMC` | `CancelHitsItsRun` | a late cancel reaches the next run |
| `AgentCancel.cfg` | `AgentRunMC` | `CancelTakesEffect` | a cancel before the run has its token is lost |
| `AgentCancel.cfg` | `AgentRunMC` | `CancelledEndsCancelled` | a run cancelled during its last answer ends completed |
| `AgentCancel.cfg` | `AgentRunMC` | `CancelClosesGate` | a request posted while the cancel is under way stays open and may be approved |
| `DelegationSessions.cfg` | `DelegationMC` | `SessionsWithinLimit` | two delegations at the limit both pass the test (two tasks) |
| `DelegationAnswers.cfg` | `DelegationMC` | `KnownToGet` | a delegation that is over is unknown until its session is deleted |
| `DelegationAnswers.cfg` | `DelegationMC` | `DecisionsArrive` | a permission whose reply was lost is never answered |
| `PlanRepeated.cfg` | `ServicesMC` | `DependenciesFirst` | `Plan.validate` accepts steps with one id, and `topological_order` (`planning/graph.py:121`) keeps degrees by id: two steps a each take one from the degree of a step that waits for a, so it falls to zero while another dependency is open; a, a, c (after a and b), b are ordered a, a, c, b, although `planning/graph.py:82` says "dependency order" |
| `RuntimeCleanup.cfg` | `RuntimeMC` | `FailedStartStops` | a failing start stops nothing but what the registry holds, and that has no stop; `docs/ARCHITECTURE.md` says it stops the started services |

`AgentCancel.cfg` is for four expectations, one at a time: it lists the first as it
stands, `CancelClosesGate` goes in its place, and the other two go under PROPERTIES.
`DelegationAnswers.cfg` is for two invariants, the second in place of the first.

The next ones are the components' own and are found with `Services.cfg` when the
property stands there instead of the invariants (`RemovedStaysRemoved` under PROPERTY).

| property | what happens |
|---|---|
| `RemovedStaysRemoved` | a tick writes back a schedule that was removed after the tick listed it |
| `ForgottenStaysForgotten` | an update writes back, whole, a memory that was forgotten after the update read it |
| `HandledOnce` | two listeners, or one killed before its next poll and its successor, handle a message twice |
| `NothingBlocks` | a message that begins with `@` raises an IndexError in the bridge (`telegram/bridge.py:53`) before Telegram is told of it: every later listener meets it again first |
| `RepliesArePolled` | the barge-in flag stays set until the next playback starts, so the loop leaves the poll of the next reply at once, while it is still being made: it is heard in the turn after, with nothing polling for it |
| `StopKillsServers` | the server of the state file is gone and its pid another program's, a second server answers at the url: a stop kills the other program |
| `LocalPreferred` | the router takes the first provider that executes code, whether or not the request is a coding task: with both ready, OpenCode gets every request without tools |
| `ExplainsEveryRefusal` | a list where an enum belongs and a key that is not a string raise a TypeError, a variable of a section that is no mapping a KeyError, a file that is not UTF-8 or has an impossible date a ValueError, a path whose home is unknown a RuntimeError (all are outside `ConfigurationError`) |
| `StartedRunTold` | the run is over, and another begun, before the answer 202 looks at the slot: it shows the other run |

## 5. Fairness

Liveness is checked under weak fairness of what the scheduler or the clock does
by itself, never of a person, a canceller, or a crash.

- `TaskExecution`: of each worker and each handler already in a call.  The code
  between two database statements is sequential and SQLite's waits are bounded.
  Tools come back: those that wait for something outside (shell, network) do so
  with the configured timeout.
- `ApprovalBroker`, `AgentRun`: of the worker, and of `Expire`, the deadline of an
  approval request.  A call of the AI provider comes back, as its requests have
  timeouts, but with anything.  Nothing is assumed of the run's own wall clock, of
  deciders or of cancellers.
- `Runtime`: the loop runs whatever can run, and a handler that waits comes back; so
  does a dispatch without a loop, which is part of `Turn`.
  Without the second, the code does hang: `publish` has no timeout.
- `Delegation`: of each thread, and of its wall clock.  HTTP requests have
  timeouts; approval providers "never block forever" (`tools/approval.py`).  The
  executor may stay silent for ever.
- The modules of `ServicesMC` state safety only.  Their loops end by counters or
  by a person, or wait for something outside that nobody promises.

## 6. The proofs

All theorems hold for every value of the constants that satisfies the named
assumptions of the modules.

**Types** (`TaskProofs!TypeCorrect`).  `Spec => []TypeOK`, one step per
action.

**Task safety** (`TaskProofs`).  `CompletedTasksRan`, `CompletedPlansRan`,
`DependencyOrder`, `GateHolds`: for any number of processes, plans, versions, tasks and
crashes, and any ids on the steps.  None of the four is inductive: what a row says is
written from what a worker holds in memory, perhaps long after it read it.  `TaskInv`
(`TaskInvariant`, theorem `InvariantHolds`) says what each worker knows at each
place, in terms of step ids, as that is all the results keep: a worker with a task agrees
with its row about the plan, and the versions it has read may run (`HasPlan`); one that
will write completed has seen every id of a version of its plan run (`KnowsDone`); what is
not in its todo set has run under its id (`LoopsOverRest`); recorded successes ran
(`RecordedRan`); what ran is of a version that passed the gate and came after each id that
precedes it (`RanKnown`); ready rows, approvals and cancels in flight are of gated versions
(`ReadyGated`, `CancelsKnown`).  `ran` only grows and rows are never deleted, so no race
can take these facts away: that is the argument.  What they say of steps follows where
the plan is `Unambiguous` (lemma `IdsNameSteps`).  That a step of another plan may be left
out is what the code does (`TaskSkipped.cfg`).  Assumptions: `VersionAssumption`,
`ProcAssumption`.

**A task on its own** (`TaskProofs`).  `ApprovalsAudited`, `ExitsMirrored`,
`NothingRunsTwice` and `ContractKept`, under the hypothesis `OneAtATime`: one process,
and no handler threads, so it does one command at a time.  That is the command line,
and the hypothesis is needed: the diagnostic configurations show rows overtaken by
handlers, and a second process that resumes the same task overwrites its rows.  There
may be any number of crashes, plans, versions, tasks and steps.  The invariant `AloneInv`
adds to `TaskInv`: worker, approval and cancel exclude one another (`Exclusive`), so what a
cancel read is still in the row (`CancelReads`), and what the worker remembers is what
the row says and fits its place (`Remembers`, `Fits`); an approval is in the row before
a tool may run on it (`Audited`), and is in force only for the run it was given to
(`ScopedToRun`); what is left to do is what is not recorded as done (`KeepsRecord`), up to
the ids.  `NothingRunsTwice` is of versions with an id for each step, since a shared id
lets a failure replace a success, which `TaskContract` has as an action of its own
(`TakeBack`).  `ContractKept` is the refinement: the initial tables are `TaskContract`'s,
and under the invariant each action is one of its steps or a stutter.

**The human gate** (`AssistantProofs`).  `NothingAutoApproved`: if no two calls share a
request id (`UniqueIdOf`, a hypothesis of the theorem), only what a person approved
runs; `QueueIsExact`: with any ids, the queue holds the request waited on and nothing
else.  The invariant `BrokerInv` (`BrokerInvariant`) adds that decisions recorded, and
the one the worker has read, are approvals of the call itself.  Run `approval_reused_id`
shows that the hypothesis is needed, and the local provider does not satisfy it when its
server gives calls no ids.  Assumptions: `IdAssumption`, `TokenAssumption`,
`NoCallAssumption`.

**The agent's run** (`AgentRunProofs`).  `EndsAreToldOnce`, `CancelStopsTheTools`,
`WaitsAreShown`, `LimitsHold` and `NothingRepeatsForEver` (together `RunsAreBounded`),
`StatusFollowsItsTable`: for any policy, limits, number of runs, deciders and
cancellers, and whatever is answered.  One thread works; the others cancel, decide, or
are clocks.  The invariant `AgentInv` (`AgentInvariant`) says what holds at each of the
thread's places, in six parts: the status there (`StateInv`); what was published and
recorded of each run so far (`HistoryInv`); that what is left of a batch fits the limits
(`LimitInv`); what the loop detector has seen (`DetectorInv`): the calls made and those
its batch still holds, of which the counter is at least the length of the last row of
equal ones (lemma `CountsTheRow`); where the worker was when the token was set
(`TokenInv`); and that the broker waits exactly while the worker does (`AskInv`).
Assumptions: `LimitAssumption`, `PolicyAssumption` and the broker's.

**Delegation** (`DelegationProofs`).  `SessionsAreCleanedUp`, `OutcomesAgree`,
`CancelsAreCancels`, `NobodyAskedTwice`, `CancelStopsGrants`: for any number of
delegations, permissions and cancellers, and any requests lost: interrupts, deletions and
answers to a creation among them.  `SessionsAreCleanedUp` says that a session is open at
the end only if its deletion was lost, works on unwatched only if its interrupt was, or
is one the manager never knew and never prompted.  The invariant
`DelegationInv` relates, for one delegation, the place of its thread to its session
(`SessionInv`), what it published (`PublishedInv`), the sweep it goes through
(`SweepInv`: messages first, then permissions), the interrupt (`InterruptInv`: nobody
interrupts a watched session before the token is set, and a sweep that tells of it meets
the token first), the permissions known (`AskedInv`) and late grants (`GrantInv`).  The
delegations meet only in the count and the results.  Assumption:
`DelegationAssumption`; in it, that a permission is no message of the executor.

**Bus and runtime** (`RuntimeProofs`), for any subscribers, notes, stop calls and
services that may fail.

- `DispatchComplete`: a dispatch that is over has called those it concerned, once each
  and in order.  The invariant `Progress` says which it has called at each place of its
  list; nobody else touches list or place while it waits.
- `EndIsFiled`: the audit file tells how the runtime ended.  By `Filed` the file has
  every event whose dispatch went past its first call, since the recorder is the first
  subscriber, is synchronous, and its file is open while the bus is (`Recording`).
  `Announced` ties each stop call's place to its two announcements: when one of them
  closes the bus its own two are in the file, in order.
- `NotesFiledInOrder`: the notes are filed in the order of publication, as at most one
  dispatch has begun and not called the recorder yet, and what is in the queue was
  published after all that is in the file (`OrderInv`).
- `StopOrderSafe`: a service goes down only after all that were built on it.  By
  `StopInv` a coroutine in the shutdown sequence has the loop, and what precedes
  its place is down or was never made; the rest is that `StopOrder` lists users first
  (lemma `UsersBefore`).

`RuntimeInv` is `BusInv`, `StopInv` and `FileInv` together: the bus needs the runtime's
state, since only a started runtime has a recorder (`Untouched`).  Assumptions:
`SubsAssumption`, `EventAssumption` (an event is not a coroutine), `WantsAssumption`
(the recorder filters nothing out) and `CallersAssumption`.

**Plans** (`PlanGraphProofs`), for every graph of steps, of any size, and any goal.

- `CyclesAreExact`: with any ids, a cycle that `find_cycle` reports is one, and a plan
  that passes has no set of ids each waiting for another of them.
- `NoStepIsTwice`: with any ids, `topological_order` takes no step twice.
- `OrderIsComplete`: with distinct ids the order has every step, each after all it
  depends on and put off only for that, and each level is right.

That there is no cycle is said of sets of ids, not of paths (`Acyclic`), so it needs no
induction: a black node depends on black ones only (`SearchInv`), all marked before it,
so that each `Leave` keeps it; and the stack is a path, of which each node has seen black
ones or the next (`PathInv`), so what is unwound is a cycle.  In the order, a step that is
ready or placed has no degree left (`OrderInv`), so it is not opened again.  With distinct
ids the degree is the number of arcs from ids not yet taken, and what waits for nothing is
ready or placed (`DistinctInv`): if nothing is ready and something is left, every id left
waits for another that is left, which `Acyclic` excludes (lemma `NothingIsLeft`).  That the
ids are distinct is needed: `PlanRepeated.cfg` has a step before what it depends on.
`PlansAreOrdered` is the three together.
Assumption: `PlanGraphAssumption` (finitely many ids).

**Replies** (`ServicesProofs!RepliesAreAnswers`).  For any number of callers, health
checks, requests and messages, a reply of OpenCode is what its session said last,
finished, in a session that ended well, however the executor's writes cross the polls; and
however a request ends, its session is open only if the answer to its creation or its
deletion was lost.  The test of a poll asks neither whether the text is whole nor whether
the poll is still true.  The invariant `ReplyInv` gives both: the executor writes no more
once it is idle, so a poll that showed an idle session is the timeline there will be
(`CallInv`), and one that succeeded has no unfinished message (`SessionInv`).  What the
routes and the other requests do is not asked, so that it holds for every answer of the
servers.  No assumptions.

**Opening a database** (`ServicesProofs`).  `VersionIsTrue`: for every list of
migrations that ends each one with its version, any number of processes and deaths at
any statement, the version in a file is that of the tables in it, a process that is
ready has them all; `OthersFilesAreKept`: damaged or newer files are left as they were.
What TLC checks for three shapes of the six stores is so for every list.  The invariant
`OpeningInv` adds where each process is in the script and what it has made
(`OpenerInv`): all that comes before its place is in the file, or will be with the
transaction it holds; and that the version in the file is the number of some version
statement before which all is made (`FileInv`).  A process that starts from that version
starts at the right place, since no two version statements have one number (lemma
`SameVersion`, from `FiniteSetTheorems`).  `TolerantStoresOpen`: no sound file is
refused, if all statements are IF NOT EXISTS and each migration is committed with its
version.  `OpeningsAreSafe` is the three together.  Without the first, run
`memory_first_open` refuses one; without the second, a process may meet the lock of
another for as long as it waits (`Locked`).  Assumption: `DatabaseOpeningAssumption`
(the last statement of a script is a version; the mark of no writer is no process).

**Messages** (`ServicesProofs!NothingForgotten`).  For any number of listeners and
messages, and whatever fails, Telegram forgets no message that nobody has handled, a
listener handles each once and in order, and the standing approval covers only its
screenshot.  The invariant `TelegramInv` says of each listener that it has handled,
once each, what Telegram keeps below its offset, and nothing from there on
(`HandlingInv`); that its batch is an interval that leaves out nothing kept from the
offset on, so that moving the offset past the first of it skips none (`BatchInv`); and
where it may be with the standing approval (`StandingInv`).  What others confirm only
shortens these intervals (lemma `OthersWait`).  Assumption: `TelegramAssumption`.

**Schedules** (`ServicesProofs`), for any schedules, commands, interval and number of
ticks of the clock, and whatever handlers do or commands die of.

- `TicksRunAllDue`: a tick that reported its runs has run what was due in the list it
  read.  By `TickInv` it has run, at each of its places, the due ones of the part it is
  through with.
- `SettledRunsStay`: what a tick alone at work ran and wrote back is never run again for
  the same time.  By `SettledInv` the row of a settled run is due later, if it is there
  at all; but a tick works on a list it read, from which a row may since have been removed,
  and writes the row back, so the same has to be said of what a tick has listed (`Later`),
  of what is still being added (`AddingInv`), and of any two commands (`PairInv`): a tick
  that is alone has no other beside it, and nobody has listed what another still adds.

`TicksAreAccounted` is both; `SchedulerInv` is all of these.  Assumption:
`SchedulerAssumption` (an interval is not zero, so that a row written back is due
later).

**Tools** (`AssistantProofs`), for any requests, with any hooks, modes of the policy and
kinds of tools, and wherever the process dies.  `StoriesAreTold`: what is published of a
request is one story: nothing runs that was not allowed, and approved if it was asked
for, and it ends once, with what became of it.  `FileIsWhole`: only a write that asked for
it leaves a torn file.  The invariant `ToolsInv` says of each place of the pipeline what
has been published when a request is there (`StoryInv`): that nothing ended it yet, that
one still asked about has not started, and that one about to run is cleared; and it ties
the child processes and temporary files to the requests that made them (`ChildInv`,
`FileInv`), which is what `FileIsWhole` needs as a write is two steps.  No assumptions.

**Conversations** (`AssistantProofs!ContextIsTold`).  For every style, number of turns and
length of the history, whatever fails, is interrupted or is heard late: the model is sent
the prompt, then what was said, in order, each answer after its question, with no turn
that failed and no more than the history allows.  `ChatInv` adds what the loop may rely on
at each place: all that is in the context, or failed, is of earlier turns (`Before`), so
that a new question keeps the order; while the model answers, the question is the last
of the context (`Asked`), so that a failure takes back that question and nothing else;
and how long the context may be there (`LengthInv`), since only an answer trims it.
The trimming keeps a suffix (lemma `Trims`).  Assumption: `ChatAssumption`.

**Memories** (`AssistantProofs`), for any memories, clients, versions of a text and calls,
and calls that die at any statement.  `VectorsAreOfTheirText`: of a memory on which no two
calls overlapped and none died (`raced`), the vector is of its present text when nobody
works on it.  `ForgottenIsNotRecalled`: a recall lists nothing that had been forgotten, and
not been revived by an update, when it began.  `MemoryInv` says what a call holds at each
of its places (`PlaceInv`): that the row it read is that of the table if nobody else works
on it, that the vector is gone while a new one is being made, that what is to be saved is
of the present text (`WorkInv`); and that two calls at work on one memory have marked it
as raced, which makes the first hold just where it is needed.  Assumption:
`MemoryAssumption`.

**One run shown** (`ControlPlaneProofs!OneRunShown`).  For any number of requests and
runs, a page shows the result, error, approvals and end of one run, and how it ended
if it is over.  The facts are gathered in two looks, at the slot and later at the
broker's queue.  `ControlInv` says why that is sound: the slot is replaced only when
its run's thread has ended, so only the run in the slot is alive (`WorkerInv`); what a
request holds from its look is one run's, and of a run it saw over, the thread has
ended for good (`SeenInv`, lemma `ClientStays`), so that nothing of it can be waiting
when the queue is read.  Assumption: `ControlAssumption`.

**The background server** (`ControlPlaneProofs!ServeKeepsItsPromise`).  For any number of
process ids, reused or not, and any commands that cross: a start that reported a failure
has left no server behind; and where no server was started beside another or beside its
file (`mixed`), a stop kills the server and never a program that got its id.  `ServeInv`:
the server of a start is there only while the start waits for it, or after it
reported it or was interrupted (`ChildOf`); and, as long as nothing is mixed, the server
is that of the state file and of the start that waits, and what a stop has verified has
not become another program (`AloneInv`), since an id is reused only after its process
ended.  Assumption: `ServeAssumption` (the mark of no process is no id, and a server
started from a terminal is no command's child).

**Configurations** (`ControlPlaneProofs!ConfigurationsAreLoaded`).  For any set of
sections, each with every single edit of the document and any variable or all of them: a
configuration that is built says what was written, one without a mistake, of a file that
can be read or of none, is built, and what is not built is refused, but for what escapes
the loader (`ExplainsEveryRefusal`, section 4).
`ConfigInv` keeps the tree, at each stage of `load_config`, to the merge of what was
read by then, so that the rest is about that merge: a value can only be absent from it
where the document has something else for a mapping above (`DocInv`); such an edit is no
mistake when a variable makes that mapping anew, except that a section with a field
that is always read then lacks it; and whatever else was written is in the tree as it was
written or as a variable says.  Assumption: `ConfigurationAssumption` (the
sections are those of the schema).

**Pages** (`ControlPlaneProofs!PagesAreTold`).  Of a page of any length, any tags, cut
anywhere: what it hides is not shown; as long as no tag among what is hidden goes
without its end (`unended`; disagreement 4 is what happens then), what is told is all it
shows, or, when it says so, a first part of it with nothing left out; it is in order;
and the first words of the k-th item of a numbered list bear the number k, however lists
are nested.  The extractor never sees the page, only tags and texts, so `PageInv` keeps
the two beside each other: what is held is visible and in order, with the words not yet
in a block last (`KeptInv`); an open element that hides what is in it is skipped at its
depth at least (`SkipInv`), and while `unended` is false at exactly that depth, and no
visible text is lost (`WholeInv`); what is told is all the blocks or a first part of
them (`ToldInv`), of which lemma `CutKeeps` says what it keeps; and the extractor's
stack of lists is an increasing choice of the open elements, all their lists, with the
counter of a numbered one the number of its items (`ListsAt`), so that an item that
begins has its number (`ItemBegins`) and a block keeps it (`Bears`).  Each callback is a
lemma about the extractor alone (`TagStarts`, `TagEnds`, `DataIsHeld`), and each action
puts the page beside it.  No assumptions.

**Only model-checked:**

- all liveness, which is out of the prover's reach.

Every safety property of a passing run is proved for every value of the constants,
under the hypotheses named above (`UniqueIdOf` for the gate, `OneAtATime` for four
properties of a task).

## 7. Where the code and its documentation disagree

1. `task_stuck_ready`: `docs/ARCHITECTURE.md` says that a finished task never
   leaves its plan at ready.  A second approval that read the draft before the run
   saves ready over the finished run's plan and drops the link to its task.
2. `approval_reused_id`: `agent/approval.py` says that nothing is ever
   auto-approved.  An approval recorded as its request times out stays, and
   approves the next request with the same id; the local provider numbers the
   calls of every response from `call_1` when the server gives them no ids.
3. `memory_first_open`: `memory/sqlite_repository.py` and `docs/MEMORY.md` say that
   a migration step is one transaction.  The sqlite3 module opens none for CREATE
   statements, and those of the memory store have no IF NOT EXISTS: a process that
   dies after the first leaves a sound file that every later opening fails on.  (Two
   that open a new file together: the second is refused until the first has written
   the version.)
4. `webfetch_hidden_void`: `tools/network_tools.py` and `docs/TOOLS.md` promise the
   visible text of a page.  Inside a skipped element every start tag counts as a
   level, and a void element has no end tag to take it back: after
   `<noscript><img></noscript>` the rest of the page is dropped.

The diagnostic configurations of section 4 show further places where the code
does less than one would expect.

## 8. Abstractions

- *Data.*  Tool arguments are a "kind" (signature) with the policy's verdict; plans
  are a number of steps; messages, prompts and outputs are left out; output is
  counted in pieces.
- *Bus.*  Handlers do not call the bus themselves; services' notes are published
  from the thread of the loop; `clear()`, which nothing calls, is left out.
- *Runtime.*  Nothing registered has a dependency, so the registry's ordering is
  left out; health checks change no state.
- *Task.*  Each task id is used by one `create_task` (they are random); a step's
  tool either does its work or not, and a crash may come after it did.
- *Agent.*  Memory retrieval and delegation from inside a run are not in it; the
  history store is the row a run leaves.
- *Web fetch.*  The redaction of secrets (`redact_secrets`) is left out: the texts of a
  page are taken to be none.  The cut at `max_chars` falls between texts, not inside one.
- *Delegation.*  Task ids are distinct; the two requests of one sweep are one step;
  the case of an empty event stream cannot arise with this provider; checks before
  a session is made that change nothing (depth, provider, working directory) are
  left out.  The listed run has one delegation, since two multiply the space and
  share only the session count, which `DelegationSessions.cfg` has.
- *Tools.*  The hooks' tests of paths, arguments and command classes are one bit of
  a request, and their grants another.  The git, process and media tools read or
  start one command and keep nothing.
- *Planning.*  The clauses a goal splits into are a number; which of them need
  approval is a choice.
- *Memory.*  Ranking and counting are left out: a recall lists what may be ranked
  and reads it later.
- *Intelligence.*  The forms of messages and streaming are left out; a timeline is
  the state of its last message.
- *Chat and voice.*  Recording, resampling and playing are a sound that starts, goes
  on and ends or is stopped.
- *Configuration.*  The default paths are Windows paths.  The model takes them to be
  absolute, as they are there; elsewhere the validation refuses them unless a file or
  a variable overrides each.
- *Control plane.*  What the services do for a request is modelled by what they
  answer; the broker is the set of runs that wait.  That a thread cannot be started
  after the slot was reset (`control/state.py:374-381`) is left out.
- *Background server.*  The look at the process and the probe of its page are one step,
  as are the signals that end it: an id that is reused between the two looks, or between
  SIGTERM and SIGKILL, is not in the model, so that a stop kills no other program is a
  little stronger than what the code can promise.
- *Recall.*  `NothingForgottenRecalled` is of what was forgotten before a memory's row is
  read; `VectorsMatch` and `NoSettledRunRepeats` are of memories and ticks that nothing
  overlapped: that overlaps break them is in the hazards.

## 9. What is not modelled, and why

- *Workspace*: a scan of the file tree into a table; only the opening of its database
  is modelled, with the others'.
- *Vision*: screen capture and grounding, image processing behind the tool pipeline.
- *MCP*: a loop that answers one JSON-RPC line after the other.  It keeps nothing but
  the catalog of the tools it may call, and what a call does is the tool pipeline's.
- *Interface*: the rendering of a status.  The packages `agents`, `security` and
  `integration` hold no code.
- Of the parts that are otherwise modelled: memory retrieval
  and delegation from inside an agent's run; the checks of a delegation before it
  runs; the health reports and the registry's dependency order; the lists, health
  cache and page of the control server; the redaction of the audit log; the audio back
  ends; the argument parsing and printing of the command line.

## 10. Plan

The core and the services are modelled, and the safety properties of the runs are proved.
What is left is liveness, which stays with TLC, and to model, if the code grows there:
delegation from inside an agent's run, which composes `AgentRun` with `Delegation`.
