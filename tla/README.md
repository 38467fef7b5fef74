# A verification project for local-ai-agent

TLA+ models of the local AI agent runtime (`src/local_ai_agent`), model-checked with TLC and
proved with TLAPS.  Paths below are relative to the repository root.

The agent runs coding tasks with a local model.  A task is a *run*: a model answers turn by turn
and calls tools; a call of a risky tool stops the run until a person allows it; the allowed call
then becomes a durable *action* in SQLite, which whatever process is alive (the HTTP API or one
of several dispatch workers) claims, executes exactly once, records, and continues the
conversation from.  The promise that matters most is that a side effect a person was asked about
happens **at most once, only with consent, and is recorded truthfully**, whatever processes
interleave, die or come late.  That part is modelled and proved about first.

## 1. Inventory

| Component (source) | State | Operations | What is hard | What makes it correct | Model |
|---|---|---|---|---|---|
| Durable dispatch ledger (`db/repository.py`, `db/schema.py`) | tables `pending_actions`, `action_attempts`, `workers` | create, approve, reject, register, heartbeat, drain, stop, claim (two paths), renew, recover, finish | SELECTs run outside the transaction of the UPDATE that follows; two claim paths; leases and a shared clock; death of an owner | an action is decided, claimed and settled at most once, in that order; evidence rows match; a dead owner's lease ends | `ActionLedger`, `ActionLifecycle` |
| Run lifecycle (`runtime/lifecycle.py`, `runtime/state_machine.py`, `db/repository.py`) | `agent_runs`, `run_controls`, `session_locks` | register, transition, cancel, require/resolve authorization | each call is several transactions; the state is checked in one and overwritten in another | one thread of control per run; one run per workspace; the person answers what was shown | `RunControl`, `AgentRuntime` |
| Durable continuation (`runtime/continuation.py`, `runtime/run_executor.py`) | a claim in memory | `continue_approved`, `resume_claimed_action`, heartbeat | competes with workers; heartbeat shares one event loop with blocking tools; late result | as the ledger | `AgentRuntime` |
| Dispatch worker (`runtime/worker_dispatch.py`, `runtime/worker_main.py`) | process, worker row | start, run_once, sweep, execute claim, SIGTERM | process death at any point; operator drains through another process | claims settle; a drained worker stops claiming | `AgentRuntime` |
| ReAct loop and its drivers (`runtime/react_loop.py`, `evaluation/coding_tasks.py`) | turn counter, messages | turns, cancellation check, authorization pause, terminal record | three kinds of process run it, one run at a time | it ends; it parks before anybody else takes the conversation; a continuation goes on from the whole conversation | `AgentRuntime`, `ToolPipeline` |
| HTTP API (`api/app.py`) | none of its own | cancel, authorize, continue, resume, drain, startup sweep | requests interleave at awaits only; process may die between two transactions | answers land on the action shown | `AgentRuntime` (partly) |
| SSE stream (`api/app.py: EventBroker`, `db/repository.py`) | event log; one queue a run in the API process | record, publish the newest, open, take, disconnect | one queue for all subscribers; history and queue overlap; other processes record but do not publish | a client reads in order and once; a published event is missed for one reason only | `EventLog`, `EventStream`, `RunEvents` |
| Tool pipeline (`runtime/tool_router.py`, `permission_gate.py`, `budget_manager.py`, `loop_detector.py`, `retry_engine.py`, `verification_engine.py`) | budgets, call history | route, authorize, charge, detect, verify, retry | order of the gates; what is charged when a gate refuses | no handler without every gate; bounded calls; success only when verified | `ToolPipeline` |
| Plans and delegation (`runtime/plan_tracker.py`, `runtime/delegation.py`) | plan steps, units, their events | validate, start, complete, fail, skip; release, admit | dependencies that can no longer be met; status and event are two writes; cancellation at the await | a plan stalls for a cause; the log tells the truth about the units, and their order | `Dependencies`, `PlanTracker`, `Delegation`, `RunEvents` |
| File mutations (`runtime/transaction_manager.py`, `tools/mutation.py`, `runtime/docker_sandbox.py`) | project directory, backups, table `file_backups`, containers | snapshot, replace, check, roll back, record, verify; run a container | failure or crash between steps; second mutation over the first's backup; two runs and containers in one directory | old or new; a rollback restores what was there; a success can be undone | `FileTransactions` |
| Memory and context (`memory/`, `tools/memory.py`) | table `memories`; tiers of a context | store, sweep, search, verify; assemble, fit, cut | expiry judged in one transaction and used in another; what a hint costs | nothing expired is found; the budget is kept; evidence goes in first | `Memory`, `ContextAssembly` |
| Dispatch pool (`worker_dispatch.py: LocalDispatchPool`) | child processes | start, stop, kill | — | — | its effect only (`StopSignal`, `WorkerCrash`) |
| Model client, prompts, security policies, evaluation scoring, configuration | none, or pure functions | — | I/O and parsing | — | not modelled |

How they interact: the processes that work for one run (its driver, the API, workers) share one
SQLite file and nothing else.  Which file that is, is a setting: an evaluation driver opens one of
its own below its task's directory (`coding_tasks.py:168`), and the models are about processes that
are configured to share one, as authorization, dispatch and cancellation presuppose.  A driver parks its run by writing a PENDING action and the request shown to the user; the
API's `/authorize` turns that into APPROVED or REJECTED; a worker's poll or an API `/continue`
claims it (EXECUTING), runs the tool, settles the row (EXECUTED or FAILED) and goes on with the
run's ReAct loop, which may park again.  `/cancel` sets a flag the executors read.  A sweep (at
API start-up, at worker start-up, and periodically in each worker) fails EXECUTING rows whose
lease has expired; nothing ever makes them claimable again.

Around this core lie three parts that meet it at one place each.  A tool call that changes the
workspace is a *file transaction*; all runs of an installation share one project directory, so
that transactions of two runs, and containers, can meet at a file.  All processes append to the
*event log* of a run, from which the API serves the progress of delegated units and its SSE
streams.  And a run reads the *memories* that runs have stored when it assembles its context.

The hazards these interactions bring are listed at their lines in `PROJECT.json`, each with the
properties that watch it.

## 2. Modules

| Module | Lines it stands for | Role |
|---|---|---|
| `Identities` | — | the keys shared by the two groups of tables |
| `ActionLifecycle` | the promise (`RecoveryClass.NEVER_RECLAIM`, "never claim it again") | abstract specification: phase and holder of each action |
| `ActionLedger` | dispatch half of `RunRepository` | one action per repository operation; any caller, any order |
| `RunControl` | run half of `RunRepository`, `VALID_TRANSITIONS` | one operator per transaction |
| `AgentRuntime` | lifecycle, continuation, worker, loop, API | the processes, composed over both halves |
| `ToolPipeline` | `ReActLoop.run`, `RunToolExecutor`, `ToolRouter` and its controls | one conversation and the gates every tool call passes |
| `FileTransactions` | `TransactionManager`, `MutationTools`, containers of the sandbox | the calls that change the workspace, of several runs |
| `Dependencies` | the graph and readiness code `PlanTracker` and `DelegationCoordinator` have twice | operators |
| `PlanTracker` | `PlanTracker` | steps of a plan; what the coordinator is shown to refine |
| `EventLog` | table `agent_events` of a run | shared by the next two |
| `Delegation` | `DelegationCoordinator`, `delegation_progress` | units, their events, and what the API rebuilds from them |
| `EventStream` | `EventBroker`, `publish_latest_event`, `stream_events` | the streams of one API process |
| `RunEvents` | — | the three as the clients of one run meet them |
| `Memory` | `MemoryRepository`, tool `memory.store` | transactions on the table, any number of runs |
| `ContextAssembly` | `ContextManager.assemble`, `_fit_budget`, the cut of a text | extends `Memory` by the assembly of one run |
| `ActionLedgerProofs` | — | theorems about `ActionLedger`, for all values of its constants |
| `AgentRuntimeProofs` | — | theorems about `AgentRuntime`, built on those of the ledger: types, the ledger's moves, at most once |
| `ThreadOfControlProofs` | — | its second part: one thread of control a run, consent, what is shown, outcomes, workspaces |
| `ToolPipelineProofs` | — | theorems about `ToolPipeline`: every safety property of the `pipeline` run |
| `FileTransactionsProofs` | — | theorems about the file transactions |
| `PlanningProofs`, `EventStreamProofs` | — | theorems about tracker and coordinator, about the streams, and (in the second) about `RunEvents`, where they share the log |
| `RecallProofs` | — | theorems about memory and context |
| `MCActionLedger`, `MCAgentRuntime`, `MCToolPipeline`, `MCFileTransactions`, `MCRunEvents`, `MCContextAssembly` | — | small instances for TLC |

Each module keeps, next to the definition it varies, the faulty variants that its properties are
tested with; they are marked as such and part of no specification.

### ActionLedger

Variables are the tables: `actions[a]` is the row of `pending_actions` (its status, `worker_id`,
`lease_expires_at`, `dispatch_attempt`, the two timestamps the claims order by, and whether the
FAILED status came from a sweep), `attempts[a]` the `action_attempts` rows of that action in id
order, `workers[w]` the status column.  `now` is the wall clock the processes share.

`sqlite3` with `isolation_level="IMMEDIATE"` opens a transaction before the first write, not
before a SELECT.  So `claim_dispatchable_action`, `claim_approved_action` and
`recover_stale_executing_actions` are *two* steps here (`SelectDispatchable`/`ClaimDispatched`,
`SelectApproved`/`ClaimApproved`, `SelectStale`/`RecoverStale`) with the selected rows, and the
time the call took as its own, in `hand[p]` meanwhile.  `LoseClaim` is `rowcount = 0`.  `Abandon`
is the death of a caller between the two.  An operation that begins with its write is one step.
`ledgerVars` steps are open to any caller in any order, which is more than the program does; what
holds here therefore holds for tests, scripts and future callers.

### RunControl and AgentRuntime

`proc[p]` is a program counter with the locals the code keeps across transactions.  `pc` names the
place in the program (`lock`, `loop`, `park`, `claimed`, `running`, `inTool`, `settle`, ...);
`step` the place inside `cancel_if_requested` (`flag`) or `transition` (`check`, `write`,
`release`), which every process calls; `After` says where each call site goes on its results
`False`, `True` and `LifecycleError`.  The process kinds are

* a **driver** per run (`_run_task`): `RegisterRun`, `LockWorkspace`/`WorkspaceBusy`/`RefuseRun`,
  three transitions to EXECUTE, the loop, the terminal record;
* **dispatch workers**: `BootWorker`, `SweepStep`, `HeartbeatWorker`, `ClaimStep`, `StartTool`,
  `BlockTool`, `RenewLease`, `EndTool`, `SettleAction`, `BuildFails`, `DropClaim`, `StopSignal`,
  `WorkerExit`, `WorkerCrash`;
* the **API process** (`Api`: `CancelRequest`, `AuthorizeRequest` and its `Approve`,
  `ConfirmApproval`, `Reject`, `DrainRequest`, the startup sweep) and its **continuations**
  (`ContinueRequest`, `ContinuationStep`), one per `/continue` request.  These are coroutines of
  one event loop: `MayRun` lets one of them act only while every other is at an await (`AtAwait`).

History variables (`ran`, `outcome`, `consented`, `drained`) record what no column does and guard
nothing but the bound on drain requests.

Abstractions, all of data: a tool call is *blocked*, *verified* or *failed* and a turn has one
(`ToolPipeline` opens both up); model answers are a choice; timestamps that only inform are
left out.  Abstractions of control, each with its reason:

* the worker-row check and the row SELECT of a claim are one step: the status read first is not
  used after, and a drain between the two SELECTs gives the same claim as a drain right after both;
* `create_pending_action` returns the *newest unsettled* row of the run; the model uses the row it
  inserted.  `OneThreadPerRun` is what makes the two the same, and is checked;
* reading `cancel_requested` and the state is one step: the flag is never cleared;
* a continuation that finds no checkpoint, or another action's, fails its claim in the code; the
  model's drivers always leave one, so these two refusals cannot happen and are left out;
* a driver is not killed (its run then simply stays where it is); `database is locked` errors are
  not modelled: a worker they end is a `WorkerCrash`.

### ToolPipeline

The same run seen from inside its conversation, one *session* after the other: the driver's
`ReActLoop.run`, then one per approved action, which executes the approved call before it goes on
to the model.  A `Call` stands for a tool name with its arguments, so that equal calls are what the
loop detector takes for equal; `Readable`, `Registered`, `WellFormed`, `ShellCall` and `Risk` are
what the gates ask of it.  `todo` holds the calls of the current answer that are still to be
executed; `results` the tool messages that follow the last answer (what lies before it is never
dropped and is left out).  `CheckCancellation` is the executor's test before each call;
`ContinueEndsRun` is the same test as a `/continue` request makes it, from another process and at
any time: it ends the run under the session, whose own test then finds a terminal run and passes.
`RefuseCall`, `ParkCall`, `BlockRepeat` and `StartHandler` are the exits of `ToolRouter.execute` in
its order: registry, arguments, permission, budget, repetition; `EndHandler` is the handler's
result with its verification and retry decision.  `FreshControls` resets `spent` and `seen`
because `build_secure_run_runtime` makes them anew for every session.

The history variables are `log` (handlers started; with each, whether a cancellation had been asked
for and whether the run was over), `evidence` (every result since the last
answer, whatever became of the messages) and `grants`.  Abstractions: the cost of time is one
counter that moves while the model or a handler is awaited; the result of a handler is one of the
five the shipped handlers return; sessions follow one another (`OneThreadPerRun`), and a crash in
one is `AgentRuntime`'s subject.  `terminal` is whether the stored state is terminal: of a driver's
outcomes only FAILED is stored, because the state machine refuses the others (see the end of
section 3).

### FileTransactions

`disk` is the project directory, `backup[r]` the directory `backups/<run>/`, `rows[r]` the run's
`file_backups`.  Every run has one call at a time and a process of its own, so `pc`, `job`,
`before` (the hash of the snapshot) and `told` are per run.  A text stands for its hash.  What
POSIX does at once is one step (`os.replace`, `unlink`), what it does not is two: `shutil.copy2`
empties its destination first (`StartBackup`/`EndBackup`, `StartRestore`/`EndRestore`), and between
them a reader, or a crash, finds `Torn`.  The temporary file is private to its call and therefore
part of `Apply`; that a failed write leaves it behind is left out.  Every step may fail
(`BackupFails`, `OperationFails`, `RestoreFails`, `RecordFails`), and the three places where the
code catches differently are told apart: before the `try` block an error goes to the router, inside
it to the rollback, and an error of the rollback replaces the first.  A container (`StartSandbox`,
`BoxWrites`, ...) writes what it likes as long as it runs; `SandboxTimesOut` may leave it running.

`clash[r]` is history: somebody else touched the file of the call in hand.  The workspace lock is on
a workspace *name* while the project directory is one per installation, so `clash` is reachable,
and no property is claimed for such calls but the row of a success.  What it hides is real: a run's
rollback may undo another run's verified write, or what a container wrote.  Also real and outside the properties: the second
mutation of a path by one run overwrites the backup an earlier `file_backups` row points to, and
no code but a test ever calls `rollback` or `mark_backup_restored`.

### Dependencies, PlanTracker, Delegation

`needs[i]` is the set of what number *i* depends on.  `Cyclic` says that there is a non-empty ring
of things each of which depends on one of the ring, which is what the depth-first `visit` finds.
`PlanTracker` has one action per method.  In `Delegation`, `Enter` is the pair every change of a
unit is made of: the status, then `_record`, which may raise after the status has changed; `missed`
remembers for which units it did.  `execute_next` awaits the specialist between `ReleaseUnit` and
`AdmitEvidence`, `FailUnit` or `CancelCall`; the last is `CancelledError`, which no `except` of the
method catches.  `LoseCoordinator` is the end of its process; the next coordinator records a new
`plan_persisted`.  `ProgressOf` is `delegation_progress`.  Both classes are used by the tests only,
so that every order of calls is open.

Behaviours the module shows: a unit that was cancelled, or whose `unit_started` could not be stored,
stays ACTIVE and its coordinator releases nothing any more; the order of the plan is enforced
between the units of *directly* dependent steps, not through a step without a unit.  Left out:
`update_run(state=run.state)` at construction writes a state that was read in an earlier
transaction (`delegation.py:95-98`), the same stale write as `lifecycle.py:61`, which
`AgentRuntime` has; and `GET /delegation` lists a unit twice after a second `plan_persisted`.

### EventStream, RunEvents

`queue` is the broker's queue of the run; `opened[s]` and `sent[s]` belong to one stream.  The API
process is one event loop: between recording an event and publishing the newest there is no await,
so streams step only when `api = "free"`; another process may record in between, and then *its*
event is published in place of the API's.  Events of workers and coordinators are never published
by those who record them.  `RestartApi` loses queue and streams.  `RunEvents` starts a run with its
plan and its units and moves one of the three parts in each behaviour: they share nothing but the
log, of which the stream part has `OthersRecord` and the tracker no use at all, so that
interleaving them would multiply states and show nothing.

### Memory, ContextAssembly

`table` is the table by key; `clock` the wall clock.  A call is a sequence of transactions with the
time each of them read: `JudgeRecord` and `CommitRecord` for `upsert` (the confidence is judged
before the write lock is there), `ReadClock` and `MarkExpired` for the sweep, then `SelectMatches` or
`VerifyStore`.  Ranking is a choice: any set of at most `TopK` fresh records.  The second sweep of a
query without a word (`search` calls `recent`) is left out.

`ContextAssembly` extends it: `BeginAssembly` is the search of `Reader`, `GatherItems` makes the
three tiers, and each further step places one item.  Texts are lengths; one that may be cut is the
sequence of the places where its lines end, and the length of the hint is computed (60 characters
and the digits of two numbers).  `Latest` has Python's `[-0:]`, which is the whole list: a
`RECENT_TOOL_RESULTS` of 0, which the configuration accepts, means *all*.

## 3. Runs

All bounds are CONSTANTS of the `.cfg` files.  `MaxTime` stops renewals, after which the clock runs
on until every lease has expired; `LeaseSeconds = 1`, so one tick takes a lease from live to
expired; `MaxAttempts = 1`, as an action can be claimed once only (a larger bound is never used up);
`Disturbed` names the workers that may be drained (once), signalled or killed; `MaxTurns` bounds a
loop; `MaxAnswer` the calls of one answer, `MaxSessions` the sessions of a run, the driver's included; `ApiMayCrash` allows a restart of the API process.  `runtime` uses symmetry of the action
identifiers, which differ in name only (same run, same tool, no operator chooses one).  Deadlock checking is off: when every
process has stopped, the system has stopped.

| Run | Instance | Question and answer |
|---|---|---|
| `ledger` | 2 actions of one run with different tools, 1 worker, 1 continuation, the API, renewals up to time 2; 613 070 states | Whatever order callers use: evidence rows match the status, a lease never lies more than `LeaseSeconds` ahead, owners never change, and the ledger implements `ActionLifecycle`.  Two actions of a run let one decision cover both; two tools let one be claimed by `/continue` only. |
| `runtime` | 1 run, 2 actions in a row, 1 worker (drained, stopped or killed), 1 `/continue`, cancellations, both answers; 632 283 states up to symmetry | At most one execution, consent first, one thread of control, what is shown is undecided, outcomes are true, and the processes make only the ledger's moves. Two actions let the executor of the first park the second. |
| `two_runs` | 2 runs on one workspace, 1 `/continue`, API crashes, a tool that yields and renews | A run nobody asked to cancel owns its workspace until it ends. |
| `liveness` | 1 action, 2 workers of which one may be disturbed, `FairSpec`; 110 018 states | An executing action settles and an approved one is taken, while a worker lives. |
| `pipeline` | a read, a write, two risky calls, a risky one with bad arguments, an unknown and an unreadable one, two calls an answer, two turns a session, a driver and a continuation, a budget of two calls; 353 084 states, fair | Budget, repetition, consent, cancellation, verification and retry advice hold however calls are mixed in answers and wherever a cancellation falls, and a session ends.  Two calls an answer let a risky call follow a safe one; a budget of two is reached by a session that starts with an approved call.  (The safety properties were checked once with a third session as well, 3 124 160 states.) |
| `files` | 1 file, 2 contents, a run with two calls and another with one; 2 073 430 states up to symmetry | Whatever fails, and wherever a process dies or another gets in the way: old or new, a failed transaction changes nothing, and what was there lies beside it.  Two calls let a second mutation meet the backup of the first; the second run is the disturbance. |
| `events` | 8 contracts (two sound, six wrong in one way each) with up to 3 steps, 2 coordinators, 2 streams, 4 events of which 3 published; 66 335 states up to symmetry | A plan stalls for a cause only; the log tells status and order of the units through restarts; units progress like plan steps; streams read in order and lose an event for one reason only.  The ring of three is one that a search for pairs would overlook; the second coordinator starts over on the log of the first. |
| `memory` | 1 run that assembles, 1 that stores twice, 2 keys, 2 values, a lifetime of 1, time up to 2, `TopK` 1, a budget of 150; 1 955 006 states | Nothing expired is found, the budget holds but for a hint, evidence comes before history.  The lengths lie around the limits of the code (48, 64, and the budget), with one text of a hundred lines, for a hint of two more digits. |
| `ledger_sweep` | as `ledger` | *Violated*, see findings. |
| `cancelled_runs`, `denial` | 1 action, 1 worker, 1 `/continue` | *Violated*, see findings. |
| `replay` | the same calls, three sessions | *Violated*, see findings. |

`memory` runs `MCSpec`: it follows an assembly past its search only where nobody stored before,
because of the table the later steps see the hits alone; `HitsWereFresh` is checked of every
interleaving, and the theorems are about `ContextSpec` itself.

Why the bounds are enough: a row goes through its phases once, so races about it need its owner,
one competitor and one sweeper: the worker, the continuation and the API process.  Every process
kind is in `runtime`; a second worker adds a second competitor of a kind already there and is in
`liveness`, where it is the survivor.  The ledger's results do not rest on bounds at all: section 4.

With the shipped tools a lease is never renewed during a tool: every handler blocks the event loop
(`docker_sandbox.py:103` is `subprocess.run`), so `_heartbeat` does not get to run.  `runtime`
models that (`AwaitingTools = {}`), and sweeps under a working owner are in it; `two_runs` has a
tool that yields.

### Fairness

`FairSpec` has weak fairness of each process's own steps: the operating system schedules processes
and the event loop schedules coroutines, model calls and tools have timeouts, and the clock goes
on.  It has strong fairness of a worker's choice to sweep, because `run_once` sweeps whenever
`worker_recovery_sweep_interval_seconds` have passed: a worker that polls for ever sweeps
infinitely often, which the model's clock-free choice must be told.  `FairPipelineSpec` has weak fairness of a session's steps, for
the same reasons.  Clients, operators, signals
and crashes owe nothing, so approvals may never come and all disturbed workers may die;
`ExecutingSettles` and `ApprovedIsTaken` then conclude only that no worker is left.

### Findings

Four statements of the repository do not hold of the program; each run shows a shortest trace.

1. `ledger_sweep`: a renewal between a sweep's SELECT and its UPDATE does not save the action,
   whose lease the UPDATE does not recheck (`repository.py:752`).
2. `cancelled_runs`: a run cancelled while its request is open can still be approved, and a worker
   runs the tool: `cancel_if_requested` answers `False` for a run that is already terminal
   (`lifecycle.py:97`).  That answer has a second consequence, which `ToolPipeline` shows: a
   `/continue` that comes while the driver awaits the model or a handler looks for a cancellation
   itself (`continuation.py:60`) and makes the run CANCELLED; the driver's own test
   (`run_executor.py:49`) finds a terminal run from then on, and the driver starts every handler that
   follows, where `README.md:133` promises that a cancellation is honored before the next tool.
   What does hold is `CancellationEndsRun`: until the run *is* terminal, one handler at most is
   started after the request.
3. `denial`: a denial needs AUTHORIZATION_REQUIRED -> PARTIAL, which the table does not have: the
   run waits for ever with nothing to answer and keeps its workspace (`lifecycle.py:157`).
4. `replay`: the checkpoint of a pending action is older than the results of the calls before it
   in the same answer, so a continuation shows the model a conversation without them
   (`react_loop.py:168`); the calls after the risky one are neither executed nor answered.

More behaviours of this kind are in the models without a run of their own:

* a drained worker takes the refused heartbeat for a lost registration, registers, is ACTIVE again
  and claims (`worker_dispatch.py:65`; the design, `docs/multi-process-worker-dispatch-design.md:287`,
  says that it receives no new claims);
* every session counts from zero, so the budget stored with a run bounds a session and not the run
  (`secure_run_runtime.py:122`), and a call may be repeated in the next session though
  `loop_detector.py:11` speaks of repetition "within one run"; a session executes one approved call, so a limit on shell
  executions of one or more never refuses any;
* EXECUTE -> COMPLETE is not in the table either and the refusal is swallowed: a completed run stays
  in EXECUTE and keeps its workspace (`coding_tasks.py:161`);
* `transition` checks the state it read and then overwrites whatever is there (`lifecycle.py:61`),
  so a cancelled run can come back to life;
* a cancelled approved action is a result like any other to its continuation, whose loop goes on and
  is not cancelled again (`continuation.py:103`), for the reason of finding 2;
* the event queue is no fan-out (`app.py:38` calls it one): what one stream takes, the others miss;
  what workers and coordinators record reaches no live stream unless the API happens to publish
  after it; and a run without streams queues its events for ever;
* a write whose second look fails is reported as PARTIAL and stands (`mutation.py:205`), where
  `README.md:119` lets a write commit only after its verification; one whose backup row the database
  refuses stands as well;
* a plan with a skipped step never ends if another depends on it: `is_complete` counts SKIPPED as
  done, `_dependencies_completed` does not (`plan_tracker.py:46`, `:106`);
* a context may exceed its budget by 17 characters (`context_manager.py:206`), and a cut that shows
  no line says `lines 1-1`.

## 4. Proofs

`ActionLedgerProofs` proves, for every set of actions, runs, workers and tools, every lease length
and every clock bound, from `LedgerConstants` alone:

| Theorem | Says |
|---|---|
| `LedgerTypeCorrect` | `LedgerSpec => []LedgerTypeOK` |
| `LedgerEvidence` | `LedgerSpec => []EvidenceMatchesStatus` |
| `LedgerLease` | `LedgerSpec => []LeaseWithinHorizon` |
| `LedgerOwner` | `LedgerSpec => OwnerNeverChanges` |
| `LedgerRefinesLifecycle` | `LedgerSpec => ImplementsLifecycle`: the ledger implements the abstract life of an action |

The inductive invariant is the conjunction of the type invariant, the two checked invariants and
two facts neither mentions: `RowsFresh` (a row that has never been claimed has attempt 0, and only
a FAILED row is marked recovered) and `HandsPast` (the time a caller took as its own is not in the
future).
Without the first, `EvidenceMatchesStatus` says nothing about the attempt number a claim starts
from; without the second, the lease a claim writes, counted from `hand.at`, could lie beyond the
horizon.  One lemma per action shows that it preserves the conjunction; the refinement maps
each ledger step to a step of `ActionLifecycle` (a decision of several rows to `Decide(S, ..)`, a
sweep to `Expire(S)`) or to a stutter.

`AgentRuntimeProofs` adds, for every set of runs, actions, workers and requests, any number of
turns, and crashes or none, from the three named assumptions `LedgerConstants`, `RunConstants` and
`RuntimeConstants`:

| Theorem | Says |
|---|---|
| `RuntimeTypeCorrect` | `RuntimeSpec => []RuntimeTypeOK` |
| `RuntimeImplementsLedger` | `RuntimeSpec => ImplementsLedger`: every ledger theorem above holds of the running system |
| `RuntimeAtMostOnce` | `RuntimeSpec => []ToolRunsAtMostOnce` |

`RuntimeConstants` assumes that drivers, workers, requests and the API are different processes:
workers and requests name themselves with fresh identifiers (`worker_dispatch.py:46`, `secure_run_runtime.py:146`)
and a run's identifier never is one of a worker.

The inductive invariant `RInv` has the ledger's invariant `IInv` in it and four parts of its own.
`Procs` says what the locals of a process mean where it stands (a process in `settle` has an
action, one in `park` a run): without it a step that names "the action in hand" need not be a move
of the ledger at all.  `HandsOneRow` says that a claim has selected one row.  `ClaimsHeld` says
that a process between its claim and the start of the handler (`Holding`) owns its action and that
nobody has started the handler yet; `RanByOwner` that a handler is started once and only for a
claimed action.  The argument for at most once is then short: a claim needs status APPROVED, hence
no owner, hence no earlier start; the ledger keeps the owner for ever (`StepKeepsOwner`), so no
second process ever stands at the start of the same handler; and the one that does leaves `Holding`
by starting it.  `StepOK(p)` collects what a step of `p` does to all this, one lemma per part of
the program proves it, and `Advance` is the same for a step of the whole system, in which an API
restart moves several processes at once.

`ThreadOfControlProofs` proves the other safety properties of the `runtime` and `two_runs` runs, from
the same assumptions:

| Theorem | Says |
|---|---|
| `RuntimeOneThread` | `RuntimeSpec => []OneThreadPerRun` |
| `RuntimeConsent` | `RuntimeSpec => []ConsentBeforeRun` |
| `RuntimeShownIsPending` | `RuntimeSpec => []ShownIsPending` |
| `RuntimeOutcome` | `RuntimeSpec => []OutcomeIsTrue` |
| `RuntimeWorkspace` | `RuntimeSpec => []WorkspaceOwned` |

The thread of a run is either with a process (its driver, a worker, a continuation) or with one live
action of it (PENDING, APPROVED or EXECUTING), and no lock says so: the program has to hand it on
rightly.  `TInv` is the inductive form of that.  `OneSpeaker` and `OneLive` say it of processes and of
actions; `SpeakerHasLive` and `ExecutorInPlace` relate the two: while a process speaks for a run,
the run's live action is the one it is about to show or the one it has claimed and not yet settled, and an
EXECUTING row has an owner who stands where it may settle it, or who is gone.  `ShowsOwn`, `ShownOnly`
and `AnswerIsForOne` say where a request for consent is: with the process that has stored it, with the
person, or with the API that has heard the answer, and never in two of these places; `DriverFirst` and
`ApiAfterDriver` start the chain.

Almost all steps leave the thread where it is (`QuietStep`), and one lemma (`QuietKeepsThread`)
is enough for them.  Five do not, and each has a lemma: a process asks (`Asks`: the PENDING row is
written), shows and leaves (`Shows`), the API takes the answer (`Hears`) and stores it (`Decides`),
an executor claims (`TakesUp`).  Consent follows from `OnlyConsented`: only `Decides` makes a
row APPROVED, only after `Hears` of that row's run, and `OneLive` says that it is that row.

Outcomes need the thread twice (`OInv`): a process with an action in hand has written no verdict
before the handler ended (`Honest`), and a row that nobody has claimed has none (`NothingEarly`); that
the one who settles is the one who ran it is `OneSpeaker` again.  Workspaces need more of the state machine
(`WInv`): which state a process is about to write (`GoalFits`), that an uncancelled run in a terminal
state has nobody left who would write to it (`EndedAlone`), and that a lock is released only after
that (`Releasing`).  Each of these invariants was checked with TLC before it was proved.

One thing was wrong in the model and came to light here: the two arms of `Swept` overlapped for the
API process, so that its place after the startup sweep was whatever `CASE` chooses; TLC takes the
first arm and never showed it.  The arms now exclude each other (`api/app.py` has only the startup
sweep, a worker only its own).

`ToolPipelineProofs` proves every property of the `pipeline` run, for every set of calls, any
budget and threshold, any number of turns and sessions and answers of any length, from
`PipelineConstants` alone:

| Theorem | Says |
|---|---|
| `PipelineTypeCorrect` | `PipelineSpec => []PipelineTypeOK` |
| `PipelineSessionWithinBudget`, `PipelineNoRepeatInSession` | what a session can start at most |
| `PipelineRiskyOnlyAsGranted`, `PipelineConsentIsNotWasted` | consent is spent once, and only in vain for want of time or shells |
| `PipelineCancellationEndsRun` | one handler at most is started between a cancellation and the end of the run |
| `PipelineSuccessMeansVerified`, `PipelineRetryIsSafe` | what the model is told of a call |

All of them rest on `PInv`: the types, and what the locals mean at each place (`Placed`): at the
gates there is a call at the head of the answer, a handler that runs is in the log, and a call is
approved only between the resumption and its result.  Above it stands one invariant per question.

`Charged` ties the log to the counters: of the handlers the current session has started, the
budget manager has charged at least as many and the loop detector counted at least as many of each
call (at least, because a blocked repetition is charged too and never started); it also says that no
entry is from a later session, without which a new session would not begin with a count of 0.
`Bounded` then follows session by session.  `Consented` counts a grant that was given and not yet
used (`Open`) together with the starts: a start closes what the consent opened, and only a person
opens.  `First` says that an approved call meets fresh controls.  `Heeded` says that after one late start no
call stands past its test again until the run is terminal.  `Honest` is the conjunction of what is said
of single messages, and holds because the log only grows.  The arithmetic of the log is one lemma,
`CountGrows`: appending an entry adds one to each count the entry belongs to.

`FileTransactionsProofs` proves all five invariants of the `files` run, for any runs, files, contents
and numbers of calls, from `FileConstants`: `FilesTypeCorrect`, `FilesOldOrNew`,
`FilesFailureRestores`, `FilesBeforeImageKept`, `FilesSuccessIsReversible`.  The inductive invariant
says of each run where it stands (`Placed`) and, of a call nobody has disturbed, what file, snapshot
and backup hold at each place (`Imaged`): none of the properties is inductive, as each of them speaks
of some places only.  One lemma a step proves it for the run that moves, and `OthersKeep` once for
all others: they see a write at their file as `clash`, and nothing else of theirs changes (`Apart`).

`PlanningProofs`, for any set of plans and contracts and any number of coordinators:

| Theorem | Says |
|---|---|
| `TrackerStallHasACause` | `TrackerSpec => []StallHasACause` |
| `DelegationTracksAPlan` | `DelegationSpec => UnitsTrackAPlan`: the coordinator refines the tracker |
| `DelegationProgressIsTrue` | `DelegationSpec => []ProgressIsTrue` |
| `DelegationAuditShowsOrder` | `DelegationSpec => []AuditShowsOrder` |

The first rests on `StallIsNoRing`: if nothing is ready and no waiting step waits for a failed or
skipped one, each waiting step waits for another, so the waiting steps are a ring, which `SoundPlan`
excludes; no path has to be followed.  The refinement maps events and `missed` to nothing, `Enter` to
`ActivateNext` or `Resolve` and the loss of a coordinator to that of a tracker.  The third replaces
`CHOOSE` of the newest entry by its uniqueness (`Newest`, `Told`): an append that concerns a unit
makes the new entry its newest, and one that does not leaves it (`AppendMovesNewest`).  The fourth is
inductive together with that and one fact more, `MissedRest`: a unit whose event could not be stored
is done with, so it never enters a status again.  Therefore a unit that is released finds, of each unit
it waits for, the newest entry to be its evidence (`CompletedIsLogged`), written by the same
coordinator, and later entries change nothing of the past (`AppendKeepsOrder`).

`EventStreamProofs`, for any streams and bounds: `StreamReadsInOrder` and `StreamLossIsExplained`.
The order needs two facts about what lies ahead: the queue never goes back (`Ordered`), and whatever
waits in it is either part of the history a stream began with or not before anything it has sent
(`Ahead`); it is then sent in order, or recognised as sent.

The same module proves what the `events` run checks of the composition `RunEvents`, where all of them
share one log: `EventsTypes` (`EventsSpec => []EventsTypeOK`), `EventsKeepPromises` (the five invariants
of tracker, coordinator and streams together) and `EventsTrackAPlan` (`EventsSpec => UnitsTrackAPlan`).
As `RunEvents` moves one part a behaviour, the last two carry the theorems about the parts over to the
specification the run checks, and say little more.
`EventsInv` says which of the parts may have moved; a step of the composition is a step of one part
and leaves the others' variables, the log apart, alone.  The log has entries of different kinds in
different parts, so that the streams' invariant cannot be conjoined with the coordinator's: it
is stated for the behaviours in which they run.

`RecallProofs`, for any runs, keys, values, lifetimes and clock bound (`MemoryConstants`), and any
budget, tiers and texts of fewer than ten thousand lines (`ContextConstants`):

| Theorem | Says |
|---|---|
| `MemoryHitsWereFresh` | `MemorySpec => []HitsWereFresh` |
| `MemoryTypes` | `MemorySpec => []MemoryTypeOK` |
| `ContextUsesMemory` | `ContextSpec => MemorySpec`, hence `ContextHitsWereFresh` |
| `ContextBudgetKept` | `ContextSpec => []BudgetKept` |
| `ContextLosesForWantOfRoom` | `ContextSpec => []LostForWantOfRoom` |
| `ContextTypes` | `ContextSpec => []ContextTypeOK` |

`SweptOK` says what a sweep has achieved when the SELECT comes: every row that is not stale is fresh
or was stored since; other runs' sweeps only help (`SweepIsStaler`) and their stores are in `since`.
`RoomOK` relates budget and context: `left + chars = Budget` throughout, so that a bound on `chars` is
one on how far `left` falls below zero; `CutsAreNarrow` bounds a cut by its limit and 17, from a hint
of 68 characters at most, and after such a cut nothing more is placed.  The types carry two bounds that
are not about types: a search returns `TopK` records at most (`CountsOK`; the rows found are the image of
the keys selected, `ImageIsNoLarger`, which needs the table to be finite: `MemoryConstants` says so of the
tables earlier runs left, and each commit adds one row), and no more texts are cut than were placed
(`CutOK`).

Every invariant and every action property that a passing run checks is thereby a theorem for all
values of the constants, and so are the three refinements.  Only model-checked are the liveness
properties: `SessionEnds`, `ExecutingSettles` and `ApprovedIsTaken` rest on fairness, hence on ENABLED,
and on the descent of a measure, which is induction; both are outside the prover.  The
four violated statements are shown by their traces.

## 5. Plan

In order of importance:

1. a composition of `ToolPipeline` with the runtime's resumption, so that the three outcomes of a
   tool in `AgentRuntime` (blocked, verified, failed) are a refinement of the pipeline's;
2. an abstract specification of one side effect as its user sees it (asked for, allowed, done, told)
   which `AgentRuntime` implements, joining what the theorems on consent, executions and outcomes
   say one by one;
3. contention on the SQLite lock: writers wait five seconds and then fail (`repository.py:103`), which
   the models have as the failure of a call and not as a queue.

Not modelled, and not planned: the command line of the Docker wrapper, the model client, prompts and
the security policies (I/O and pure string functions), resume tokens and read-only routes, the
`LocalDispatchPool` (its effect on a worker is `StopSignal` and `WorkerCrash`), configuration, and
evaluation scoring (arithmetic).
