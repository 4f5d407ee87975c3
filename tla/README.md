# Verification of the Panvis Codex console

TLA+ models, TLC runs and TLAPS proofs for the local daemon that plans, runs
and integrates the work of coding agents on a Git repository. The models are
translated from the TypeScript sources under `packages/`; `PROJECT.json` maps
every definition to the lines it stands for.

## 1. The system

A human confirms a *Big Task*. A planner and a reviewer produce a plan: a graph
of *subtasks*, each of which goes through a pipeline of *roles* (EXECUTE, then
HARDEN, VERIFY, FRESH_QA, REPAIR, FOCUSED_RE_QA as its profile asks). After the
plan is approved a background worker of the daemon runs one role after another
at a provider, in a Git worktree of the subtask, and publishes each completed
subtask on a result branch. The human accepts or closes the result.

| component | state | operations | hard behaviour | what makes it correct |
|---|---|---|---|---|
| Approved execution, `storage/src/big-task-execution.ts` | append-only event log per Big Task; result branch in Git | approve, start, stop, recover, recoverQa, adjustLimits, renewWindow, recordRole, integrate, deliver, accept, close, recoverInterrupted | a Git update between two transactions; crashes; retries that must not repeat or bill work twice | branch and log agree; nothing is lost or delivered in part; every role is justified |
| Worker and requests, `local-control/src/service.ts` | job table, abort signals, `#stopping` | startExecution, pauseExecution, stopAndDrain, `#driveExecution` | requests interleave with a worker at its awaits | a running log has a worker; drains end |
| Governed roles, `storage/src/governed-execution.ts` | dispatch receipts, role authorizations, links, results, completion receipt | prepareNextRole, reserve, claim, start, persist, finalize, reconcile | several processes on one database, each with what it read in an earlier transaction; a saved result that is not reconciled; slots that are paused and taken back | one writing slot; one provider per role; a stage advances once per accepted result |
| Provider turn, `codex-adapter/src/live-execution.ts` | child process, client, turn tracker, durable run state | one governed role; single-subtask, planning and read-only turns | a child that sends anything; lost answers, aborts, deadlines, output during the shutdown, clean-up failures | a success is recorded only for a sound stream; a turn whose start is unknown is neither repeated nor recorded as failed; the last usage is charged |
| Console, `local-control/src/console-application.ts`, `storage/src/console-workspace.ts` | lifecycle settings, drafts, discussions, job queue | lifecycle-change, task-advance, task-recover-and-start, ... | several store operations per request | what the UI offers is accepted |
| Daemon, `local-control/src/daemon.ts`, `state.ts`, `ui-launcher.ts` | lock file, session file, database handle | launch, recover, start, clean up, stop | nothing locks the directory: other processes act between any two system calls; a kill leaves files behind | one daemon has the database; no session without its lock; recovery before service |
| Plan review, `orchestration/src/plan-review.ts` | phase, candidate, revisions used | begin, decide, revise | stale decisions | approval of exactly the reviewed candidate; at most two revisions |
| Live planning, `storage/src/live-planning.ts`, `orchestration-planning.ts` | planning log, snapshot, materialization | intake, run, review, recover, materialize | interruption between a provider answer and its record | the durable record implements the plan review |
| Workflow stages, `orchestration/src/stages.ts`, durable in `storage/src/task-storage.ts` | recorded transitions, demands for a human, board status and maturity | evaluateStageTransition; advance, require human, change graph | every read replays the whole history with the rules of today | no completion without the evidence of its profile; a history stays readable |
| Dispatch and completion, `orchestration/src/dispatch.ts`, `completion.ts` | pure | select, complete | several Big Tasks of one project | capacity and one writer |
| Worktree ownership, `storage/src/worktree-ownership.ts` | ownership rows, Git worktrees | reserve, provision, activate, release, reconcile | SQLite and Git share no transaction: a crash, a failure or another process between any two effects | one owner per subtask; nothing foreign is adopted, no work is removed |
| Task, execution and context records, `storage/src/task-storage.ts` | SQLite rows | subtasks, dependencies, attempts, context items and digests | checks before a transaction, a clock set back | every later read accepts what was written |
| Budgets, context packets, promotion, `domain/src/*` | rows and pure functions | evaluate, select, promote | mostly parsing and filters | context stays in its scope |
| HTTP, CLI, UI, harnesses | sessions | parsing, authentication, formatting | - | - |

How they interact: HTTP handlers call the service, the service calls the stores
and starts the worker; the worker calls the governed store (synchronously, in
SQLite transactions) and awaits the provider turn; the stores call Git
synchronously. All of it runs on one event loop, so a request and the worker
interleave only at the worker's awaits, while a crash may fall between any two
durable writes.

## 2. Modules

| module | models |
|---|---|
| `BigTaskExecution` | the approved execution, its worker, the governed roles, the provider turn, lifecycle pauses, the daemon's restart and shutdown, for one Big Task |
| `ResultDelivery` | the abstract specification: what an approved execution promises |
| `MCBigTaskExecution` | instances for TLC |
| `MCLifecycle` | what an execution of independent subtasks delivers after pauses and crashes |
| `BigTaskExecutionProofs` | the inductive invariant, the theorems and the refinement proof |
| `LivePlanning` | planning of one Big Task from its intake to the approval for execution: the planning ledger, candidates and reviews, the planning loop, the Console's job queue, retries and amendments, restart |
| `PlanAuthority` | the abstract specification: one plan that work is done under |
| `MCLivePlanning` | the policies of the instances for TLC |
| `LivePlanningProofs` | the inductive invariant of planning, the theorems and the refinement proof |
| `ExecutionRolesProofs` | on top of `BigTaskExecutionProofs`: workers, retries, the writing slot, the reservation of roles and, without subtask pauses, that candidates are integrable |
| `PlanningRunsProofs` | on top of `LivePlanningProofs`: the turns and runners of the planning loop, and the budget of a family of versions |
| `ProviderTurn`, `MCProviderTurn`, `ProviderTurnProofs` | one provider turn of each of the four programs against a child that is not trusted |
| `WorktreeOwnership`, `MCWorktreeOwnership`, `WorktreeOwnershipProofs` | the owned Git worktrees of subtasks, step by step of several processes |
| `WorkflowRules` | the pure rules: stages, evidence, repairs, board and maturity, validity and readiness of dependencies |
| `SubtaskWorkflow` | the durable workflow of the subtasks of a Big Task, judged by `WorkflowRules` |
| `GovernedWorkflow`, `MCGovernedWorkflow` | several callers preparing and executing governed roles over `SubtaskWorkflow` |
| `GovernedWorkflowProofs` | the inductive invariant of the governed workflow and its theorems |
| `TaskGraph` | plan candidates, Task Contracts, decisions, materialization, and Subtasks and dependencies added by hand |
| `ExecutionRecords` | the thread and the run of an execution attempt |
| `ContextRecords` | context items, their replacements, and digests |
| `DaemonAuthority` | the lock and session files, one system call after another of several launchers and daemons |
| `MCLocalState` | one instance of `TaskGraph`, `ExecutionRecords`, `ContextRecords` and `DaemonAuthority` |
| `LocalStateProofs` | that the task graph and the records of attempts and of context stay readable, and that one daemon has the database |

The two halves meet at `Grant` of `LivePlanning`, which is the operation that
`Init` of `BigTaskExecution` follows: the approved plan is the graph whose
execution the second module starts with. `GovernedWorkflow` shows the roles of
`BigTaskExecution` from the other side: there one worker of one daemon goes on
with everything around it, here several callers interleave inside the steps of
one role. `ProviderTurn` is the inside of `SendTurn` ... `CompleteTurn`, and
`WorktreeOwnership` the inside of `Provision`. All of them assume that one daemon
recovers the database before it serves, which is `OneDaemon` of
`DaemonAuthority`: its step `OpenDatabase` is `Restart` of the two halves.

### State of `BigTaskExecution`

* `phase` ... `pending` are the event log as `inspect()` folds it: phase and
  stop reason, the phase of the last control failure, the approved window,
  limits (with the number of adjustments and of recovery attempts), the token
  warning, acknowledged unknown-usage runs, the QA recovery, integrated
  subtasks, `resultHeadSha`, `resultRefCreated`, `pendingIntegration`.
* `runs`, `done`, `receipt`, `base`, `finished` are the governed store: role
  attempts with their execution runs (created in one transaction), accepted
  stages per subtask, dispatch receipts, the commit each worktree was cut from,
  the completion receipt.
* `taskPaused`, `subPaused` are the console's lifecycle settings.
* `ref` is the result branch in Git.
* `service`, `pc`, `aborted` are the process: they are lost in a crash. `pc` is
  the place of the one worker a Big Task may have.

A commit is the sequence of subtasks whose work it contains, so ancestry is
prefix order, the approved head is `<<>>` and an integration is a fast-forward.

### Actions

* Requests: `Start`, `Pause`, `PauseScope`, `ResumeScope`, `AdjustLimits`,
  `RenewWindow`, `Recover`, `RecoverQa`, `Accept`, `Close`. They are enabled
  only where the worker awaits.
* Worker, preparing: `CheckLimits`, `EnsureRef`, `IntegrateCandidate`,
  `UpdateRef`, `RecordIntegration`, `ScanDone`, `Deliver`, `Provision`,
  `Dispatch`, `ReconcileSaved`, `ReserveRole` and the refusals of each. Each
  makes one durable write, so `Crash` may fall between any two.
* Worker, at the provider: `SendTurn`, `TurnStarted`, `StartAmbiguous`,
  `CompleteTurn`, `FailTurn`, `Reconcile`, ...
* Environment: `Expire`, `WorkerLost`, `Shutdown`, `Exit`, `Crash`, `Restart`.

`Events` selects the disturbances of an instance; what the code does about them
is never switched off.

### Abstractions

* Each durable transaction is one step. A stop records its control failure and
  the STOP event in two transactions; they are one step here, because a crash
  between them changes only `control`, and a running execution that is
  recovered stops as CHECKPOINT_RECOVERED or INTERRUPTED, where nothing reads
  `control`. Provisioning a worktree and committing the dispatch gates are one
  step: a repetition finds the same worktree.
* CHECK_LIMITS failures are recorded as PREPARE_ROLE: both are retryable.
* Every run has one token. The clock is the state of the approved window (not
  started, open, expired). An ENDED scope acts like a PAUSED one.
* Roles are a pipeline: the first writes, each passes (`OK`) or reports that it
  is blocked. Repair cycles and human-required workflows are not in this module.
* Requests that repeat an earlier one with the same contents return its state
  in the code; they are stuttering steps here.
* The driver's iteration bound (`roleCallLimit + 2`) cannot be reached before
  the role limit itself and is left out.
* The repository head and project settings stay as approved
  (`assertCurrent` always succeeds) and nobody else moves the result branch.
* One Big Task: the project's slots are taken by its own subtasks only.

### State of `LivePlanning`

* `count`, `parent`, `policy`, `captured` are the intakes. Planning again and
  amending review levels make a new Big Task that names the one it revises
  (`planningRevisionOf`); these are the *versions* `1 .. count`, each with its
  policy and the state of project and repository it was accepted in.
* `candidates`, `decisions` are the durable plan revisions and review outcomes,
  append-only as in `orchestration-planning.ts`. The review state is
  their replay (`Replay`), as `plan-review.ts` computes it.
* `runs` is the ledger of provider turns: role, the proposal in its input,
  status, stop reason, whether evidence and usage were recorded.
* `granted`, `paused`, `projectPaused` are the approval for execution and the
  lifecycle settings.
* `context`, `expired` are the world: settings and repository as they are now,
  planning windows that have passed.
* `service`, `queue`, `jobs`, `runner`, `turns`, `direct` are the process and
  are lost in a crash: the Console's queue and running jobs, the place of each
  planning loop, the turns it has taken, the loops a request runs itself.

### Actions of `LivePlanning`

* Requests: `Intake`, `PlanningRetry`, `AmendPlanReview`, `Grant`,
  `PlanningStart`, `RunPlanning`, `PauseTask`, `ResumeTask`, `PauseProject`,
  `ResumeProject`, `PauseSubtask`. Each includes the scheduling and the drain of
  the queue that its handler ends with.
* Jobs and the loop of `runPlanning`: `JobBegin`, `ClaimTurn`, `ClaimRefused`,
  `Observe`, `FinishTurn` (`RefuseTurn`, `Propose`, `Review`, `RejectAnswer`),
  `StopPlanning`, `TurnLost`.
* Environment and process: `ChangeContext`, `Expire`, `Shutdown`, `Exit`,
  `Crash`, `Restart`.

### Abstractions of `LivePlanning`

* One family of versions; other Big Tasks are seen only in the slots they
  take. The code has four slots; the instance has one, so that a queue forms.
* A plan is its revision number, and usage is one token per turn that reported
  it; both runs that count and tokens that add up are those of the whole family.
* Between two turns the loop does not await anything but microtasks. The
  boundary is a state all the same: the model lets requests fall there too.
* Task-advance, discussion and superseded-plan requests are made of the
  operations above. The service refuses a claim with USER_PAUSED only for a
  state in which its loop does not claim.
* Candidates that are materialized later (LATER subtasks) are not modelled.
* The product direction is confirmed, and an operator's intake is not itself a
  revision of another task.

### `ProviderTurn`

* State: `flow` (ROLE, OWNED, PLAN or LIVE) and `writes` (its sandbox); `pc`,
  `at`, `code` are the program, the request it is at and its failure;
  `req`, `why`, `failure`, `child`, `closing` the JSONL client; `refused`,
  `tracker`, `notes` the event tracker; `captured` the evidence that is taken
  before the shutdown; `record` the durable run, `faults` the store failures.
* The program: `ReserveRole`, `ReserveOwned`, `PrepareReadOnly`, `Launch`,
  `Send`, `Continue`, `BindThread`, `StartRun`, `WaitForTerminal`, `Catch`,
  `Interrupted`, `BeginShutdown`, `Shutdown`, `RemoveWorkspace`,
  `StoreRoleResult`, `GateOwnedAttempt`, `SkipResult`, `Finalize`,
  `FinishPlanning`, `FinishLive`.
* The child: answers (good, bad, errors, not asked for), notifications of the
  thread, the turn, messages, tool items, usage and the account, an exit, a
  broken line. It may do any of it at any time, also while it is being closed.
* Timers (`RequestTimeout`, `TurnTimeout`) and the abort of a role
  (`CancelPending`).
* A claim that fails leaves its run CREATED for a later call, which finds it as
  claim EARLIER. An overrun of the tokens fails the client, so that no
  interrupt is sent. A change of the account during the shutdown reaches the
  tracker only, and the gate of a success does not look at it. An owned attempt
  stores the usage it took before the shutdown, which may not be the last.
* Abstractions: contents of messages, limits of length, sandbox policies as
  `ToolAllowed` and `Acceptable`.

### `WorktreeOwnership`

* State: `rows` and `latest` are the ownerships; `board`, `run`, `proof` are
  what the task store says of a subtask; `tree`, `branch`, `source`, `base` are
  Git and the file system; `lock` is the SQLite writer lock where it is held
  over several effects; `pc`, `job` are the processes.
* Each operation (provision, release on request and of a governed subtask,
  reconcile) is a sequence of steps, one per durable or physical effect:
  RESERVE, ADD, MARK, RECORD, VERIFY, ACTIVATE, UNDO; CAPTURE, RELEASE, FINISH,
  REMOVE, CONFIRM.
* `Events` selects the faults: a process dies (CRASH), Git or a transaction
  fails (GIT, STORE), somebody discards, recreates, drops, switches or rewinds a
  checkout or its branch (DISCARD, RECREATE, DROP, SWITCH, REWIND).
* A concurrent reconciliation between a reservation and its `git worktree add`
  ends the row as FAILED; the add still creates the checkout, and a later
  reconciliation finds it (`worktree-ownership.ts:1897-1900` says so).
* A repetition of an operation whose result is there already is no step.

### `WorkflowRules`, `SubtaskWorkflow`, `GovernedWorkflow`

* `WorkflowRules` has no state: `JudgeNext` is the stage transition,
  `CompositionFits` the board, and the dependency functions decide validity,
  cycles and readiness.
* `SubtaskWorkflow` keeps `history`, `demand`, `replan` and `board`. Every read
  replays the history and evaluates the readiness of the dependencies at the
  read, as `#readWorkflowControlViews` does.
* `GovernedWorkflow` adds the dispatch `receipt`, the authorized `roles`, the
  owned `tree`, manual starts, pauses and the completion receipt. A caller's
  step is one transaction (ENTER, DISPATCH, ROLE, RESERVE, CLAIM, BIND,
  VALIDATE, START, TURN, RECONCILE, FAIL); what it read is kept in `at` and
  `seen` and may be stale.
* Callers are processes on the same database: `storage/test/
  governed-execution.test.ts:849` opens a second one, and the comment near
  `governed-execution.ts:1809` expects it. Callers of one daemon interleave only
  at awaits, which is a subset. The loser of a claim finalizes nothing.
* Budget, usage, context and provisioning are taken to succeed here (they are in
  `BigTaskExecution`, `ProviderTurn` and `WorktreeOwnership`); runs that a dead
  caller left RUNNING are recovered in `BigTaskExecution`. Results are persisted
  as for live-planned Big Tasks. `requestDurableMaterializedGraphChange` is
  modelled (`AskForReplan`) although nothing in production calls it.

### `TaskGraph`, `ExecutionRecords`, `ContextRecords`

* Operations are single transactions, except those that check first and write
  later (`CheckSubtask`/`InsertSubtask`, `CheckDependencies`/
  `ReplaceDependencies`, `CheckDigest`/`InsertDigest`). `createSubtask`,
  `replaceDependencies` and digests are the public interface of the storage
  package; of the context operations only `createContextItem` has a caller in
  production (`console-workspace.ts:506`).
* The listing that ends the transaction of `replaceDependencies` cannot fail
  and is left out; `reservePrimaryExecutionAttempt` does not look at the slots
  of the project, which only governed roles take; an attempt on a single
  subtask that a dead process left active has no recovery.
  `assertLivePlanApproved` is outside the transaction and abstracted.
* The three groups share only the tasks that rows belong to, which are never
  removed, and nothing with the files of the daemon. `MCLocalState` therefore
  picks one group, or the files, per behaviour (`focus`).

### `DaemonAuthority`

* State: `lockFile` and `sessionFile` are `daemon.lock` and
  `current-session.json`; a file is known by the process that created it, which
  stands for its device and inode, the instance it names and the pid in it, and
  is empty until it is written. `at` is the next system call of each process,
  `met` whose file it opened, `tries` the pass of a launcher.
* A process is a desktop launcher (`ui-cli.ts`), which first recovers the files
  of a stopped daemon and then looks for a session, or the daemon command, which
  only starts. `recoverStoppedDaemonAuthority` is `OpenLock`, `ParseLock`,
  `Probe`, `CheckSession`, `DropSession`, `CheckLock`, `DropLock`;
  `connectUiDaemon` is `OpenSession`, `ParseSession`, `Refused`; the start is
  `CreateLock` ... `Ready` with its clean-up `UndoSession`, `UndoLock`; the stop
  is `Stop`, `Drained`, `CloseSession`, `CloseLock`.
* `Trouble` selects kills, failing calls of a start, and pids that another
  user's program gets later (a pid of a program of the same user is alive, as
  that of a daemon is).
* Several examinations of one file without a call between them that could change
  it are one step, and the unlink of a file that was examined is another, so
  that whatever a second process puts at the path in between is what is removed.
* `raced` is no state of the code. It records that such an unlink of a recovery
  removed another file than the one it had examined, and both properties are
  stated up to it; see "Met while modelling".
* `OpenDatabase` stands for the preparation, the verification and the recovery
  of the database, which `BigTaskExecution` and `LivePlanning` model.
* An unlink of a file of one's own succeeds. Modes and owners are as the console
  leaves them.

## 3. What is checked

| run | instance | states | question |
|---|---|---|---|
| `core_roles` | 2 subtasks, the second depends on the first; 2 roles; 4 (then 5) role calls; 3 (then 4) tokens; 1 adjustment; crash, role failure, claim failure, failed reconciliation, blocked roles, local failures, expiry | 778,722 | safety of branch, log, roles and delivery, and the refinement of `ResultDelivery` |
| `core_lifecycle` | 2 independent subtasks, 2 roles; all pauses and resumptions, shutdown, crash, lost worker; fair worker | 115,332 | one writing slot; log and worker agree; termination, draining, delivery |
| `planning` | 2 versions; intakes reviewed with a hard limit, self-checked and measured, or with a budget exception; crash, pause, changed repository, expiry, failing and unreported turns, unusable answers, failing writes | 765,572 | the authority of a plan, fresh approvals, budgets over versions, and the refinement of `PlanAuthority` |
| `planning_jobs` | 2 versions, one slot; direct requests, pauses of the project, shutdown, crash; fair loop | 122,343 | the queue loses nothing, no turn is left without a loop, a stop ends |
| `turn` | each of the four programs; one tool item, 3 control notifications, 2 store failures, reports of 1 and 2 tokens in any order, a limit of 2 | 841,940 | what is recorded is what happened, and the turn ends |
| `worktrees` | one live-planned subtask, 2 processes, 2 ids, one move of source and base, one commit, 2 generations, 2 faults of all kinds | 907,699 | one owner, no run without checkout, activation, removal and end only on proof |
| `workflow` | a high-risk subtask with one repair and a dependent low-risk one that a human starts, both writing, one slot, two interchangeable callers, one disturbance | 223,641 | one provider per role, one chain of candidates, one write dispatch, a readable history |
| `local_state` | 2 Big Tasks, a plan of 2 subtasks and a third one by hand; 2 attempts of 2 subtasks; chains of context items; 3 processes at the lock and session files, 2 passes, kills, failures and reused pids | 457,802 | every later read accepts what was written; one daemon has the database and its files |
| `doc_checkpoint` | 2 subtasks, one crash | stops at the counterexample | an explicit resume from a durable checkpoint |
| `doc_exception` | 2 versions, the first with a measuring exception | stops at the counterexample | a version that revises another does not inherit the exception |
| `doc_pending` | one live-planned subtask, crash only | stops at the counterexample | an exact pending worktree becomes ACTIVE |
| `doc_verified` | a standard subtask behind a VERIFIED edge, one caller that is asked for ever | stops at the counterexample | work that is ready starts |

The properties of execution:

* `RefAgreesWithLog`: outside an integration the branch is where the log says;
  during one it is at either end of the one recorded intent.
* `DependenciesInBase`: a worktree starts from a result that holds the
  dependencies of its subtask.
* `CandidateIntegrable`: a completed candidate descends from the head. It holds
  without subtask pauses: a subtask that is paused while an independent sibling
  is integrated never descends from the head again, and is never integrated.
* `NoBlindRetry`: a stage is tried again only after the earlier attempt ended,
  was replaced by a human recovery, and its usage is known or acknowledged.
* `DeliveredComplete`: a delivered result is whole and settled.
* `OneWriter`, `RunningHasWorker`: one occupied writing slot; a running log has
  a worker and an aborted worker has no running log.
* `RolesAreJustified` (action property): a role is reserved only in a running
  execution, within the approved calls, with all other attempts over and all
  dependencies on the branch.
* `WorkerSettles`, `Drains` (liveness): running ends; a shutdown drains.
* `UndisturbedDelivers` (liveness, in `MCLifecycle`): an execution that runs and
  is intact is delivered, whatever pauses, shutdowns and crashes were before.
  Intact means that no attempt was lost and that no worker died between saving a
  result and moving the workflow on (`doc_checkpoint` is about that). There are
  two exceptions. It is stopped again, or its daemon goes; or after a pause of a
  subtask an independent sibling is in the way (`Overtaken`): the subtask is to
  be dispatched while the sibling holds the slot, or its candidate does not
  descend from the head that now contains the sibling, and the preparation of
  the next role fails.
* `ImplementsDelivery`: the refinement.

The properties of planning:

* `OneAuthority`: what was approved for execution is an approved plan that no
  other version revises, and there is at most one of it in the family. Retry,
  amendment and approval are three operations that each look for the others.
* `FreshApproval`: an independently reviewed approval was given by the latest
  turn, to exactly the proposal that is approved, whatever interruptions,
  changes of the repository and amendments came between.
* `HardBudget`: no turn of a hard budget was asked for before the usage of all
  earlier turns of all versions was known and, unless the version itself carries
  a measuring exception, below the limit. An amendment carries the exception of
  what it amends; that documents deny it is `doc_exception`.
* `RunsReadable`: what `#runs` checks on each read, and more than which the code
  would refuse to open the task.
* `RunningHasRunner`: a turn under way has a loop that waits for it, or the
  daemon is down and will interrupt it.
* `VersionsFrozen` (action property): the record of a revised or granted version
  never changes again, whatever loop still runs on it.
* `NeverCutShort` (action property): the loop's bound of six turns is never
  what ends it.
* `QueuedIsPlanned`, `StopsPlanning` (liveness).
* `ImplementsAuthority`: the refinement of `PlanAuthority`.

The properties of a provider turn:

* `ResultIsSound`: a run SUCCEEDED only for a turn that was acknowledged on its
  thread, completed with no tool item open, over a stream that stayed sound
  until the child was closed.
* `RunIsSettled`: a finished turn leaves its run open only when turn/start was
  sent and not recorded, an earlier call claimed the run, or the store failed;
  and a turn that was sent and not recorded is never recorded as over.
* `UsageIsLast`: a role is charged the last reported usage, whenever the report
  arrived. So is a planning turn, unless that report was below an earlier one:
  the store refuses it (`BelowStored`), the earlier one stays charged, and the
  turn has failed.
* `TurnEnds` (liveness): whatever the child sends or withholds.

The properties of worktrees:

* `OneOwner`: a subtask never has two ownerships that are not over.
* `RunHasCheckout`: the checkout of a subtask with an active run is ACTIVE; run
  and release are decided in two transactions of two actors.
* `ActivationProven`, `NoWorkLost`, `EndIsProven` (action properties): an
  ownership becomes ACTIVE only over the recorded generation of its own
  checkout, on its branch, at its start, never over a look-alike; only a clean,
  recorded checkout of a durable release is removed, with its branch kept; an
  ownership ends only when its checkout is proven absent.

The properties of the workflow and of the records:

* `OneProvider`: two callers never both have a provider at work on one role.
* `CandidateChain`: each role begins on what its predecessor left, and those
  that only judge left it as it was; a foreign commit in between stops it.
* `OneWriteDispatch`: one dispatch at most that is not paused may write, although
  paused ones give their slot up and take it back.
* `HistoryReadable`: every later replay accepts the recorded history.
* `GraphReadable`, `AttemptsSound`, `ContextReadable`: whatever processes add,
  plan, materialize, finish and replace, in whatever order and on whatever
  clock, no later read refuses the rows.

The properties of the daemon's files:

* `OneDaemon`: whoever launches, recovers, starts, fails, drains or is killed,
  one daemon at most is between the recovery of the database and its close.
* `SessionUnderLock`: a session exists only under the whole lock of its daemon,
  so that a start never meets one left behind. It needs the order of four
  pieces of code: lock before session in the start, session before lock in the
  clean-up, the stop and the recovery.

Both are stated up to `raced`: once a recovery was overtaken by another one and
a start between its last look at a file and its unlink, neither promises
anything. They show what the code does about killed daemons, reused pids and
partial starts; that one hazard the code does not exclude, and no property
claims it.

`TypeOK` is no property of a run: that of `BigTaskExecution`, `LivePlanning`,
`ProviderTurn` and `WorktreeOwnership` is proved (section 4). That of
`GovernedWorkflow` is stated for the reader, with bounds that only fit the
instance of its run; its limits on stages and repairs follow from
`RepairsAreLimited` (section 4). TLC agrees with each when it is added to the
cfg.

Why the bounds are enough. Two subtasks with two roles are the smallest graph
with a dependency, an ordering of integrations, a writing and a reading role.
Four role calls let every role run once; the fifth, after an adjustment, allows
one retry, so that every recovery path is taken. The token limits make the
limit bite before the last role. One adjustment shows the state before, at and
after it. Two independent subtasks are
the smallest graph in which one is overtaken by the other while it is paused. `MaxRoles` and `MaxRevisions` bound only what a human may still
raise; the number of runs is bounded by the role limit of the code.

For planning, two versions are the smallest family in which a revision, its
parent and the operations that race to open or approve them exist; budgets are
shared over both. The limits are reached after the second or the third turn
that reports its usage, so that they bite before, at and after the review of
the first plan. The revision limit, the six turns and the three plans are the
code's own. One clean context and a dirty one distinguish an accepted from a
changed repository. `PauseSubtask` belongs to `planning` and not to
`planning_jobs`: pausing a subtask takes the planning of its Big Task off the
queue although the task stays active, so `QueuedIsPlanned` is about families
without it (`PauseTask` and `ResumeTask` are in `planning`; `planning_jobs`
has the pause of the project, which drops the whole queue).

For a provider turn, one tool item is open, closed, missing or refused; the
second one is over the limit. Reports of one and two tokens rise or fall, and
two are the limit. Three control notifications allow the thread, the
turn and an end, or one of them twice and the limit. Two store failures let a
failure meet the attempt to record the failure. For worktrees, two processes and
two ids let a second ownership begin while the first one ends; two faults let a
foreign act meet a crash. Two generations tell a checkout from its look-alike,
one commit tells work from the start. One move of the source and of the base
makes the two starting points differ. For the workflow, one repair is the
smallest cycle, two callers the smallest race and one slot makes the dispatches
compete. For the records, two processes and two times are a race and a clock set back:
two candidates of a track are a plan and its revision, a third subtask is what a
process adds beside the plan, two attempts compete, and three items are a
replacement that is replaced. For the files of the daemon, three processes are
one that was killed and two that recover what it left and start: the smallest
instance in which an unlink meets the file of another process. A second pass is
what a launcher does after it was refused. With symmetry a fourth process was
tried as well (1,043,600 states, no error).

Fairness. `FairSpec` of `BigTaskExecution` has weak fairness of the steps of the
worker. The code's event
loop keeps running a job, every stage of a turn has a deadline
(`withinDeadline`, idle and absolute turn timeouts) and an abort cancels a
pending request, so a worker that can step does. Nothing is assumed of humans,
of the clock, or of the daemon. Deadlock is not checked in
`core_lifecycle`, because an accepted, closed or stopped execution may rest for
ever; `core_roles` checks it. `FairSpec` of
`LivePlanning` has weak fairness of `JobBegin(v)`, `Loop(v)` and `Exit`, for the
same reasons: the event loop goes on with a job, and a planning turn has idle
and absolute deadlines. Nothing is assumed of people, so deadlock is not checked
in `planning_jobs`, where an owner may leave a finished planning at rest.
`FairSpec` of `ProviderTurn` has weak fairness of the program and of its timers
(each request and the wait for the end have one, and the shutdown kills); nothing
is assumed of the child or of whoever aborts. `DrivenSpec` of `GovernedWorkflow`
has weak fairness of each caller: it is asked again and again and never dies,
which is the most favourable case for `ReadyWorkStarts`. A turn, a released
worktree, a completed workflow and complete records are at rest, so deadlock is
not checked there.

### Disagreements with the documents

* `doc_checkpoint`: a restart between the saved result of a subtask's last role
  and its reconciliation is resumed once; the pass then completes the subtask
  after its integration scan and stops HUMAN_REQUIRED, and no operation
  continues it (`docs/BIG_TASK_APPROVED_EXECUTION_V0.md:22`).
* `doc_exception`: amending the review levels of a plan copies the whole intake,
  with its budget exception, into the new version (`console-workspace.ts:248`),
  which then takes turns at the token limit
  (`docs/BIG_TASK_LIVE_PLANNING_V0.md:94` says that later intakes do not inherit
  it; planning again does drop it, `console-workspace.ts:198`).
* `doc_pending`: reconciliation of a pending worktree compares the source
  checkout with the starting commit (`worktree-ownership.ts:2023`), which for a
  live-planned subtask is the result head: after a sibling was integrated an
  exact pending worktree is never accepted
  (`docs/GIT_WORKTREE_OWNERSHIP_V0.md:51`).
* `doc_verified`: the readiness of a graph with a VERIFIED edge reads the
  workflow of its upstream subtask, whose read evaluates the readiness again
  (`task-storage.ts:4320`): once a subtask with a MATERIALIZE stage enters
  execution the read does not return, and the subtask never starts, although
  plan review accepts such plans.

Met while modelling, without a run of their own:

* A failure between intent and completion of an integration leaves an intent
  that only a running execution may repeat, and nothing lets it run
  (`docs/BIG_TASK_APPROVED_EXECUTION_V0.md:20`).
* A crash between the reservation of a dispatch and its first role leaves the
  slot RESERVED; when the subtask is then paused its sibling stops with
  LOCAL_OPERATION_FAILED, because only ACTIVE dispatches are paused
  (`governed-execution.ts:2744`).
* A subtask paused while an independent sibling is integrated is never
  integrated (`docs/STEP_10_WORKFLOW_SIMPLIFICATION.md:12`).
* An immediate pause of an active role leaves PAUSED with a failed run; start
  refuses the checkpoint and recovery needs HUMAN_REQUIRED (`service.ts:488`;
  `docs/CONSOLE_AGENT_WORKSPACE_DIRECTION.md:25`).
* Between the last examination of a lock and its unlink, a recovery can be
  overtaken by a second one and a start: it then removes the lock of the running
  daemon, and a third process can start beside it (`state.ts:590` says "Never
  steal a live lock"). Without the reservation `raced`, TLC violates `OneDaemon`
  and `SessionUnderLock` with three processes.
* A launcher that reads the lock or the session between its creation and its
  write ends with an error and does not wait for the daemon (`ui-launcher.ts:9`
  says "Concurrent desktop clicks converge on one daemon"); a daemon killed
  there leaves an empty file that no recovery removes.

## 4. What is proved

### Execution

For every plan, every number of roles, every set of limits and every
combination of disturbances (`ConstantsAssumption` is the only assumption):

* `TypeCorrect`: `TypeOK`.
* `BranchFollowsLog`: `RefAgreesWithLog`.
* `BasesHoldDependencies`: `DependenciesInBase`.
* `DeliveriesAreWhole`: `DeliveredComplete`.
* `ExecutionImplementsDelivery`: the execution implements `ResultDelivery`.

The inductive invariant `IInv` adds to these

* `Bookkeeping`: what each place of the worker implies of the rest of the state
  (applying or recording implies a pending intent, being in a role implies that
  the last run is at the stage after the last completed one of its subtask), that
  every run and every completed role or receipt has a worktree, that a finished
  execution is complete and that a delivered one has no worker;
* `ExactIntent`: a pending intent starts at the head, names a completed subtask
  whose dependencies are on the branch, and adds exactly that subtask;
* `Branch`: `head` is the log's sequence of integrated subtasks, without
  repetition, each complete, dependencies first, and the branch is at it or at
  the end of the intent.

They are needed because `RefAgreesWithLog` alone does not say why the commit of
an intent extends the head by one subtask, and `DeliveredComplete` counts
subtasks: that N different integrated subtasks are all of them needs the
absence of repetition. The central argument is `CandidateIsNext`: a candidate
descends from its base, and if the head is a prefix of it then the head is the
base, so that what is integrated is the head with the subtask on top
(`PrefixSqueeze`). Part 5 of the module maps each step to `Review`, `Publish`,
`Offer`, `DecideOn` or a stutter.

`ExecutionRolesProofs` adds

* `RunningIsDriven`: `RunningHasWorker`.
* `RetriesAreReleased`: `NoBlindRetry`.
* `OneSubtaskWrites`: `OneWriter`.
* `ReservationsAreJustified`: `RolesAreJustified`.
* `CandidatesAreIntegrable`: `CandidateIntegrable`, provided no subtask is paused
  (`"SUBTASK_LIFECYCLE" \notin Events`); with subtask pauses it is false.

Their invariant `RInv` says that the place of the worker fits the attempts (in a
role exactly one is active), that released attempts are over and accounted for,
and that at most one slot is occupied. The lemma `Ways` shows that every step
is one of four kinds of change to the attempts (none, a new one, a change of
the active one, a release), so that each conjunct is proved four times and not
once per action. For the candidates `OneAtWork` says that without subtask pauses
one subtask at a time is started, on the head of the result, and stays the first
that is ready until it is complete; a pass integrates it before it picks another.

### Planning

For every number of versions and slots, every set of policies and every
combination of disturbances (`PlanningAssumption` is the only assumption):

* `PlanningTypeCorrect`: `TypeOK`.
* `PlanHasOneAuthority`: `OneAuthority`.
* `ApprovalIsFresh`: `FreshApproval`.
* `LedgerIsReadable`: `RunsReadable`.
* `RevisedIsFrozen`: `VersionsFrozen`.
* `PlanningImplementsAuthority`: planning implements `PlanAuthority`.

The inductive invariant `PInv` adds to these

* `Lineage`: each version revises the one before it, so that a version without
  successor is the newest, which is what `PlanAuthority` allows to be approved;
* `Opened`: versions that are not open yet have an empty record;
* `Halted`: while the daemon is down no loop runs;
* `OneGrant`: only the newest version may be granted, and only if approved;
* `Local(v)` for each version: each completed turn left exactly one candidate
  or one decision behind (`Counted`), the ledger is readable (`Readable`), a
  review approval is fresh (`Fresh`), and a turn under way was asked about the
  current candidate (`Asked`).

`Counted` is the central part. That the ledger never exceeds six turns follows
neither from the loop's bound, which a second loop begins anew, nor from the
review state alone: it follows because turns, candidates and decisions advance
together, and the review allows three of each. The same fact makes an
approval fresh, since nothing can be appended after it.

`PlanningRunsProofs` adds

* `ReadyBelowBound`, `PlanningIsNeverCutShort` (`NeverCutShort`): a version that
  is ready for a turn has a loop that took fewer than six. The turns of a loop
  never exceed the runs of its ledger (the lemma `TurnsAreRuns`), and `Counted`
  gives an undecided plan at most five runs; so the loop's bound of six is never
  what ends it.
* `TurnsHaveRunners`: `RunningHasRunner`, for instances without STORAGE
  failures. Such a failure is the only way to lose the runner of a turn
  (`TurnLost`).
* `BudgetsAreHard`: `HardBudget`, with its exception for a version that carries
  one. A claim adds up the runs of all versions, so
  the proof needs that `Family(v)` is `1 .. v`; it is a recursive function, and
  the fact follows by infinite descent from the well-foundedness of `<` on the
  naturals. Then only the newest version's latest run is ever changed or added.

### Provider turn

For every number of items, notifications, tokens and store failures, every
choice of programs and whatever the child does:

* `TurnTypes`: `TypeOK`. `ResultsAreSound`: `ResultIsSound`. `RunsAreSettled`:
  `RunIsSettled`. `LastUsageIsCharged`: `UsageIsLast`, a refused lower report of
  a planning turn included.

The invariant `TInv` adds `Evidence` (an end was seen after both responses with
every item closed, and what was captured is that end or nothing), `Places` (once
the child was closed, a turn without a failure had a sound stream: this is what
carries the soundness over the last output of the child to the record) and
`Recording` (the record fits the place of the program; in particular a run of an
earlier claim never reaches a request). `Hears` is the most that any message,
timer or abort may do; each is shown to be one (`DisturbancesHeard`,
`AnswersHeard`, `NotificationsHeard`, `ItemsHeard`, `UsageHeard`), and
`HearingKeeps` is proved once. `MoveKeeps` and `EndKeeps` do the same for the
steps of the program.

### Worktrees, attempts and context

For every number of subtasks, processes and ownerships, all bounds and faults:

* `OwnershipTypes`: `TypeOK`. `OneOwnership`: `OneOwner`.
  `RunsKeepTheirCheckout`: `RunHasCheckout`. `ActivatedOwnCheckout`:
  `ActivationProven`. `RemovalLosesNothing`: `NoWorkLost`. `EndsAreProven`:
  `EndIsProven`.
* `AttemptsStaySound` (`LocalStateProofs`): `AttemptsSound`, whatever the clock reads.
* `ContextStaysReadable` (`LocalStateProofs`): `ContextReadable`.

The invariant `WInv` says which fields a row of each status has (`RowOK`), what
each place of a process implies of the row it works on (`ProcOK`), that no
two processes build the same ownership (`OneBuilder`) and that the latest
ownership of a subtask is one of its own (`LatestOK`); a provisioner must allow
for a reconciliation that ended or activated its row meanwhile. The lemma `Ways`
lists how the status of an ownership can change and what was then true of its
checkout: activation and end follow from it, and the removal from what `ProcOK`
says of the process that removes. For context items, an item is created by the
transaction that replaces another with it, so an order of creation (`Order`)
goes along every replacement and no chain leads back (`NeverBack`).

### The files of the daemon

For every number of processes and passes and every trouble
(`DaemonAssumption`, of which nothing is needed), in `LocalStateProofs`:

* `DaemonsAreAlone`: `OneDaemon`. `SessionsAreLocked`: `SessionUnderLock`.

The invariant `AInv` says, until a recovery removed a file it had not read, that
the lock is whole and its own for whoever is between its creation and its removal
(`LockOf`), that other files are only those of processes that stopped (`LockBy`,
`SessionBy`), and how far a recovery has got (`RecoveryOf`): once it removes, the
owner it read has stopped for ever, and when it comes to the lock the session of
that owner is gone. The last part is what makes the removal of the lock safe for
`SessionUnderLock`. Most steps leave the files as they are (`WalkSound`); a lock
that is given up and a session that is given up are two more kinds of step
(`LockGiven`, `SessionGiven`).

### Governed workflow

For every order of any number of Subtasks, every profile, limit and valid set
of dependencies, every number of callers and of disturbances, and every choice
of who may write, waits for a human or is reviewed (`GovernedWorkflowProofs`):

* `WorkflowInvariant`: the inductive invariant `IInv`.
* `OneCallerRunsARole`: `OneProvider`. `CandidatesAreChained`: `CandidateChain`.
  `HistoriesAreReadable`: `HistoryReadable`. `DispatchesFit`: `OneWriteDispatch`,
  and that at most two dispatches are not paused: the constant of
  `#deriveDispatchGates`, not the smaller limit that a Project may name.
* `DependenciesStaySatisfied`: no step takes back that a Subtask is ready, which
  is why a caller may act on what it read before.
* `ResultsAreFinal`: the record of a role that has a result never changes.
* `RepairsAreLimited`: a Subtask has at most its limit of repairs and at most
  three roles and two for each repair, whoever repeats what.

The assumptions are those of the three modules: Subtasks are listed once
(`OrderAssumption`), dependencies are valid and name one of the four gates
(`EdgesAssumption`), the limit is at most 2, and the Project runs one or two
Subtasks.

`IInv` says of the workflow that every history has the shape of its profile
(`ShapeOK`), is accepted by a read of now (`Readable`), and that a human was
asked about the result of a role only (`DemandOK`); of the roles that there is
one for each stage since the entry and at most one for the stage of now, chained
by their candidates, with an outcome of the stage (`RolesOK`); and of a caller
that its place fits the role it works on and that everything it remembers was
true once (`CallerOK`).

`HistoryReadable` is the hard one: a read replays every step with the rules and
judges readiness of *now*, so that a step of one Subtask could make the history
of another unreadable. The invariant alone does not exclude that. The proof
shows for every step that the workflow only grows (`Monotone`: histories are
extended, completion and maturity are never lost); hence dependencies that were
satisfied stay so (`ReadyStays`), and a decision that was taken is the decision
of every later read (`DecisionStays`). With that, one Subtask goes on by one
stage per step, and only with the result of its role (`OneGoesOn`), or one role
moves (`OneRoleMoves`), never both (`NotBoth`); what a caller remembers stays
valid when others move because nothing that it refers to is taken back
(`Grows`, `FitsRemain`).

`DispatchesFit` is proved apart from `IInv`: every step gives up slots or
takes one that its transaction found free (`SlotsMove`), and the rest is
counting. `ResultsAreFinal` needs that whoever has the provider works on a role
that is not over (`Working`), and that a result marks its role as succeeded
(`Marked`). `RepairsAreLimited` adds that the number of steps is bounded by the
stage reached and the repairs so far (`Paced`): a repair costs two steps and is
only eligible below the limit (`StepsAreSpent`).

### Task graph

For every number of Big Tasks, Subtasks, processes, plans, sets of dependencies
and versions, and every clock (`NoBigTaskAssumption`, in `LocalStateProofs`):

* `GraphStaysReadable`: `GraphReadable`.
* `MaterializedPlansAreFinal`: once a plan became Subtasks, its track, receipt,
  Subtasks and their dependencies are never changed.

The invariant `GInv` adds that every edge stays within one Big Task
(`EdgesOwned`), and so does what a process has checked and not yet written
(`JobsOwned`). Then what the transaction of one Big Task writes is not seen by
the reads of another (`ListingIsLocal`); what it writes under its own was read
back before it committed, except for a single Subtask added by hand, which no
edge can name yet (`NewTaskNoCycle`) and which the trigger refuses once the Big
Task is materialized. Cycles are defined as the union of the closed sets of
Subtasks, which is what is left when those without an unvisited blocker are
visited one after the other.

### Only model-checked

All liveness (`WorkerSettles`, `Drains`, `UndisturbedDelivers`, `QueuedIsPlanned`,
`StopsPlanning`, `TurnEnds`), which is out of the prover's reach, as is ENABLED.
`StopsPlanning` and the other leads-to properties rest on the fairness above.
Every invariant and every action property of the runs is proved. The four
properties that documents claim and the code violates are refuted by TLC.

## 5. Plan

1. Done: approved execution (`BigTaskExecution`, `ResultDelivery`).
2. Done: planning (`LivePlanning`, `PlanAuthority`).
3. Done: governed roles with several callers (`WorkflowRules`,
   `SubtaskWorkflow`, `GovernedWorkflow`).
4. Done: worktree ownership, provider turn, task, execution and context records,
   the lock and session files of the daemon.
5. Done: proofs of every invariant and action property that a run checks.
6. Left to model: several Big Tasks that compete for the capacity of a project;
   the managed runtime of the provider; the budget extension of a role; context
   packets and promotion.
7. Left to prove: for what is modelled under 6, its invariants; liveness and
   ENABLED stay with TLC.

## 6. Not modelled

* HTTP parsing and authentication, CLI and UI formatting, schema generation and
  compatibility harnesses: no state of their own that the modelled parts read.
* The managed runtime of the provider (`runtime-ownership.ts`): the selector of the
  active and the previous executable, which an operator changes under a lock file
  of its own and which a launch reads once.
* The one-time budget extension of a role, context packets and the promotion of
  results; the contents of prompts, results and packets.
* `selectSerialWriteDispatch` (`orchestration/src/dispatch.ts`), which nothing in
  production calls; audit events; the replacement of a digest; the text checks of
  the schema; how `canResume` is displayed.
* The limit of 1,024 events of an execution's log (`big-task-execution.ts:272`)
  against up to 10,000 approved role calls: an instance that reaches it is out
  of TLC's reach. It is a hazard without a property.
