-------------------------- MODULE BigTaskExecution --------------------------
(***************************************************************************)
(* One approved, live-planned Big Task: the append-only execution log      *)
(* (packages/storage/src/big-task-execution.ts), the part of the governed  *)
(* store that prepares, reserves and records roles                         *)
(* (packages/storage/src/governed-execution.ts), the provider turn of a    *)
(* role (packages/codex-adapter/src/live-execution.ts), the background     *)
(* worker and the human operations around it                               *)
(* (packages/local-control/src/service.ts, console-application.ts), and    *)
(* the restart of the daemon (daemon.ts).                                  *)
(*                                                                         *)
(* Durable state (SQLite and Git) survives a crash; the worker does not.   *)
(* Every action makes at most one durable write, so a crash may fall       *)
(* between any two of them.  HTTP requests run on the worker's own event   *)
(* loop: they interleave with it only where it awaits.                     *)
(*                                                                         *)
(* A commit is the sequence of the subtasks whose work it contains, so     *)
(* <<>> is the approved repository head and ancestry is prefix order.      *)
(* A role attempt (authorization, link and execution run, created in one   *)
(* transaction) is an element of "runs".  Tokens are counted one per run.  *)
(* The clock is kept only as the state of the approved window.             *)
(***************************************************************************)
EXTENDS Naturals, FiniteSets, SequencesExt

CONSTANTS
    N,              \* number of subtasks; the materialized order is 1..N
    Upstream,       \* [1..N -> SUBSET (1..N)]: the dependencies of each subtask
    Roles,          \* roles of a subtask: the first writes, the others only read
    RoleLimit,      \* approved roleCallLimit
    TokenLimit,     \* approved totalTokenLimit
    QaTokenLimit,   \* the total that a QA recovery or an adjustment may set
    Mode,           \* approved budgetMode: "HARD" or "MEASURE"
    MaxRoles,       \* bound on the roleCallLimit an adjustment may set
    MaxRevisions,   \* bound on the number of limit adjustments
    Events,         \* the disturbances that may happen in this instance
    None            \* no commit, no integration intent

Subtasks == 1 .. N
Sha == Seq(Subtasks)

Disturbances ==
    { "LOCAL",      \* a Git, filesystem or database operation throws
      "CLAIM",      \* the provider claim throws after the reservation
      "ROLE",       \* a role fails before, at or during its turn
      "BLOCKED",    \* a role reports that it cannot meet its contract
      "RECONCILE",  \* a saved role result cannot be reconciled
      "WORKER",     \* the worker cannot even record why it stops
      "CRASH",      \* the daemon process dies
      "SHUTDOWN",   \* the daemon is asked to stop
      "EXPIRE",     \* the approved window passes
      "PAUSE",      \* execution-pause
      "TASK_LIFECYCLE", "SUBTASK_LIFECYCLE" }   \* pauses and resumptions

Phase == { "APPROVED", "RUNNING", "PAUSED", "HUMAN_REQUIRED",
           "AWAITING_ACCEPTANCE", "ACCEPTED", "CLOSED" }
PauseReasons == { "USER_PAUSED", "DAEMON_STOPPING", "CHECKPOINT_RECOVERED" }
HumanReasons == { "INTERRUPTED", "TIME_LIMIT_REACHED", "TOKEN_LIMIT_REACHED",
                  "ROLE_LIMIT_REACHED", "USAGE_UNKNOWN", "GOVERNED_BLOCKED",
                  "LOCAL_OPERATION_FAILED" }
StopReason == PauseReasons \cup HumanReasons \cup {"NONE"}
ControlPhase == { "NONE", "PREPARE_ROLE", "DELIVER" }
Delivered == { "AWAITING_ACCEPTANCE", "ACCEPTED", "CLOSED" }

Intent == [task : 0 .. N, from : Sha, to : Sha]     \* task 0: create the ref
Run == [ task : Subtasks, stage : 1 .. Roles,
         status : {"CREATED", "RUNNING", "SUCCEEDED", "FAILED", "INTERRUPTED"},
         usage : {"NONE", "KNOWN", "UNKNOWN"},
         outcome : {"NONE", "OK", "BLOCKED"},
         replaced : BOOLEAN ]      \* a RECOVERY replaced its authorization
Limits == [ roleCalls : Nat, tokens : Nat, mode : {"HARD", "MEASURE"},
            recoveries : Nat, revision : Nat ]

ASSUME ConstantsAssumption ==
    /\ N \in Nat \ {0}
    /\ Upstream \in [Subtasks -> SUBSET Subtasks]
    /\ Roles \in Nat \ {0}
    /\ RoleLimit \in Nat \ {0} /\ MaxRoles \in Nat /\ RoleLimit <= MaxRoles
    /\ TokenLimit \in Nat \ {0} /\ QaTokenLimit \in Nat \ {0}
    /\ Mode \in {"HARD", "MEASURE"}
    /\ MaxRevisions \in Nat
    /\ Events \subseteq Disturbances
    /\ None \notin Sha /\ None \notin Intent

VARIABLES
    \* the execution event log, folded as inspect() folds it
    phase, stopReason, control, window, limits, warned, acked, qaRun,
    integrated, head, created, pending,
    \* governed workflow, dispatch receipts, role runs, Big Task completion
    runs, done, receipt, base, finished,
    \* console lifecycle settings
    taskPaused, subPaused,
    \* the result branch in Git
    ref,
    \* the daemon process: its service, the worker of this Big Task, its
    \* abort signal
    service, pc, aborted

logVars == <<phase, stopReason, control, window, limits, warned, acked, qaRun,
             integrated, head, created, pending>>
governedVars == <<runs, done, receipt, base, finished>>
lifecycleVars == <<taskPaused, subPaused>>
processVars == <<service, pc, aborted>>
vars == <<logVars, governedVars, lifecycleVars, ref, processVars>>

Receipt == {"NONE", "RESERVED", "ACTIVE", "PAUSED", "COMPLETED"}
Service == { "OPEN",      \* serving requests
             "LOST",      \* serving, but #stopping was set by a lost worker
             "DRAINING",  \* stopAndDrain
             "DOWN" }
WorkerPc == { "NONE",     \* no job
              "LOOP",     \* between two roles
              "REF", "SCAN", "APPLY", "RECORD", "PICK", "DELIVER",   \* synchronous
              "CLAIMED", "SENT", "LIVE",      \* awaiting the provider
              "RESULT", "FAILED" }            \* synchronous
Awaiting == {"NONE", "LOOP", "CLAIMED", "SENT", "LIVE"}
Preparing == {"REF", "SCAN", "APPLY", "RECORD", "PICK", "DELIVER"}

TypeOK ==
    /\ phase \in Phase /\ stopReason \in StopReason /\ control \in ControlPhase
    /\ window \in {"UNSET", "OPEN", "EXPIRED"}
    /\ limits \in Limits /\ warned \in BOOLEAN
    /\ acked \subseteq DOMAIN runs /\ qaRun \in 0 .. Len(runs)
    /\ integrated \in Seq(Subtasks) /\ head \in Sha
    /\ created \in BOOLEAN /\ pending \in Intent \cup {None}
    /\ runs \in Seq(Run) /\ done \in [Subtasks -> 0 .. Roles]
    /\ receipt \in [Subtasks -> Receipt] /\ base \in [Subtasks -> Sha \cup {None}]
    /\ finished \in BOOLEAN
    /\ taskPaused \in BOOLEAN /\ subPaused \subseteq Subtasks
    /\ ref \in Sha \cup {None}
    /\ service \in Service /\ pc \in WorkerPc /\ aborted \in BOOLEAN

Init ==
    /\ phase = "APPROVED" /\ stopReason = "NONE" /\ control = "NONE"
    /\ window = "UNSET" /\ warned = FALSE /\ acked = {} /\ qaRun = 0
    /\ limits = [ roleCalls |-> RoleLimit, tokens |-> TokenLimit, mode |-> Mode,
                  recoveries |-> 1, revision |-> 0 ]
    /\ integrated = <<>> /\ head = <<>> /\ created = FALSE /\ pending = None
    /\ runs = <<>> /\ done = [s \in Subtasks |-> 0]
    /\ receipt = [s \in Subtasks |-> "NONE"] /\ base = [s \in Subtasks |-> None]
    /\ finished = FALSE
    /\ taskPaused = FALSE /\ subPaused = {} /\ ref = None
    /\ service = "OPEN" /\ pc = "NONE" /\ aborted = FALSE
-----------------------------------------------------------------------------
(***************************************************************************)
(* Status derived from the log and the runs                                *)
(***************************************************************************)
Active(i) == runs[i].status \in {"CREATED", "RUNNING"}
ActiveRuns == {i \in DOMAIN runs : Active(i)}
UnknownRuns == {i \in DOMAIN runs : ~Active(i) /\ runs[i].usage = "UNKNOWN"}
KnownTokens == Cardinality({i \in DOMAIN runs : runs[i].usage = "KNOWN"})

(* Unknown usage blocks unless a human acknowledged it, or it is the usage *)
(* of a successful run under a budget that only measures.                  *)
Unacknowledged ==
    {i \in UnknownRuns : /\ i \notin acked /\ i # qaRun
                         /\ ~(limits.mode = "MEASURE" /\ runs[i].status = "SUCCEEDED")}
UsageSettled == ActiveRuns = {} /\ Unacknowledged = {}

WarningOnly == IF limits.revision > 0 THEN limits.mode = "MEASURE"
                                      ELSE Mode = "MEASURE" \/ warned
TokenLimitReached == ~WarningOnly /\ KnownTokens >= limits.tokens
RoleLimitPassed == Len(runs) > limits.roleCalls           \* faulty: off by one
RoleLimitReached == Len(runs) >= limits.roleCalls

(* A START needs every attempt to have succeeded or to have been replaced. *)
SafeCheckpoint == \A i \in DOMAIN runs : runs[i].status = "SUCCEEDED" \/ runs[i].replaced
CanRetryPreparation ==
    /\ phase = "HUMAN_REQUIRED"
    /\ \/ stopReason = "LOCAL_OPERATION_FAILED" /\ control = "PREPARE_ROLE"
       \/ stopReason = "GOVERNED_BLOCKED" /\ runs = <<>> /\ control = "NONE"
    /\ pending = None /\ UsageSettled /\ SafeCheckpoint
AssertRunning ==
    phase = "RUNNING" /\ window = "OPEN" /\ Unacknowledged = {} /\ ~TokenLimitReached

(* The attempts of a stage; the one that is not replaced is current.       *)
Attempts(s, k) == {i \in DOMAIN runs : runs[i].task = s /\ runs[i].stage = k}
Current(s) == {i \in Attempts(s, done[s] + 1) : ~runs[i].replaced}
RecoveryAttempt(i) == Cardinality({j \in Attempts(runs[i].task, runs[i].stage) : j < i})
Writes(k) == k = 1
Recoverable(i) ==
    \/ runs[i].status \in {"FAILED", "INTERRUPTED"}
    \/ runs[i].outcome = "BLOCKED" /\ Writes(runs[i].stage)

Complete(s) == done[s] = Roles
CandidateOnApproval(s) == <<s>>      \* faulty: committed on the approved head
Candidate(s) == Append(base[s], s)
SubtaskActive(s) == ~taskPaused /\ s \notin subPaused
Eligible == {s \in Subtasks : /\ ~Complete(s) /\ SubtaskActive(s)
                              /\ \A u \in Upstream[s] : Complete(u)}
First(s, S) == s \in S /\ \A t \in S : s <= t           \* the materialized order
Selected(s) == First(s, Eligible)
Unintegrated == {s \in Subtasks : Complete(s) /\ s \notin Range(integrated)}

(* Reading the occupied slots turns the ACTIVE receipt of a paused subtask *)
(* without an active run into PAUSED.                                      *)
IdleRetained(s) == ~SubtaskActive(s) /\ \A i \in ActiveRuns : runs[i].task # s
Settled(r) == [s \in Subtasks |-> IF r[s] = "ACTIVE" /\ IdleRetained(s) THEN "PAUSED" ELSE r[s]]
ActiveOther(s) ==                    \* faulty: a reserved slot counts as free
    \E t \in Subtasks \ {s} : Settled(receipt)[t] = "ACTIVE"
OccupiedByOther(s) == \E t \in Subtasks \ {s} : Settled(receipt)[t] \in {"RESERVED", "ACTIVE"}

(* HTTP handlers run while the worker awaits or there is none.             *)
Serving == service \in {"OPEN", "LOST"} /\ pc \in Awaiting

Stop(reason) ==
    /\ phase' = IF reason \in PauseReasons THEN "PAUSED" ELSE "HUMAN_REQUIRED"
    /\ stopReason' = reason
StopIfRunning(reason) ==
    IF phase = "RUNNING" THEN Stop(reason) ELSE UNCHANGED <<phase, stopReason>>
-----------------------------------------------------------------------------
(***************************************************************************)
(* Human operations                                                        *)
(***************************************************************************)

(* START materializes the plan and schedules the worker, unless one is     *)
(* still winding down.  It does not look at a pending integration when the *)
(* execution is paused.                                                    *)
CanStart ==
    /\ service = "OPEN" /\ pc = "NONE" /\ ~taskPaused
    /\ \/ phase \in {"APPROVED", "PAUSED"}
       \/ phase = "HUMAN_REQUIRED" /\ stopReason = "TIME_LIMIT_REACHED"
       \/ CanRetryPreparation
    /\ window # "EXPIRED"
    /\ SafeCheckpoint /\ UsageSettled /\ ~TokenLimitReached /\ ~RoleLimitReached
StartEffect ==
    /\ phase' = "RUNNING" /\ stopReason' = "NONE" /\ window' = "OPEN"
    /\ pc' = "LOOP" /\ aborted' = FALSE
Start ==
    /\ Serving /\ CanStart /\ StartEffect
    /\ UNCHANGED <<control, limits, warned, acked, qaRun, integrated, head, created, pending,
                   governedVars, lifecycleVars, ref, service>>

(* execution-pause stops at once and aborts the worker, except that a role *)
(* of a paused subtask is left to reach its own boundary.                  *)
PauseEffect ==
    IF \E i \in ActiveRuns : pc # "NONE" /\ (taskPaused' \/ runs[i].task \in subPaused')
    THEN UNCHANGED <<phase, stopReason, aborted>>
    ELSE /\ StopIfRunning("USER_PAUSED")
         /\ aborted' = (aborted \/ pc # "NONE")
Pause ==
    /\ "PAUSE" \in Events /\ Serving /\ phase = "RUNNING"
    /\ UNCHANGED lifecycleVars /\ PauseEffect
    /\ UNCHANGED <<control, window, limits, warned, acked, qaRun, integrated, head, created,
                   pending, governedVars, ref, service, pc>>

(* lifecycle-change of the Big Task or of a subtask: the setting is saved, *)
(* then a running execution is paused when it concerns the active role or  *)
(* there is none, or an idle one is resumed when it may be.                *)
PauseScope ==
    /\ \/ /\ "TASK_LIFECYCLE" \in Events /\ ~taskPaused
          /\ taskPaused' = TRUE /\ UNCHANGED subPaused
       \/ /\ "SUBTASK_LIFECYCLE" \in Events /\ UNCHANGED taskPaused
          /\ \E s \in Subtasks \ subPaused : subPaused' = subPaused \cup {s}
    /\ Serving
    /\ IF /\ phase = "RUNNING"
          /\ taskPaused' # taskPaused \/ \A i \in ActiveRuns : runs[i].task \in subPaused' \ subPaused
       THEN PauseEffect
       ELSE UNCHANGED <<phase, stopReason, aborted>>
    /\ UNCHANGED <<control, window, limits, warned, acked, qaRun, integrated, head, created,
                   pending, governedVars, ref, service, pc>>
ResumeScope ==
    /\ \/ taskPaused /\ taskPaused' = FALSE /\ UNCHANGED subPaused
       \/ \E s \in subPaused : subPaused' = subPaused \ {s} /\ UNCHANGED taskPaused
    /\ Serving
    /\ IF /\ ~taskPaused' /\ phase \in {"APPROVED", "PAUSED"} /\ window # "EXPIRED"
          /\ service = "OPEN" /\ pc = "NONE"
          /\ SafeCheckpoint /\ UsageSettled /\ ~TokenLimitReached /\ ~RoleLimitReached
       THEN StartEffect
       ELSE UNCHANGED <<phase, stopReason, window, pc, aborted>>
    /\ UNCHANGED <<control, limits, warned, acked, qaRun, integrated, head, created, pending,
                   governedVars, ref, service>>

(* An adjustment may raise the limits, switch the budget mode and          *)
(* acknowledge runs whose usage is unknown; acknowledgements only grow and *)
(* need a measuring budget.                                                *)
Adjust(newLimits, newAcked) ==
    /\ Serving /\ phase \in {"PAUSED", "HUMAN_REQUIRED"}
    /\ ActiveRuns = {} /\ pending = None
    /\ newLimits.revision = limits.revision + 1
    /\ newLimits.roleCalls >= Len(runs)
    /\ acked \subseteq newAcked /\ newAcked \subseteq UnknownRuns
    /\ newAcked # {} => newLimits.mode = "MEASURE"
    /\ limits' = newLimits /\ acked' = newAcked
    /\ IF stopReason \in {"TOKEN_LIMIT_REACHED", "ROLE_LIMIT_REACHED"}
       THEN Stop(IF \E i \in DOMAIN runs : /\ runs[i].status \in {"FAILED", "INTERRUPTED"}
                                           /\ ~runs[i].replaced
                 THEN "GOVERNED_BLOCKED" ELSE "CHECKPOINT_RECOVERED")
       ELSE UNCHANGED <<phase, stopReason>>
    /\ UNCHANGED <<control, window, warned, qaRun, integrated, head, created, pending,
                   governedVars, lifecycleVars, ref, processVars>>
AdjustLimits ==
    /\ limits.revision < MaxRevisions
    /\ \E raise \in BOOLEAN, mode \in {"HARD", "MEASURE"},
          newAcked \in {acked, acked \cup UnknownRuns} :
           Adjust([ roleCalls |-> IF raise THEN MaxRoles ELSE limits.roleCalls,
                    tokens |-> IF raise THEN QaTokenLimit ELSE limits.tokens,
                    mode |-> mode, recoveries |-> limits.recoveries + 1,
                    revision |-> limits.revision + 1 ], newAcked)

(* A renewal replaces an expired window only.                              *)
CanRenewWindow ==
    /\ phase \in {"PAUSED", "HUMAN_REQUIRED"} /\ window = "EXPIRED" /\ pending = None
    /\ UsageSettled /\ ~TokenLimitReached /\ ~RoleLimitReached
RenewWindow ==
    /\ Serving /\ CanRenewWindow /\ window' = "OPEN"
    /\ UNCHANGED <<phase, stopReason, control, limits, warned, acked, qaRun, integrated, head,
                   created, pending, governedVars, lifecycleVars, ref, processVars>>

AnyUsage(i) == i \in DOMAIN runs         \* faulty: unknown usage is let through
AccountedFor(i) == runs[i].usage = "KNOWN" \/ i \in acked

(* The review of a recovery: exactly one attempt is recoverable, it is the *)
(* current one of its stage, and its usage is known or acknowledged.       *)
CanRecover(i) ==
    /\ phase = "HUMAN_REQUIRED"
    /\ stopReason \in { "GOVERNED_BLOCKED", "TOKEN_LIMIT_REACHED", "TIME_LIMIT_REACHED",
                        "USAGE_UNKNOWN" }
    /\ UsageSettled /\ window = "OPEN" /\ pending = None
    /\ stopReason = "TOKEN_LIMIT_REACHED" \/ ~TokenLimitReached
    /\ ~RoleLimitReached
    /\ {j \in DOMAIN runs : Recoverable(j) /\ ~runs[j].replaced} = {i}
    /\ i \in Current(runs[i].task)
    /\ receipt[runs[i].task] \in {"RESERVED", "ACTIVE"}
    /\ RecoveryAttempt(i) < limits.recoveries
    /\ AccountedFor(i)
Replace(i) ==
    /\ runs' = [runs EXCEPT ![i].replaced = TRUE]
    /\ phase' = "PAUSED" /\ stopReason' = "CHECKPOINT_RECOVERED"
Recover ==
    /\ Serving
    /\ \E i \in DOMAIN runs : CanRecover(i) /\ Replace(i)
    /\ warned' = (warned \/ stopReason = "TOKEN_LIMIT_REACHED" \/ WarningOnly)
    /\ UNCHANGED <<control, window, limits, acked, qaRun, integrated, head, created, pending,
                   done, receipt, base, finished, lifecycleVars, ref, processVars>>

(* Once, after an earlier recovery: one failed QA of unknown usage is      *)
(* acknowledged and replaced, with a new window and a known-token limit.   *)
CanRecoverQa(i) ==
    /\ phase = "HUMAN_REQUIRED" /\ stopReason = "USAGE_UNKNOWN"
    /\ \E j \in DOMAIN runs : runs[j].replaced
    /\ qaRun = 0 /\ ActiveRuns = {} /\ pending = None
    /\ KnownTokens < QaTokenLimit /\ ~RoleLimitReached
    /\ {j \in UnknownRuns : runs[j].status \in {"FAILED", "INTERRUPTED"}} = {i}
    /\ UnknownRuns = {i}
    /\ i \in Current(runs[i].task) /\ RecoveryAttempt(i) = 0
    /\ receipt[runs[i].task] \in {"RESERVED", "ACTIVE"}
    /\ ~Writes(runs[i].stage)
RecoverQa ==
    /\ Serving
    /\ \E i \in DOMAIN runs : CanRecoverQa(i) /\ Replace(i) /\ qaRun' = i
    /\ window' = "OPEN"
    /\ limits' = IF limits.revision = 0 THEN [limits EXCEPT !.tokens = QaTokenLimit] ELSE limits
    /\ UNCHANGED <<control, warned, acked, integrated, head, created, pending,
                   done, receipt, base, finished, lifecycleVars, ref, processVars>>

DecideAgain(verdict) ==              \* faulty: a decision may be replaced
    /\ Serving /\ phase \in Delivered /\ ref = head
    /\ phase' = verdict
    /\ UNCHANGED <<stopReason, control, window, limits, warned, acked, qaRun, integrated, head,
                   created, pending, governedVars, lifecycleVars, ref, processVars>>

(* Acceptance and closeout name the delivered head, which must be in Git.  *)
Decide(verdict) ==
    /\ Serving /\ phase = "AWAITING_ACCEPTANCE" /\ ref = head
    /\ phase' = verdict
    /\ UNCHANGED <<stopReason, control, window, limits, warned, acked, qaRun, integrated, head,
                   created, pending, governedVars, lifecycleVars, ref, processVars>>
Accept == Decide("ACCEPTED")
Close == Decide("CLOSED")
-----------------------------------------------------------------------------
(***************************************************************************)
(* The worker: limits, the result branch, completed candidates             *)
(***************************************************************************)
LogUnchanged == UNCHANGED <<control, window, limits, warned, acked, qaRun, integrated, head,
                            created, pending>>

(* The worker leaves when the execution stopped or it was aborted.         *)
WorkerExit ==
    /\ pc = "LOOP" /\ (phase # "RUNNING" \/ aborted)
    /\ pc' = "NONE" /\ aborted' = FALSE
    /\ UNCHANGED <<logVars, governedVars, lifecycleVars, ref, service>>

LimitReason ==
    IF taskPaused THEN "USER_PAUSED"
    ELSE IF window = "EXPIRED" THEN "TIME_LIMIT_REACHED"
    ELSE IF ~UsageSettled THEN "USAGE_UNKNOWN"
    ELSE IF TokenLimitReached THEN "TOKEN_LIMIT_REACHED"
    ELSE "NONE"
CheckLimits ==
    /\ pc = "LOOP" /\ phase = "RUNNING" /\ ~aborted
    /\ IF LimitReason = "NONE"
       THEN pc' = "REF" /\ UNCHANGED <<phase, stopReason>>
       ELSE pc' = "NONE" /\ Stop(LimitReason)
    /\ LogUnchanged /\ UNCHANGED <<governedVars, lifecycleVars, ref, service, aborted>>

(* A stop while preparing records the control failure with its phase.      *)
StopPreparing(reason) ==
    /\ pc \in Preparing /\ Stop(reason)
    /\ control' = IF pc = "DELIVER" THEN "DELIVER" ELSE "PREPARE_ROLE"
    /\ pc' = "NONE" /\ aborted' = FALSE
    /\ UNCHANGED <<window, limits, warned, acked, qaRun, integrated, head, created, pending,
                   governedVars, lifecycleVars, ref, service>>

(* Transaction 1 of an integration stores the exact intent.  The result    *)
(* branch itself is created by the intent of task 0.                       *)
PrepareIntent(s, to) ==
    /\ AssertRunning
    /\ IsPrefix(head, to)
    /\ IF pending = None
       THEN /\ ref = (IF created THEN head ELSE None)
            /\ pending' = [task |-> s, from |-> head, to |-> to]
       ELSE pending = [task |-> s, from |-> head, to |-> to] /\ UNCHANGED pending
    /\ pc' = "APPLY"
    /\ UNCHANGED <<phase, stopReason, control, window, limits, warned, acked, qaRun, integrated,
                   head, created, governedVars, lifecycleVars, ref, service, aborted>>
EnsureRef ==
    /\ pc = "REF"
    /\ IF ~created THEN PrepareIntent(0, head)
       ELSE /\ AssertRunning /\ pc' = "SCAN"
            /\ UNCHANGED <<logVars, governedVars, lifecycleVars, ref, service, aborted>>

(* Completed candidates are integrated in materialized order, each only if *)
(* it descends from the current head.                                      *)
IntegrateCandidate(s) ==
    /\ pc = "SCAN" /\ First(s, Unintegrated)
    /\ PrepareIntent(s, Candidate(s))
IntegrationRefused(s) ==
    /\ pc = "SCAN" /\ First(s, Unintegrated) /\ ~IsPrefix(head, Candidate(s))
    /\ StopPreparing("LOCAL_OPERATION_FAILED")

(* Outside any transaction: a compare-and-swap of the branch, skipped when *)
(* it already shows the intended commit.                                   *)
UpdateRef ==
    /\ pc = "APPLY" /\ window = "OPEN"
    /\ ref \in {pending.to, IF created THEN pending.from ELSE None}
    /\ ref' = pending.to /\ pc' = "RECORD"
    /\ UNCHANGED <<logVars, governedVars, lifecycleVars, service, aborted>>

(* Transaction 2 needs the same intent and a running execution, not time.  *)
RecordIntegration ==
    /\ pc = "RECORD" /\ phase = "RUNNING"
    /\ head' = pending.to
    /\ IF pending.task = 0
       THEN created' = TRUE /\ pc' = "SCAN" /\ UNCHANGED integrated
       ELSE integrated' = Append(integrated, pending.task) /\ pc' = "SCAN" /\ UNCHANGED created
    /\ pending' = None
    /\ UNCHANGED <<phase, stopReason, control, window, limits, warned, acked, qaRun,
                   governedVars, lifecycleVars, ref, service, aborted>>

(* With every candidate integrated, a graph that is wholly complete gets   *)
(* its completion receipt and goes to delivery.                            *)
AllComplete == \A s \in Subtasks : Complete(s)
ScanDone ==
    /\ pc = "SCAN" /\ Unintegrated = {}
    /\ finished' = (finished \/ AllComplete)
    /\ pc' = IF AllComplete THEN "DELIVER" ELSE "PICK"
    /\ UNCHANGED <<logVars, runs, done, receipt, base, lifecycleVars, ref, service, aborted>>

DeliverUncounted ==                  \* faulty: the integrated subtasks are not counted
    /\ pc = "DELIVER"
    /\ AssertRunning /\ UsageSettled /\ pending = None /\ finished
    /\ phase' = "AWAITING_ACCEPTANCE" /\ pc' = "NONE"
    /\ LogUnchanged
    /\ UNCHANGED <<stopReason, governedVars, lifecycleVars, ref, service, aborted>>

Deliver ==
    /\ pc = "DELIVER"
    /\ AssertRunning /\ UsageSettled /\ pending = None /\ finished /\ Len(integrated) = N
    /\ phase' = "AWAITING_ACCEPTANCE" /\ pc' = "NONE"
    /\ LogUnchanged
    /\ UNCHANGED <<stopReason, governedVars, lifecycleVars, ref, service, aborted>>
DeliverRefused ==
    /\ pc = "DELIVER" /\ Len(integrated) # N
    /\ StopPreparing("LOCAL_OPERATION_FAILED")
-----------------------------------------------------------------------------
(***************************************************************************)
(* The worker: the next role                                               *)
(***************************************************************************)
PickUnchanged == UNCHANGED <<logVars, finished, lifecycleVars, ref, service, aborted>>

NothingEligiblePolls ==              \* faulty: the worker waits for the human
    /\ pc = "PICK" /\ Eligible = {} /\ pc' = "LOOP"
    /\ UNCHANGED <<runs, done, receipt, base>> /\ PickUnchanged

(* No subtask may proceed: one that waits for a paused subtask is not an   *)
(* error.                                                                  *)
NothingEligible ==
    /\ pc = "PICK" /\ Eligible = {}
    /\ StopPreparing(IF \E s \in Subtasks : ~Complete(s) /\ ~SubtaskActive(s)
                     THEN "USER_PAUSED" ELSE "GOVERNED_BLOCKED")

ProvisionFromApproval(s) ==          \* faulty: cut from the approved head
    /\ pc = "PICK" /\ Selected(s) /\ AssertRunning
    /\ base[s] = None /\ created /\ pending = None /\ ref = head
    /\ base' = [base EXCEPT ![s] = <<>>]
    /\ receipt' = Settled(receipt)
    /\ UNCHANGED <<runs, done, pc>> /\ PickUnchanged

(* The owned worktree of a subtask starts at the head of its first         *)
(* preparation and is never moved; then the dispatch gates are committed.  *)
Provision(s) ==
    /\ pc = "PICK" /\ Selected(s) /\ AssertRunning
    /\ base[s] = None /\ created /\ pending = None /\ ref = head
    /\ base' = [base EXCEPT ![s] = head]
    /\ receipt' = Settled(receipt)
    /\ UNCHANGED <<runs, done, pc>> /\ PickUnchanged

(* A dispatch slot: at most one writing subtask of the project is occupied.*)
(* An ACTIVE receipt is one whose subtask has a role authorization.        *)
Dispatch(s) ==
    /\ pc = "PICK" /\ Selected(s) /\ base[s] # None
    /\ \/ /\ receipt[s] = "NONE" /\ ~OccupiedByOther(s)
          /\ receipt' = [Settled(receipt) EXCEPT ![s] = "RESERVED"]
       \/ /\ receipt[s] = "PAUSED" /\ ~OccupiedByOther(s)
          /\ receipt' = [Settled(receipt) EXCEPT ![s] = "ACTIVE"]
       \/ /\ receipt[s] = "RESERVED" /\ window = "OPEN"
          /\ receipt' = [receipt EXCEPT ![s] = "ACTIVE"]
    /\ UNCHANGED <<runs, done, base, pc>> /\ PickUnchanged
DispatchBlocked(s) ==
    /\ pc = "PICK" /\ Selected(s) /\ base[s] # None
    /\ receipt[s] \in {"NONE", "PAUSED"} /\ OccupiedByOther(s)
    /\ StopPreparing("LOCAL_OPERATION_FAILED")

AdvanceKeepsSlot(i) ==               \* faulty: the slot is not given back
    /\ done' = [done EXCEPT ![runs[i].task] = @ + 1]
    /\ UNCHANGED receipt

(* The role result of attempt i moves the workflow of its subtask on.      *)
Advance(i) ==
    LET s == runs[i].task IN
    /\ done' = [done EXCEPT ![s] = @ + 1]
    /\ receipt' = IF done[s] + 1 = Roles THEN [receipt EXCEPT ![s] = "COMPLETED"] ELSE receipt

(* A result that was saved before a crash is reconciled on the next pass.  *)
(* When this completes the subtask the pass ends: with the Big Task, or    *)
(* with nothing eligible.                                                  *)
ReconcileSaved(s) ==
    /\ pc = "PICK" /\ Selected(s) /\ receipt[s] = "ACTIVE" /\ window = "OPEN"
    /\ \E i \in Current(s) : runs[i].outcome = "OK" /\ Advance(i)
    /\ finished' = \A t \in Subtasks : done'[t] = Roles
    /\ IF done'[s] < Roles THEN pc' = "PICK" /\ UNCHANGED <<phase, stopReason, control>>
       ELSE IF finished' THEN pc' = "DELIVER" /\ UNCHANGED <<phase, stopReason, control>>
       ELSE pc' = "NONE" /\ Stop("GOVERNED_BLOCKED") /\ control' = "PREPARE_ROLE"
    /\ UNCHANGED <<window, limits, warned, acked, qaRun, integrated, head, created, pending,
                   runs, base, lifecycleVars, ref, service, aborted>>

(* A current attempt without an accepted result blocks the subtask.        *)
RoleBlocked(s) ==
    /\ pc = "PICK" /\ Selected(s) /\ receipt[s] = "ACTIVE"
    /\ \E i \in Current(s) : runs[i].outcome # "OK"
    /\ StopPreparing("GOVERNED_BLOCKED")

RoleLimitStop(s) ==
    /\ pc = "PICK" /\ Selected(s) /\ receipt[s] = "ACTIVE" /\ Current(s) = {}
    /\ RoleLimitReached /\ Stop("ROLE_LIMIT_REACHED") /\ pc' = "NONE"
    /\ LogUnchanged /\ UNCHANGED <<governedVars, lifecycleVars, ref, service, aborted>>

(* Reservation: the ROLE event, the run and its link in one transaction,   *)
(* then the provider claim in another.  A claim that throws leaves the run *)
(* CREATED.                                                                *)
ReserveRole(s) ==
    /\ pc = "PICK" /\ Selected(s) /\ receipt[s] = "ACTIVE" /\ Current(s) = {}
    /\ ActiveRuns = {} /\ AssertRunning /\ ~RoleLimitReached
    /\ runs' = Append(runs, [ task |-> s, stage |-> done[s] + 1, status |-> "CREATED",
                              usage |-> "NONE", outcome |-> "NONE", replaced |-> FALSE ])
    /\ \/ pc' = "CLAIMED"
       \/ "CLAIM" \in Events /\ pc' = "FAILED"
    /\ UNCHANGED <<done, receipt, base>> /\ PickUnchanged

(* An expired window, or an exception, ends the preparation wherever it is.*)
PreparationFails ==
    \/ window = "EXPIRED" /\ StopPreparing("TIME_LIMIT_REACHED")
    \/ "LOCAL" \in Events /\ window = "OPEN" /\ StopPreparing("LOCAL_OPERATION_FAILED")
-----------------------------------------------------------------------------
(***************************************************************************)
(* The worker: a role at the provider                                      *)
(***************************************************************************)
RoleRun == Len(runs)         \* the attempt of the worker's role is the last
RoleUnchanged == UNCHANGED <<logVars, finished, base, lifecycleVars, ref, service, aborted>>
MayFailUnaborted == window = "EXPIRED" \/ "ROLE" \in Events   \* faulty: no abort signal
MayFail == aborted \/ window = "EXPIRED" \/ phase # "RUNNING" \/ "ROLE" \in Events

Finalize(status, usage, outcome) ==
    runs' = [runs EXCEPT ![RoleRun].status = status, ![RoleRun].usage = usage,
                         ![RoleRun].outcome = outcome]

FailBeforeTurn ==
    /\ pc = "CLAIMED" /\ MayFail
    /\ Finalize("FAILED", "UNKNOWN", "NONE") /\ pc' = "FAILED"
    /\ UNCHANGED <<done, receipt>> /\ RoleUnchanged
SendTurn ==
    /\ pc = "CLAIMED" /\ AssertRunning /\ ~aborted /\ pc' = "SENT"
    /\ UNCHANGED <<runs, done, receipt>> /\ RoleUnchanged

(* Between turn/start and its response the start is ambiguous: a failure   *)
(* there leaves the run CREATED for ever.                                  *)
TurnStarted ==
    /\ pc = "SENT" /\ ~aborted
    /\ Finalize("RUNNING", "NONE", "NONE") /\ pc' = "LIVE"
    /\ UNCHANGED <<done, receipt>> /\ RoleUnchanged
StartAmbiguous ==
    /\ pc = "SENT" /\ MayFail /\ pc' = "FAILED"
    /\ UNCHANGED <<runs, done, receipt>> /\ RoleUnchanged

(* A completed turn is saved even after a pause, unless it writes: the     *)
(* candidate is committed only while the execution may run.                *)
CompleteTurn ==
    /\ pc = "LIVE"
    /\ Writes(runs[RoleRun].stage) => AssertRunning
    /\ \E outcome \in {"OK", "BLOCKED"}, usage \in {"KNOWN", "UNKNOWN"} :
           /\ outcome = "BLOCKED" => "BLOCKED" \in Events
           /\ usage = "UNKNOWN" => limits.mode = "MEASURE"
           /\ Finalize("SUCCEEDED", usage, outcome)
    /\ pc' = "RESULT" /\ UNCHANGED <<done, receipt>> /\ RoleUnchanged
FailTurn ==
    /\ pc = "LIVE"
    /\ MayFail \/ (~WarningOnly /\ KnownTokens + 1 >= limits.tokens)
    /\ \E status \in {"FAILED", "INTERRUPTED"}, usage \in {"KNOWN", "UNKNOWN"} :
           Finalize(status, usage, "NONE")
    /\ pc' = "FAILED" /\ UNCHANGED <<done, receipt>> /\ RoleUnchanged

Reconcile ==
    /\ pc = "RESULT" /\ pc' = "LOOP"
    /\ IF runs[RoleRun].outcome = "OK" THEN Advance(RoleRun) ELSE UNCHANGED <<done, receipt>>
    /\ UNCHANGED runs /\ RoleUnchanged
ReconcileFails ==
    /\ pc = "RESULT" /\ "RECONCILE" \in Events /\ pc' = "FAILED"
    /\ UNCHANGED <<runs, done, receipt>> /\ RoleUnchanged

FailureReason ==
    IF window = "EXPIRED" THEN "TIME_LIMIT_REACHED"
    ELSE IF ~UsageSettled THEN "USAGE_UNKNOWN"
    ELSE IF TokenLimitReached THEN "TOKEN_LIMIT_REACHED"
    ELSE "GOVERNED_BLOCKED"
StopAfterFailure ==
    /\ pc = "FAILED" /\ StopIfRunning(FailureReason)
    /\ pc' = "NONE" /\ aborted' = FALSE
    /\ LogUnchanged /\ UNCHANGED <<governedVars, lifecycleVars, ref, service>>
-----------------------------------------------------------------------------
(***************************************************************************)
(* The clock and the daemon                                                *)
(***************************************************************************)
Expire ==
    /\ "EXPIRE" \in Events /\ window = "OPEN" /\ phase \notin Delivered /\ window' = "EXPIRED"
    /\ UNCHANGED <<phase, stopReason, control, limits, warned, acked, qaRun, integrated, head,
                   created, pending, governedVars, lifecycleVars, ref, processVars>>

(* The worker cannot record its own stop: #stopping is set and the job is  *)
(* gone while the log still says RUNNING.                                  *)
WorkerLost ==
    /\ "WORKER" \in Events /\ pc \in Preparing \cup {"FAILED"}
    /\ pc' = "NONE" /\ aborted' = FALSE
    /\ service' = IF service = "OPEN" THEN "LOST" ELSE service
    /\ UNCHANGED <<logVars, governedVars, lifecycleVars, ref>>

(* stopAndDrain stops every execution that has a job and aborts it; the    *)
(* process ends when the jobs have ended.                                  *)
Shutdown ==
    /\ "SHUTDOWN" \in Events /\ Serving /\ service' = "DRAINING"
    /\ IF pc = "NONE" THEN UNCHANGED <<phase, stopReason, aborted>>
       ELSE StopIfRunning("DAEMON_STOPPING") /\ aborted' = TRUE
    /\ UNCHANGED <<control, window, limits, warned, acked, qaRun, integrated, head, created,
                   pending, governedVars, lifecycleVars, ref, pc>>
Exit ==
    /\ service = "DRAINING" /\ pc = "NONE" /\ service' = "DOWN"
    /\ UNCHANGED <<logVars, governedVars, lifecycleVars, ref, pc, aborted>>
Crash ==
    /\ "CRASH" \in Events /\ service # "DOWN"
    /\ service' = "DOWN" /\ pc' = "NONE" /\ aborted' = FALSE
    /\ UNCHANGED <<logVars, governedVars, lifecycleVars, ref>>

RestartForgetsIntent ==              \* faulty: a half-done integration is dropped
    /\ service = "DOWN" /\ service' = "OPEN" /\ pending' = None
    /\ StopIfRunning(IF SafeCheckpoint THEN "CHECKPOINT_RECOVERED" ELSE "INTERRUPTED")
    /\ UNCHANGED <<control, window, limits, warned, acked, qaRun, integrated, head, created,
                   governedVars, lifecycleVars, ref, pc, aborted>>
RestartSafeOnly ==                   \* faulty: an interrupted execution stays RUNNING
    /\ service = "DOWN" /\ service' = "OPEN"
    /\ IF SafeCheckpoint THEN StopIfRunning("CHECKPOINT_RECOVERED") ELSE UNCHANGED <<phase, stopReason>>
    /\ LogUnchanged
    /\ UNCHANGED <<governedVars, lifecycleVars, ref, pc, aborted>>

(* recoverInterrupted: what was RUNNING is a checkpoint when no attempt is *)
(* unfinished, and interrupted otherwise.                                  *)
Restart ==
    /\ service = "DOWN" /\ service' = "OPEN"
    /\ StopIfRunning(IF SafeCheckpoint THEN "CHECKPOINT_RECOVERED" ELSE "INTERRUPTED")
    /\ LogUnchanged
    /\ UNCHANGED <<governedVars, lifecycleVars, ref, pc, aborted>>
-----------------------------------------------------------------------------
(***************************************************************************)
(* Next, fairness                                                          *)
(***************************************************************************)
HumanStep ==
    \/ Start \/ Pause \/ PauseScope \/ ResumeScope
    \/ AdjustLimits \/ RenewWindow \/ Recover \/ RecoverQa
    \/ Accept \/ Close
PreparationStep ==
    \/ EnsureRef \/ UpdateRef \/ RecordIntegration \/ ScanDone
    \/ Deliver \/ DeliverRefused \/ NothingEligible
    \/ \E s \in Subtasks :
          \/ IntegrateCandidate(s) \/ IntegrationRefused(s)
          \/ Provision(s) \/ Dispatch(s) \/ DispatchBlocked(s) \/ ReconcileSaved(s)
          \/ RoleBlocked(s) \/ RoleLimitStop(s) \/ ReserveRole(s)
    \/ PreparationFails
RoleStep ==
    \/ FailBeforeTurn \/ SendTurn \/ TurnStarted \/ StartAmbiguous
    \/ CompleteTurn \/ FailTurn \/ Reconcile \/ ReconcileFails \/ StopAfterFailure
WorkerStep == WorkerExit \/ CheckLimits \/ PreparationStep \/ RoleStep
DaemonStep == Shutdown \/ Exit \/ Crash \/ Restart
Next == HumanStep \/ WorkerStep \/ WorkerLost \/ Expire \/ DaemonStep

Spec == Init /\ [][Next]_vars

(* The event loop keeps running its job, and every stage of a provider     *)
(* turn has a deadline, so the worker is fair.  Humans, the clock and the  *)
(* daemon owe nothing.                                                     *)
FairSpec == Spec /\ WF_vars(WorkerStep)
-----------------------------------------------------------------------------
(***************************************************************************)
(* Safety                                                                  *)
(***************************************************************************)

(* The result branch and the log never disagree by more than the one       *)
(* recorded intent: outside an integration the branch is where the log     *)
(* says, during one it is at either end of it.  (#integrate: intent        *)
(* before Git, completion after; a crash may fall anywhere.)               *)
RefAgreesWithLog ==
    LET logged == IF created THEN head ELSE None IN
    /\ ref = logged \/ (pending # None /\ ref = pending.to)
    /\ pending # None => pending.from = head /\ IsPrefix(head, pending.to)
    /\ head = integrated

(* The worktree of a subtask was cut from a result that already held all   *)
(* its dependencies.  (approvedExecutionBase, #prepareView)                *)
DependenciesInBase ==
    \A s \in Subtasks : base[s] # None => Upstream[s] \subseteq Range(base[s])

(* A completed candidate that is not integrated yet still descends from    *)
(* the head, so that its integration is not refused.  It fails when a      *)
(* sibling overtakes a paused subtask.                                     *)
CandidateIntegrable ==
    \A s \in Unintegrated : IsPrefix(head, Candidate(s))

(* A role is tried again only when a human released the earlier attempt:   *)
(* earlier attempts of a stage ended, were replaced by a recovery, and     *)
(* their tokens are known or were acknowledged.                            *)
NoBlindRetry ==
    \A i, j \in DOMAIN runs :
        i < j /\ runs[i].task = runs[j].task /\ runs[i].stage = runs[j].stage
            => /\ runs[i].replaced /\ ~Active(i)
               /\ runs[i].usage = "KNOWN" \/ i \in acked \/ i = qaRun

(* An offered result is whole: the graph is complete and settled, and the  *)
(* branch holds every subtask once, at the head that the human decides on. *)
DeliveredComplete ==
    phase \in Delivered =>
        /\ finished /\ AllComplete /\ UsageSettled /\ pending = None
        /\ ref = head /\ Range(head) = Subtasks /\ Len(head) = N

(* At most one subtask occupies the writing slot of the project, and the   *)
(* roles under way belong to it.  (#occupiedDispatches)                    *)
OneWriter ==
    /\ \A s, t \in Subtasks :
           receipt[s] \in {"RESERVED", "ACTIVE"} /\ receipt[t] \in {"RESERVED", "ACTIVE"} => s = t
    /\ Cardinality(ActiveRuns) <= 1
    /\ \A i \in ActiveRuns : receipt[runs[i].task] = "ACTIVE"

(* An execution whose log says RUNNING has a worker in a serving daemon,   *)
(* and an aborted worker no longer has a running execution: a stop is in   *)
(* the log before the abort, and a start waits for the old worker.         *)
RunningHasWorker ==
    /\ phase = "RUNNING" /\ service = "OPEN" => pc # "NONE"
    /\ aborted => phase # "RUNNING"

(* Each role is reserved in a running execution with every other attempt   *)
(* of the Big Task over, accepted or replaced, on a branch that holds the  *)
(* dependencies of its subtask, and within the approved calls.             *)
RolesAreJustified ==
    [][ Len(runs') > Len(runs) =>
          LET s == runs'[Len(runs')].task IN
          /\ phase = "RUNNING" /\ Len(runs') <= limits.roleCalls
          /\ SafeCheckpoint /\ UsageSettled
          /\ pending = None /\ ref = head /\ Upstream[s] \subseteq Range(head) ]_vars

(***************************************************************************)
(* Liveness                                                                *)
(***************************************************************************)

(* A running execution does not run for ever: the worker reaches a         *)
(* delivery or a stop, or the daemon goes.                                 *)
WorkerSettles ==
    (phase = "RUNNING" /\ service = "OPEN") ~> (phase # "RUNNING" \/ service # "OPEN")

(* stopAndDrain: the worker of a draining daemon ends.                     *)
Drains == (service = "DRAINING") ~> (pc = "NONE")

(***************************************************************************)
(* Refinement                                                              *)
(***************************************************************************)
reviewed == {s \in Subtasks : Complete(s)}
result == IF ref = None THEN <<>> ELSE ref
verdict == IF phase = "AWAITING_ACCEPTANCE" THEN "OFFERED"
           ELSE IF phase \in {"ACCEPTED", "CLOSED"} THEN phase ELSE "OPEN"

Delivery == INSTANCE ResultDelivery WITH Tasks <- Subtasks, DependsOn <- Upstream

(* The execution, crashes included, implements what it promises.           *)
ImplementsDelivery == Delivery!Spec

(***************************************************************************)
(* What the documents say and the code does not do                         *)
(***************************************************************************)
Idle == /\ phase \in {"PAUSED", "HUMAN_REQUIRED"} /\ Serving /\ service = "OPEN" /\ pc = "NONE"
        /\ ~taskPaused /\ subPaused = {}
        /\ window = "OPEN" /\ UsageSettled /\ ~TokenLimitReached /\ ~RoleLimitReached

(* "A restart between successful roles permits explicit resume from the    *)
(* durable checkpoint."  docs/BIG_TASK_APPROVED_EXECUTION_V0.md:22         *)
CheckpointResumes == Idle /\ SafeCheckpoint /\ pending = None => CanStart
=============================================================================
