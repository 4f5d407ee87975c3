------------------------ MODULE ExecutionRolesProofs ------------------------
(***************************************************************************)
(* The roles of an execution, for every plan and set of disturbances: who  *)
(* may write, when a role may be reserved or tried again, that a running   *)
(* execution has a worker, and that completed candidates stay integrable.  *)
(***************************************************************************)
EXTENDS BigTaskExecutionProofs

AtProvider == {"CLAIMED", "SENT", "LIVE"}
Over(i) == runs[i].status = "SUCCEEDED" \/ runs[i].replaced

(* What the place of the worker says about the attempts: a pass begins     *)
(* with all of them over and their usage settled, and while a role is at   *)
(* the provider only its own attempt is under way.                         *)
Checkpoints ==
    /\ pc \in Preparing => UsageSettled
    /\ pc \in {"LOOP", "RESULT"} \cup Preparing => SafeCheckpoint
    /\ pc \in AtProvider => /\ Active(Len(runs))
                            /\ \A i \in DOMAIN runs : i # Len(runs) => Over(i)

(* A replaced attempt is over, and its usage is known or acknowledged.     *)
Released ==
    \A i \in DOMAIN runs : runs[i].replaced =>
        ~Active(i) /\ (runs[i].usage = "KNOWN" \/ i \in acked \/ i = qaRun)

(* One attempt is under way at most, and one subtask has the slot.         *)
Sole == \A i, j \in ActiveRuns : i = j
Slots ==
    /\ \A s, t \in Subtasks :
           receipt[s] \in {"RESERVED", "ACTIVE"} /\ receipt[t] \in {"RESERVED", "ACTIVE"} => s = t
    /\ \A i \in ActiveRuns : receipt[runs[i].task] = "ACTIVE"

RInv == RunningHasWorker /\ Checkpoints /\ Released /\ NoBlindRetry /\ Sole /\ Slots

logOfRuns == <<limits, acked, qaRun>>
-----------------------------------------------------------------------------
(***************************************************************************)
(* What a step does to the attempts                                        *)
(***************************************************************************)

(* Nothing: the worker may move between its places, and a human may adjust *)
(* the limits while it awaits.                                             *)
Moves ==
    /\ runs' = runs /\ acked \subseteq acked' /\ qaRun' = qaRun
    /\ pc' \in Preparing => /\ UNCHANGED logOfRuns
                            /\ pc \in Preparing \/ (pc = "LOOP" /\ UsageSettled)
    /\ pc' = "LOOP" => pc \in {"LOOP", "RESULT"} \/ SafeCheckpoint
    /\ pc' \in AtProvider => pc \in AtProvider
    /\ pc' = "RESULT" => pc = "RESULT"

(* A recovery replaces an attempt whose usage is accounted for.            *)
Releases(i) ==
    /\ runs' = [runs EXCEPT ![i].replaced = TRUE]
    /\ ActiveRuns = {} /\ pc' = pc /\ pc \in Awaiting
    /\ acked' = acked /\ qaRun \in {0, qaRun'}
    /\ runs[i].usage = "KNOWN" \/ i \in acked \/ i = qaRun'

(* The worker records what became of its own attempt.                      *)
Records(status, usage, outcome) ==
    /\ Finalize(status, usage, outcome)
    /\ pc \in AtProvider /\ UNCHANGED logOfRuns
    /\ pc' \in {"LIVE", "RESULT", "FAILED"}
    /\ pc' = "LIVE" => status = "RUNNING"
    /\ pc' = "RESULT" => status = "SUCCEEDED"

(* The kinds of steps a role attempt goes through.                         *)
Way ==
    \/ Moves
    \/ \E i \in DOMAIN runs : Releases(i)
    \/ \E status \in {"CREATED", "RUNNING", "SUCCEEDED", "FAILED", "INTERRUPTED"},
          usage \in {"NONE", "KNOWN", "UNKNOWN"}, outcome \in {"NONE", "OK", "BLOCKED"} :
           Records(status, usage, outcome)
    \/ \E s \in Subtasks : ReserveRole(s)

(* Every step is of one of these kinds.                                    *)
LEMMA Ways == ASSUME IInv, [Next]_vars PROVE Way
<1>1. CASE HumanStep
  <2>1. CASE Start
    BY <2>1 DEF Start, CanStart, StartEffect, governedVars, Way, Moves, Preparing, AtProvider
  <2>2. CASE Pause \/ PauseScope \/ RenewWindow \/ Accept \/ Close
    BY <2>2 DEF Pause, PauseScope, RenewWindow, Accept, Close, Decide, Serving, governedVars,
                processVars, Way, Moves, Preparing, AtProvider, Awaiting, logOfRuns
  <2>3. CASE ResumeScope
    BY <2>3 DEF ResumeScope, StartEffect, Serving, governedVars, Way, Moves, Preparing,
                AtProvider, Awaiting, logOfRuns
  <2>4. CASE AdjustLimits
    BY <2>4 DEF AdjustLimits, Adjust, Serving, governedVars, processVars, Way, Moves, Preparing,
                AtProvider, Awaiting
  <2>5. CASE Recover
    BY <2>5 DEF Recover, CanRecover, AccountedFor, Replace, UsageSettled, Serving, processVars,
                Way, Releases
  <2>6. CASE RecoverQa
    BY <2>6 DEF RecoverQa, CanRecoverQa, Replace, Serving, processVars, Way, Releases
  <2> QED BY <1>1, <2>1, <2>2, <2>3, <2>4, <2>5, <2>6 DEF HumanStep
<1>2. CASE PreparationStep
  <2>1. CASE EnsureRef \/ UpdateRef \/ RecordIntegration \/ ScanDone \/ Deliver \/ PreparationFails
             \/ DeliverRefused \/ NothingEligible
    BY <2>1 DEF EnsureRef, PrepareIntent, UpdateRef, RecordIntegration, ScanDone, Deliver,
                PreparationFails, DeliverRefused, NothingEligible, StopPreparing, LogUnchanged,
                logVars, governedVars, Way, Moves, Preparing, AtProvider, logOfRuns
  <2>2. ASSUME NEW s \in Subtasks,
               \/ IntegrateCandidate(s) \/ IntegrationRefused(s) \/ Provision(s) \/ Dispatch(s)
               \/ DispatchBlocked(s) \/ ReconcileSaved(s) \/ RoleBlocked(s) \/ RoleLimitStop(s)
        PROVE  Moves
    BY <2>2 DEF IntegrateCandidate, PrepareIntent, IntegrationRefused, Provision, Dispatch,
                DispatchBlocked, ReconcileSaved, RoleBlocked, RoleLimitStop, StopPreparing,
                PickUnchanged, LogUnchanged, logVars, governedVars, Moves, Preparing, AtProvider,
                logOfRuns
  <2> QED BY <1>2, <2>1, <2>2 DEF PreparationStep, Way
<1>3. CASE RoleStep
  <2>1. CASE FailBeforeTurn \/ TurnStarted \/ CompleteTurn \/ FailTurn
    BY <2>1 DEF FailBeforeTurn, TurnStarted, CompleteTurn, FailTurn, RoleUnchanged, logVars, Way,
                Records, AtProvider, logOfRuns
  <2>2. CASE SendTurn \/ StartAmbiguous \/ Reconcile \/ ReconcileFails
    BY <2>2 DEF SendTurn, StartAmbiguous, Reconcile, ReconcileFails, RoleUnchanged, logVars, Way,
                Moves, Preparing, AtProvider
  <2>3. CASE StopAfterFailure
    BY <2>3 DEF StopAfterFailure, LogUnchanged, governedVars, Way, Moves, Preparing, AtProvider
  <2> QED BY <1>3, <2>1, <2>2, <2>3 DEF RoleStep
<1>4. CASE WorkerExit \/ CheckLimits \/ WorkerLost
  BY <1>4 DEF WorkerExit, CheckLimits, LimitReason, WorkerLost, LogUnchanged, logVars,
              governedVars, Way, Moves, Preparing, AtProvider, logOfRuns
<1>5. CASE Expire \/ DaemonStep
  BY <1>5 DEF Expire, DaemonStep, Shutdown, Exit, Crash, Restart, LogUnchanged, logVars,
              governedVars, processVars, Serving, Way, Moves, Preparing, AtProvider, Awaiting,
              logOfRuns
<1>6. CASE UNCHANGED vars
  BY <1>6 DEF vars, logVars, governedVars, processVars, Way, Moves, Preparing, AtProvider,
              Awaiting, logOfRuns
<1> QED BY <1>1, <1>2, <1>3, <1>4, <1>5, <1>6 DEF Next, WorkerStep
-----------------------------------------------------------------------------
(***************************************************************************)
(* What each kind of step leaves of the sequence of attempts               *)
(***************************************************************************)

(* The fields of an attempt that is marked as replaced.                    *)
LEMMA MarkedFields ==
    ASSUME NEW x \in Run
    PROVE  LET r == [x EXCEPT !.replaced = TRUE] IN
           /\ r \in Run /\ r.task = x.task /\ r.stage = x.stage
           /\ r.status = x.status /\ r.usage = x.usage /\ r.replaced = TRUE
  BY DEF Run

(* Recording the end of an attempt keeps its mark and its place.           *)
LEMMA RecordedFields ==
    ASSUME NEW x \in Run, NEW status, NEW usage, NEW outcome
    PROVE  LET r == [x EXCEPT !.status = status, !.usage = usage, !.outcome = outcome] IN
           /\ r.task = x.task /\ r.stage = x.stage /\ r.replaced = x.replaced
           /\ r.status = status /\ r.usage = usage
  BY DEF Run

(* A recovery changes nothing but the mark of one attempt.                 *)
LEMMA ReleaseEffect ==
    ASSUME TypeOK, NEW i \in DOMAIN runs, Releases(i)
    PROVE  /\ runs \in Seq(Run) /\ Len(runs') = Len(runs) /\ DOMAIN runs' = DOMAIN runs
           /\ \A k \in DOMAIN runs :
                  /\ runs'[k].task = runs[k].task /\ runs'[k].stage = runs[k].stage
                  /\ runs'[k].status = runs[k].status /\ runs'[k].usage = runs[k].usage
                  /\ k # i => runs'[k] = runs[k]
           /\ runs'[i].replaced = TRUE
<1> DEFINE r == [runs[i] EXCEPT !.replaced = TRUE]
<1>1. runs \in Seq(Run) /\ runs[i] \in Run
  BY DEF TypeOK
<1>2. /\ r \in Run /\ r.task = runs[i].task /\ r.stage = runs[i].stage
      /\ r.status = runs[i].status /\ r.usage = runs[i].usage /\ r.replaced = TRUE
  BY <1>1, MarkedFields
<1>3. runs' = [runs EXCEPT ![i] = r]
  BY DEF Releases
<1> HIDE DEF r
<1>4. /\ Len(runs') = Len(runs) /\ DOMAIN runs' = DOMAIN runs /\ runs'[i] = r
      /\ \A k \in DOMAIN runs : k # i => runs'[k] = runs[k]
  BY <1>1, <1>2, <1>3
<1> QED BY <1>1, <1>2, <1>4

(* Recording changes the attempt of the worker only, and keeps its mark.   *)
LEMMA RecordEffect ==
    ASSUME TypeOK, runs # <<>>,
           NEW status \in {"CREATED", "RUNNING", "SUCCEEDED", "FAILED", "INTERRUPTED"},
           NEW usage \in {"NONE", "KNOWN", "UNKNOWN"}, NEW outcome \in {"NONE", "OK", "BLOCKED"},
           Records(status, usage, outcome)
    PROVE  /\ runs \in Seq(Run) /\ Len(runs) \in DOMAIN runs
           /\ Len(runs') = Len(runs) /\ DOMAIN runs' = DOMAIN runs
           /\ \A k \in DOMAIN runs : /\ runs'[k].task = runs[k].task
                                     /\ runs'[k].stage = runs[k].stage
                                     /\ runs'[k].replaced = runs[k].replaced
                                     /\ k # Len(runs) => runs'[k] = runs[k]
           /\ runs'[Len(runs)].status = status /\ runs'[Len(runs)].usage = usage
<1> DEFINE r == [runs[RoleRun] EXCEPT !.status = status, !.usage = usage, !.outcome = outcome]
<1>1. RoleRun = Len(runs) /\ RoleRun \in DOMAIN runs /\ runs[RoleRun] \in Run /\ runs \in Seq(Run)
  BY DEF RoleRun, TypeOK
<1>2. /\ r.task = runs[RoleRun].task /\ r.stage = runs[RoleRun].stage
      /\ r.replaced = runs[RoleRun].replaced /\ r.status = status /\ r.usage = usage
  BY <1>1, RecordedFields
<1>3. runs' = [runs EXCEPT ![RoleRun] = r]
  BY <1>1 DEF Records, Finalize
<1> HIDE DEF r
<1>4. /\ Len(runs') = Len(runs) /\ DOMAIN runs' = DOMAIN runs /\ runs'[RoleRun] = r
      /\ \A k \in DOMAIN runs : k # RoleRun => runs'[k] = runs[k]
  BY <1>1, <1>2, <1>3
<1> QED BY <1>1, <1>2, <1>4

(* A reservation adds one attempt, at the stage that the subtask is at.    *)
LEMMA ReserveEffect ==
    ASSUME TypeOK, NEW s \in Subtasks, ReserveRole(s)
    PROVE  /\ runs \in Seq(Run) /\ Len(runs') = Len(runs) + 1
           /\ DOMAIN runs = 1 .. Len(runs) /\ DOMAIN runs' = 1 .. Len(runs) + 1
           /\ \A k \in DOMAIN runs : runs'[k] = runs[k]
           /\ runs'[Len(runs) + 1].task = s /\ runs'[Len(runs) + 1].stage = done[s] + 1
           /\ runs'[Len(runs) + 1].status = "CREATED" /\ ~runs'[Len(runs) + 1].replaced
<1> DEFINE r == [ task |-> s, stage |-> done[s] + 1, status |-> "CREATED",
                  usage |-> "NONE", outcome |-> "NONE", replaced |-> FALSE ]
<1>1. runs \in Seq(Run) /\ runs' = Append(runs, r)
  BY DEF TypeOK, ReserveRole
<1>2. r.task = s /\ r.stage = done[s] + 1 /\ r.status = "CREATED" /\ ~r.replaced
  OBVIOUS
<1> HIDE DEF r
<1>3. /\ Len(runs') = Len(runs) + 1 /\ runs'[Len(runs) + 1] = r
      /\ DOMAIN runs = 1 .. Len(runs) /\ DOMAIN runs' = 1 .. Len(runs) + 1
      /\ \A k \in DOMAIN runs : runs'[k] = runs[k]
  BY <1>1
<1> QED BY <1>1, <1>2, <1>3
-----------------------------------------------------------------------------
(***************************************************************************)
(* The invariant                                                           *)
(***************************************************************************)

(* Nothing was attempted yet.                                              *)
LEMMA RolesInitially == Init => RInv
  BY DEF Init, RInv, RunningHasWorker, Checkpoints, Preparing, AtProvider, SafeCheckpoint,
         Released, NoBlindRetry, Sole, Slots, ActiveRuns

(* A stop is in the log before the worker leaves or is aborted.            *)
LEMMA WorkerKept ==
    ASSUME IInv, RunningHasWorker, [Next]_vars PROVE RunningHasWorker'
<1>1. CASE HumanStep
  <2>1. CASE Start \/ ResumeScope
    BY <2>1 DEF Start, ResumeScope, StartEffect, RunningHasWorker
  <2>2. CASE Pause \/ PauseScope
    BY <2>2 DEF Pause, PauseScope, PauseEffect, StopIfRunning, Stop, RunningHasWorker
  <2>3. CASE AdjustLimits
    BY <2>3 DEF AdjustLimits, Adjust, Stop, processVars, RunningHasWorker
  <2>4. CASE RenewWindow \/ Accept \/ Close
    BY <2>4 DEF RenewWindow, Accept, Close, Decide, processVars, RunningHasWorker
  <2>5. CASE Recover \/ RecoverQa
    BY <2>5 DEF Recover, RecoverQa, Replace, processVars, RunningHasWorker
  <2> QED BY <1>1, <2>1, <2>2, <2>3, <2>4, <2>5 DEF HumanStep
<1>2. CASE PreparationStep
  <2>1. CASE EnsureRef \/ UpdateRef \/ RecordIntegration \/ ScanDone \/ Deliver \/ PreparationFails
             \/ DeliverRefused \/ NothingEligible
    BY <2>1 DEF EnsureRef, PrepareIntent, UpdateRef, RecordIntegration, ScanDone, Deliver,
                PreparationFails, DeliverRefused, NothingEligible, StopPreparing, Stop,
                LogUnchanged, logVars, RunningHasWorker
  <2>2. ASSUME NEW s \in Subtasks,
               \/ IntegrateCandidate(s) \/ IntegrationRefused(s) \/ Provision(s) \/ Dispatch(s)
               \/ DispatchBlocked(s) \/ ReconcileSaved(s) \/ RoleBlocked(s) \/ RoleLimitStop(s)
               \/ ReserveRole(s)
        PROVE  RunningHasWorker'
    <3>1. CASE IntegrateCandidate(s) \/ Provision(s) \/ Dispatch(s) \/ ReserveRole(s)
      BY <3>1 DEF IntegrateCandidate, PrepareIntent, Provision, Dispatch, ReserveRole,
                  PickUnchanged, logVars, RunningHasWorker
    <3>2. CASE IntegrationRefused(s) \/ DispatchBlocked(s) \/ RoleBlocked(s) \/ RoleLimitStop(s)
      BY <3>2 DEF IntegrationRefused, DispatchBlocked, RoleBlocked, RoleLimitStop, StopPreparing,
                  Stop, LogUnchanged, RunningHasWorker
    <3>3. CASE ReconcileSaved(s)
      BY <3>3 DEF ReconcileSaved, Stop, RunningHasWorker
    <3> QED BY <2>2, <3>1, <3>2, <3>3
  <2> QED BY <1>2, <2>1, <2>2 DEF PreparationStep
<1>3. CASE RoleStep
  BY <1>3 DEF RoleStep, FailBeforeTurn, SendTurn, TurnStarted, StartAmbiguous, CompleteTurn,
              FailTurn, Reconcile, ReconcileFails, StopAfterFailure, StopIfRunning, Stop,
              RoleUnchanged, LogUnchanged, logVars, RunningHasWorker
<1>4. CASE WorkerExit \/ CheckLimits \/ WorkerLost
  BY <1>4 DEF WorkerExit, CheckLimits, LimitReason, Stop, WorkerLost, LogUnchanged, logVars,
              RunningHasWorker
<1>5. CASE Expire \/ DaemonStep
  BY <1>5 DEF Expire, DaemonStep, Shutdown, Exit, Crash, Restart, StopIfRunning, Stop,
              LogUnchanged, logVars, processVars, RunningHasWorker
<1>6. CASE UNCHANGED vars
  BY <1>6 DEF vars, logVars, processVars, RunningHasWorker
<1> QED BY <1>1, <1>2, <1>3, <1>4, <1>5, <1>6 DEF Next, WorkerStep

(* At the provider the worker has an attempt, its own and the last.        *)
LEMMA ProviderHasRun == IInv /\ pc \in AtProvider => runs # <<>>
  BY DEF IInv, Bookkeeping, InRole, AtProvider

(* The places of the worker keep fitting the attempts.                     *)
LEMMA CheckpointsKept ==
    ASSUME IInv, Checkpoints, Released, Way PROVE Checkpoints'
<1>0. TypeOK /\ runs \in Seq(Run)
  BY DEF IInv, TypeOK
<1>1. CASE Moves
  BY <1>1 DEF Moves, Checkpoints, Preparing, AtProvider, SafeCheckpoint, Over, Active,
              UsageSettled, ActiveRuns, Unacknowledged, UnknownRuns, logOfRuns
<1>2. ASSUME NEW i \in DOMAIN runs, Releases(i) PROVE Checkpoints'
  <2>1. pc' = pc /\ pc \notin Preparing /\ pc # "RESULT"
    BY <1>2 DEF Releases, Preparing, Awaiting
  <2>2. /\ Len(runs') = Len(runs) /\ DOMAIN runs' = DOMAIN runs
        /\ \A k \in DOMAIN runs : Over(k) => Over(k)'
        /\ \A k \in DOMAIN runs : Active(k)' <=> Active(k)
    BY <1>0, <1>2, ReleaseEffect DEF Over, Active
  <2>3. pc \in AtProvider => Len(runs) \in DOMAIN runs
    BY <1>0, ProviderHasRun
  <2>4. pc' = "LOOP" => SafeCheckpoint'
    BY <2>1, <2>2 DEF Checkpoints, SafeCheckpoint, Over
  <2>5. pc' \in AtProvider => Active(Len(runs))'
    BY <2>1, <2>2, <2>3 DEF Checkpoints, Active
  <2>6. pc' \in AtProvider => \A k \in DOMAIN runs' : k # Len(runs') => Over(k)'
    BY <2>1, <2>2, <2>3 DEF Checkpoints
  <2> QED BY <2>1, <2>4, <2>5, <2>6 DEF Checkpoints
<1>3. ASSUME NEW status \in {"CREATED", "RUNNING", "SUCCEEDED", "FAILED", "INTERRUPTED"},
             NEW usage \in {"NONE", "KNOWN", "UNKNOWN"}, NEW outcome \in {"NONE", "OK", "BLOCKED"},
             Records(status, usage, outcome)
      PROVE  Checkpoints'
  <2>1. runs # <<>> /\ pc \in AtProvider /\ pc' \notin Preparing /\ pc' # "LOOP"
    BY <1>3, ProviderHasRun DEF Records, Preparing
  <2> QED BY <1>0, <1>3, <2>1, RecordEffect
          DEF Records, Checkpoints, AtProvider, Preparing, SafeCheckpoint, Over, Active
<1>4. ASSUME NEW s \in Subtasks, ReserveRole(s) PROVE Checkpoints'
  <2>1. pc = "PICK" /\ pc' \in {"CLAIMED", "FAILED"}
    BY <1>4 DEF ReserveRole
  <2>2. SafeCheckpoint
    BY <2>1 DEF Checkpoints, Preparing
  <2>3. Active(Len(runs))'
    BY <1>0, <1>4, ReserveEffect DEF Active
  <2>4. \A k \in DOMAIN runs' : k # Len(runs') => Over(k)'
    BY <1>0, <1>4, <2>2, ReserveEffect DEF SafeCheckpoint, Over
  <2> QED BY <2>1, <2>3, <2>4 DEF Checkpoints, Preparing
<1> QED BY <1>1, <1>2, <1>3, <1>4 DEF Way

(* What was released stays over and accounted for.                         *)
LEMMA ReleasedKept ==
    ASSUME IInv, Checkpoints, Released, Way PROVE Released'
<1>0. TypeOK /\ runs \in Seq(Run)
  BY DEF IInv, TypeOK
<1>1. CASE Moves
  BY <1>1 DEF Moves, Released, Active
<1>2. ASSUME NEW i \in DOMAIN runs, Releases(i) PROVE Released'
  BY <1>0, <1>2, ReleaseEffect DEF Releases, Released, Active, ActiveRuns
<1>3. ASSUME NEW status \in {"CREATED", "RUNNING", "SUCCEEDED", "FAILED", "INTERRUPTED"},
             NEW usage \in {"NONE", "KNOWN", "UNKNOWN"}, NEW outcome \in {"NONE", "OK", "BLOCKED"},
             Records(status, usage, outcome)
      PROVE  Released'
  <2>1. runs # <<>> /\ Active(Len(runs)) /\ UNCHANGED <<acked, qaRun>>
    BY <1>3, ProviderHasRun DEF Records, Checkpoints, logOfRuns
  <2> QED BY <1>0, <1>3, <2>1, RecordEffect DEF Released, Active
<1>4. ASSUME NEW s \in Subtasks, ReserveRole(s) PROVE Released'
  <2>1. UNCHANGED <<acked, qaRun>>
    BY <1>4 DEF ReserveRole, PickUnchanged, logVars
  <2> QED BY <1>0, <1>4, <2>1, ReserveEffect DEF Released, Active
<1> QED BY <1>1, <1>2, <1>3, <1>4 DEF Way

(* A second attempt of a stage only follows released ones.                 *)
LEMMA RetryKept ==
    ASSUME IInv, Checkpoints, Released, Released', NoBlindRetry, Way PROVE NoBlindRetry'
<1>0. TypeOK /\ runs \in Seq(Run)
  BY DEF IInv, TypeOK
<1> USE DEF NoBlindRetry, Released
<1>1. CASE Moves
  BY <1>1 DEF Moves, Active
<1>2. ASSUME NEW i \in DOMAIN runs, Releases(i) PROVE NoBlindRetry'
  BY <1>0, <1>2, ReleaseEffect
<1>3. ASSUME NEW status \in {"CREATED", "RUNNING", "SUCCEEDED", "FAILED", "INTERRUPTED"},
             NEW usage \in {"NONE", "KNOWN", "UNKNOWN"}, NEW outcome \in {"NONE", "OK", "BLOCKED"},
             Records(status, usage, outcome)
      PROVE  NoBlindRetry'
  <2>1. runs # <<>>
    BY <1>3, ProviderHasRun DEF Records
  <2> QED BY <1>0, <1>3, <2>1, RecordEffect
<1>4. ASSUME NEW s \in Subtasks, ReserveRole(s) PROVE NoBlindRetry'
  <2>1. \A i \in DOMAIN runs : runs[i].task = s /\ runs[i].stage = done[s] + 1 => runs[i].replaced
    BY <1>4 DEF ReserveRole, Current, Attempts
  <2> QED BY <1>0, <1>4, <2>1, ReserveEffect
<1> QED BY <1>1, <1>2, <1>3, <1>4 DEF Way

(* No step makes a second attempt active.                                  *)
LEMMA SoleKept ==
    ASSUME IInv, Checkpoints, Released, Sole, Way
    PROVE  /\ Sole'
           /\ \/ \E s \in Subtasks : ReserveRole(s)
              \/ \A i \in ActiveRuns' : i \in ActiveRuns /\ runs'[i].task = runs[i].task
<1>0. TypeOK /\ runs \in Seq(Run)
  BY DEF IInv, TypeOK
<1> USE DEF Sole, ActiveRuns, Active
<1>1. CASE Moves
  BY <1>1 DEF Moves
<1>2. CASE \E i \in DOMAIN runs : Releases(i)
  BY <1>0, <1>2, ReleaseEffect
<1>3. ASSUME NEW status \in {"CREATED", "RUNNING", "SUCCEEDED", "FAILED", "INTERRUPTED"},
             NEW usage \in {"NONE", "KNOWN", "UNKNOWN"}, NEW outcome \in {"NONE", "OK", "BLOCKED"},
             Records(status, usage, outcome)
      PROVE  \A i \in ActiveRuns' : i \in ActiveRuns /\ runs'[i].task = runs[i].task
  <2>1. runs # <<>> /\ Active(Len(runs))
    BY <1>3, ProviderHasRun DEF Records, Checkpoints
  <2> QED BY <1>0, <1>3, <2>1, RecordEffect
<1>4. ASSUME NEW s \in Subtasks, ReserveRole(s) PROVE Sole'
  <2>1. ActiveRuns = {}
    BY <1>4 DEF ReserveRole
  <2> QED BY <1>0, <1>4, <2>1, ReserveEffect
<1> QED BY <1>1, <1>2, <1>3, <1>4 DEF Way

(* At a checkpoint nothing is under way.                                   *)
LEMMA CheckpointIsQuiet == SafeCheckpoint /\ Released => ActiveRuns = {}
  BY DEF SafeCheckpoint, Released, ActiveRuns, Active

(* Only four steps touch the dispatch receipts.                            *)
LEMMA ReceiptWays ==
    ASSUME [Next]_vars
    PROVE  \/ receipt' = receipt
           \/ Reconcile
           \/ \E s \in Subtasks : Provision(s) \/ Dispatch(s) \/ ReconcileSaved(s)
<1>1. CASE HumanStep
  BY <1>1 DEF HumanStep, Start, Pause, PauseScope, ResumeScope, AdjustLimits, Adjust, RenewWindow,
              Recover, RecoverQa, Accept, Close, Decide, governedVars
<1>2. CASE PreparationStep
  <2>1. CASE EnsureRef \/ UpdateRef \/ RecordIntegration \/ ScanDone \/ Deliver \/ PreparationFails
             \/ DeliverRefused \/ NothingEligible
    BY <2>1 DEF EnsureRef, PrepareIntent, UpdateRef, RecordIntegration, ScanDone, Deliver,
                PreparationFails, DeliverRefused, NothingEligible, StopPreparing, governedVars
  <2>2. ASSUME NEW s \in Subtasks,
               \/ IntegrateCandidate(s) \/ IntegrationRefused(s) \/ DispatchBlocked(s)
               \/ RoleBlocked(s) \/ RoleLimitStop(s) \/ ReserveRole(s)
        PROVE  receipt' = receipt
    BY <2>2 DEF IntegrateCandidate, PrepareIntent, IntegrationRefused, DispatchBlocked,
                RoleBlocked, RoleLimitStop, ReserveRole, StopPreparing, governedVars
  <2> QED BY <1>2, <2>1, <2>2 DEF PreparationStep
<1>3. CASE RoleStep
  BY <1>3 DEF RoleStep, FailBeforeTurn, SendTurn, TurnStarted, StartAmbiguous, CompleteTurn,
              FailTurn, ReconcileFails, StopAfterFailure, governedVars
<1>4. CASE WorkerExit \/ CheckLimits \/ WorkerLost \/ Expire \/ DaemonStep
  BY <1>4 DEF WorkerExit, CheckLimits, WorkerLost, Expire, DaemonStep, Shutdown, Exit, Crash,
              Restart, governedVars
<1>5. CASE UNCHANGED vars
  BY <1>5 DEF vars, governedVars
<1> QED BY <1>1, <1>2, <1>3, <1>4, <1>5 DEF Next, WorkerStep

(* A slot that is counted free belongs to a paused subtask nobody works on.*)
LEMMA SettledFacts ==
    ASSUME TypeOK, NEW t \in Subtasks
    PROVE  \/ Settled(receipt)[t] = receipt[t]
           \/ /\ receipt[t] = "ACTIVE" /\ Settled(receipt)[t] = "PAUSED"
              /\ \A i \in ActiveRuns : runs[i].task # t
  BY DEF Settled, IdleRetained, TypeOK

(* A subtask takes the slot only when nobody else has it, and gives it up  *)
(* only when it has no attempt under way.                                  *)
LEMMA SlotsKept ==
    ASSUME IInv, Checkpoints, Released, Sole, Slots, Way, [Next]_vars PROVE Slots'
<1>0. /\ TypeOK /\ receipt \in [Subtasks -> Receipt]
      /\ \A i \in ActiveRuns : runs[i].task \in Subtasks
  <2>1. TypeOK /\ receipt \in [Subtasks -> Receipt] /\ runs \in Seq(Run)
    BY DEF IInv, TypeOK
  <2>2. \A i \in DOMAIN runs : runs[i] \in Run
    BY <2>1
  <2>3. \A i \in DOMAIN runs : runs[i].task \in Subtasks
    BY <2>2 DEF Run
  <2> QED BY <2>1, <2>3 DEF ActiveRuns
<1>1. CASE receipt' = receipt
  <2>1. ASSUME NEW s \in Subtasks, ReserveRole(s) PROVE Slots'
    <3>1. receipt[s] = "ACTIVE" /\ ActiveRuns = {}
      BY <2>1 DEF ReserveRole
    <3>2. \A i \in ActiveRuns' : runs'[i].task = s
      BY <1>0, <2>1, <3>1, ReserveEffect DEF ActiveRuns, Active
    <3> QED BY <1>1, <3>1, <3>2 DEF Slots
  <2>2. CASE \A i \in ActiveRuns' : i \in ActiveRuns /\ runs'[i].task = runs[i].task
    BY <1>1, <2>2 DEF Slots
  <2> QED BY <2>1, <2>2, SoleKept
<1>2. ASSUME NEW i \in DOMAIN runs, Advance(i) \/ receipt' = receipt, ActiveRuns = {},
             runs' = runs
      PROVE  Slots'
  <2>1. \A t \in Subtasks : receipt'[t] = receipt[t] \/ receipt'[t] = "COMPLETED"
    BY <1>0, <1>2 DEF Advance
  <2>2. ActiveRuns' = {}
    BY <1>2 DEF ActiveRuns, Active
  <2> QED BY <2>1, <2>2 DEF Slots
<1>3. CASE Reconcile
  <2>1. pc = "RESULT" /\ runs' = runs /\ (Advance(RoleRun) \/ receipt' = receipt)
    BY <1>3 DEF Reconcile
  <2>2. ActiveRuns = {}
    BY <2>1, CheckpointIsQuiet DEF Checkpoints
  <2>3. RoleRun \in DOMAIN runs
    BY <1>0, <2>1 DEF IInv, Bookkeeping, InRole, TypeOK, RoleRun
  <2> QED BY <1>2, <2>1, <2>2, <2>3
<1>4. ASSUME NEW s \in Subtasks, ReconcileSaved(s) PROVE Slots'
  <2>1. PICK i \in Current(s) : Advance(i)
    BY <1>4 DEF ReconcileSaved
  <2>2. i \in DOMAIN runs /\ runs' = runs
    BY <1>4, <2>1 DEF Current, Attempts, ReconcileSaved
  <2>3. ActiveRuns = {}
    BY <1>4, CheckpointIsQuiet DEF ReconcileSaved, Checkpoints, Preparing
  <2> QED BY <1>2, <2>1, <2>2, <2>3
<1>5. ASSUME NEW s \in Subtasks, Provision(s) \/ Dispatch(s) PROVE Slots'
  <2>1. runs' = runs /\ ActiveRuns' = ActiveRuns
    BY <1>5 DEF Provision, Dispatch, ActiveRuns, Active
  <2>2. CASE receipt' = Settled(receipt)
    BY <1>0, <2>1, <2>2, SettledFacts DEF Slots
  <2>3. CASE receipt[s] = "RESERVED" /\ receipt' = [receipt EXCEPT ![s] = "ACTIVE"]
    BY <1>0, <2>1, <2>3 DEF Slots
  <2>4. ASSUME receipt[s] \in {"NONE", "PAUSED"}, ~OccupiedByOther(s),
               NEW r \in {"RESERVED", "ACTIVE"}, receipt' = [Settled(receipt) EXCEPT ![s] = r]
        PROVE  Slots'
    <3>1. receipt' = [t \in Subtasks |-> IF t = s THEN r ELSE Settled(receipt)[t]]
      BY <2>4 DEF Settled
    <3>2. \A t \in Subtasks \ {s} : receipt'[t] \notin {"RESERVED", "ACTIVE"}
      BY <2>4, <3>1 DEF OccupiedByOther
    <3>3. \A i \in ActiveRuns : receipt[runs[i].task] = "ACTIVE" /\ runs[i].task # s
      BY <2>4 DEF Slots
    <3>4. \A i \in ActiveRuns : receipt'[runs[i].task] = "ACTIVE"
      BY <1>0, <3>1, <3>3, SettledFacts
    <3> QED BY <2>1, <3>2, <3>4 DEF Slots
  <2> QED BY <1>5, <2>2, <2>3, <2>4 DEF Provision, Dispatch
<1> QED BY <1>1, <1>3, <1>4, <1>5, ReceiptWays

(* Every step keeps the invariant of the roles.                            *)
LEMMA RolesPreserved == IInv /\ RInv /\ [Next]_vars => RInv'
<1> SUFFICES ASSUME IInv, RInv, [Next]_vars PROVE RInv'
  OBVIOUS
<1>1. Way
  BY Ways
<1>2. RunningHasWorker' /\ Checkpoints' /\ Released'
  BY <1>1, WorkerKept, CheckpointsKept, ReleasedKept DEF RInv
<1>3. NoBlindRetry' /\ Sole' /\ Slots'
  BY <1>1, <1>2, RetryKept, SoleKept, SlotsKept DEF RInv
<1> QED BY <1>2, <1>3 DEF RInv

(* The invariant of the roles holds in every reachable state.              *)
THEOREM RolesInvariant == Spec => []RInv
<1>1. Init => RInv
  BY RolesInitially
<1>2. IInv /\ RInv /\ [Next]_vars => RInv'
  BY RolesPreserved
<1> QED BY <1>1, <1>2, Invariant, PTL DEF Spec
-----------------------------------------------------------------------------
(***************************************************************************)
(* The theorems                                                            *)
(***************************************************************************)

(* A running log has a worker in a serving daemon, and an aborted worker   *)
(* no longer has a running execution.  (#executionJobs, stopAndDrain)      *)
THEOREM RunningIsDriven == Spec => []RunningHasWorker
<1>1. RInv => RunningHasWorker
  BY DEF RInv
<1> QED BY <1>1, RolesInvariant, PTL

(* A stage is tried again only after its earlier attempts ended, were      *)
(* replaced by a human, and are paid for or acknowledged.                  *)
THEOREM RetriesAreReleased == Spec => []NoBlindRetry
<1>1. RInv => NoBlindRetry
  BY DEF RInv
<1> QED BY <1>1, RolesInvariant, PTL

(* One subtask has the slot, and the one attempt under way belongs to it.  *)
THEOREM OneSubtaskWrites == Spec => []OneWriter
<1>1. RInv => OneWriter
  <2> SUFFICES ASSUME RInv PROVE OneWriter
    OBVIOUS
  <2>1. Cardinality(ActiveRuns) <= 1
    <3>1. CASE ActiveRuns = {}
      BY <3>1, FS_EmptySet
    <3>2. ASSUME NEW i \in ActiveRuns PROVE Cardinality(ActiveRuns) <= 1
      <4>1. ActiveRuns = {i}
        BY <3>2 DEF RInv, Sole
      <4>2. Cardinality({i}) = 1
        BY FS_Singleton
      <4> QED BY <4>1, <4>2
    <3> QED BY <3>1, <3>2
  <2> QED BY <2>1 DEF RInv, Slots, OneWriter
<1> QED BY <1>1, RolesInvariant, PTL

(* A role is reserved only in a running execution, within the approved     *)
(* calls, from a safe and settled checkpoint, on a branch that holds all   *)
(* the dependencies of its subtask.                                        *)
THEOREM ReservationsAreJustified == Spec => RolesAreJustified
<1> DEFINE Justified == Len(runs') > Len(runs) =>
          LET s == runs'[Len(runs')].task IN
          /\ phase = "RUNNING" /\ Len(runs') <= limits.roleCalls
          /\ SafeCheckpoint /\ UsageSettled
          /\ pending = None /\ ref = head /\ Upstream[s] \subseteq Range(head)
<1>1. IInv /\ RInv /\ [Next]_vars => [Justified]_vars
  <2> SUFFICES ASSUME IInv, RInv, [Next]_vars PROVE Justified
    OBVIOUS
  <2>0. TypeOK /\ runs \in Seq(Run)
    BY DEF IInv, TypeOK
  <2>1. Way
    BY Ways
  <2>2. CASE Moves
    BY <2>0, <2>2 DEF Moves
  <2>3. ASSUME NEW i \in DOMAIN runs, Releases(i) PROVE Len(runs') = Len(runs)
    BY <2>0, <2>3, ReleaseEffect
  <2>4. ASSUME NEW status \in {"CREATED", "RUNNING", "SUCCEEDED", "FAILED", "INTERRUPTED"},
               NEW usage \in {"NONE", "KNOWN", "UNKNOWN"}, NEW outcome \in {"NONE", "OK", "BLOCKED"},
               Records(status, usage, outcome)
        PROVE  Len(runs') = Len(runs)
    BY <2>0, <2>4, RecordEffect, ProviderHasRun DEF Records
  <2>5. ASSUME NEW s \in Subtasks, ReserveRole(s) PROVE Justified
    <3>1. Len(runs') = Len(runs) + 1 /\ runs'[Len(runs')].task = s
      BY <2>0, <2>5, ReserveEffect
    <3>2. phase = "RUNNING" /\ UsageSettled /\ pc = "PICK"
      BY <2>5 DEF ReserveRole, AssertRunning, UsageSettled
    <3>3. Len(runs') <= limits.roleCalls
      BY <2>0, <2>5, <3>1 DEF ReserveRole, RoleLimitReached, TypeOK, Limits
    <3>4. SafeCheckpoint
      BY <3>2 DEF RInv, Checkpoints, Preparing
    <3>5. pending = None /\ ref = head /\ Unintegrated = {} /\ head = integrated
      BY <3>2 DEF IInv, Branch
    <3>6. Upstream[s] \subseteq Range(head)
      <4>1. \A u \in Upstream[s] : Complete(u) /\ u \in Subtasks
        BY <2>5, ConstantsAssumption DEF ReserveRole, Selected, First, Eligible
      <4> QED BY <3>5, <4>1 DEF Unintegrated
    <3> QED BY <3>1, <3>2, <3>3, <3>4, <3>5, <3>6
  <2>6. CASE Len(runs') = Len(runs)
    BY <2>0, <2>6
  <2> QED BY <2>1, <2>2, <2>3, <2>4, <2>5, <2>6 DEF Way
<1> QED BY <1>1, Invariant, RolesInvariant, PTL DEF Spec, RolesAreJustified
-----------------------------------------------------------------------------
(***************************************************************************)
(* Candidates                                                              *)
(***************************************************************************)

(* The subtasks that a pass may select when none is paused, and those that *)
(* have a worktree and are not on the branch yet.                          *)
Ready   == {s \in Subtasks : ~Complete(s) /\ \A u \in Upstream[s] : Complete(u)}
Started == {s \in Subtasks : base[s] # None /\ s \notin Range(integrated)}

(* One subtask at a time is started, on the head, and the next pass still  *)
(* selects it while it is not complete.                                    *)
OneAtWork ==
    /\ subPaused = {}
    /\ \A s \in Started : base[s] = head /\ (~Complete(s) => First(s, Ready))
    /\ \A s, t \in Started : s = t

(* A subtask with a worktree passes the role it is at.                     *)
Passes(s) ==
    /\ base[s] # None /\ done[s] \in 0 .. Roles /\ done[s] # Roles
    /\ done' = [done EXCEPT ![s] = @ + 1]
    /\ UNCHANGED <<base, head, integrated>>

(* What a step does to worktrees, branch and completed roles.              *)
Course ==
    \/ UNCHANGED <<base, head, integrated, done>>
    \/ \E s \in Subtasks : Provision(s) \/ Passes(s)
    \/ RecordIntegration

(* A saved or awaited result is that of the stage its subtask is at.       *)
LEMMA SavedPasses ==
    ASSUME IInv, NEW s \in Subtasks, ReconcileSaved(s) PROVE Passes(s)
<1>1. PICK i \in DOMAIN runs : i \in Current(s) /\ Advance(i)
  BY DEF ReconcileSaved, Current, Attempts
<1>2. runs[i] \in Run /\ runs[i].task = s /\ runs[i].stage = done[s] + 1
  BY <1>1 DEF IInv, TypeOK, Current, Attempts
<1>3. done[s] \in 0 .. Roles /\ done[s] # Roles
  BY <1>2, ConstantsAssumption DEF Run, IInv, TypeOK
<1>4. base[s] # None
  BY <1>2 DEF IInv, Bookkeeping
<1> QED BY <1>1, <1>2, <1>3, <1>4 DEF Passes, Advance, ReconcileSaved

LEMMA AwaitedPasses ==
    ASSUME IInv, Reconcile PROVE Course
<1>1. CASE runs[RoleRun].outcome # "OK"
  BY <1>1 DEF Reconcile, RoleUnchanged, logVars, Course
<1>2. CASE runs[RoleRun].outcome = "OK"
  <2> DEFINE s == runs[RoleRun].task
  <2>1. /\ RoleRun \in DOMAIN runs /\ runs[RoleRun] \in Run
        /\ runs[RoleRun].stage = done[s] + 1
    BY DEF IInv, TypeOK, Bookkeeping, InRole, Reconcile, RoleRun
  <2>2. s \in Subtasks /\ done[s] \in 0 .. Roles /\ done[s] # Roles /\ base[s] # None
    BY <2>1, ConstantsAssumption DEF Run, IInv, TypeOK, Bookkeeping
  <2>3. Passes(s)
    BY <1>2, <2>2 DEF Passes, Advance, Reconcile, RoleUnchanged, logVars
  <2> HIDE DEF s
  <2> QED BY <2>2, <2>3 DEF Course
<1> QED BY <1>1, <1>2

(* Every step is of one of these kinds.                                    *)
LEMMA Courses == ASSUME IInv, [Next]_vars PROVE Course
<1>1. CASE HumanStep
  BY <1>1 DEF HumanStep, Start, Pause, PauseScope, ResumeScope, AdjustLimits, Adjust,
              RenewWindow, Recover, RecoverQa, Accept, Close, Decide, governedVars, Course
<1>2. CASE PreparationStep
  <2>1. CASE EnsureRef \/ UpdateRef \/ ScanDone \/ Deliver \/ PreparationFails
             \/ DeliverRefused \/ NothingEligible
    BY <2>1 DEF EnsureRef, PrepareIntent, UpdateRef, ScanDone, Deliver, PreparationFails,
                DeliverRefused, NothingEligible, StopPreparing, LogUnchanged, logVars,
                governedVars, Course
  <2>2. ASSUME NEW s \in Subtasks,
               \/ IntegrateCandidate(s) \/ IntegrationRefused(s) \/ Dispatch(s)
               \/ DispatchBlocked(s) \/ RoleBlocked(s) \/ RoleLimitStop(s) \/ ReserveRole(s)
        PROVE  Course
    BY <2>2 DEF IntegrateCandidate, PrepareIntent, IntegrationRefused, Dispatch,
                DispatchBlocked, RoleBlocked, RoleLimitStop, ReserveRole, StopPreparing,
                PickUnchanged, LogUnchanged, logVars, governedVars, Course
  <2> QED BY <1>2, <2>1, <2>2, SavedPasses DEF PreparationStep, Course
<1>3. CASE RoleStep
  <2>1. CASE Reconcile
    BY <2>1, AwaitedPasses
  <2>2. CASE ~Reconcile
    BY <1>3, <2>2 DEF RoleStep, FailBeforeTurn, SendTurn, TurnStarted, StartAmbiguous,
                CompleteTurn, FailTurn, ReconcileFails, StopAfterFailure, RoleUnchanged,
                LogUnchanged, logVars, governedVars, Course
  <2> QED BY <2>1, <2>2
<1>4. CASE WorkerExit \/ CheckLimits \/ WorkerLost
  BY <1>4 DEF WorkerExit, CheckLimits, WorkerLost, LogUnchanged, logVars, governedVars, Course
<1>5. CASE Expire \/ DaemonStep
  BY <1>5 DEF Expire, DaemonStep, Shutdown, Exit, Crash, Restart, LogUnchanged, logVars,
              governedVars, Course
<1>6. CASE UNCHANGED vars
  BY <1>6 DEF vars, logVars, governedVars, Course
<1> QED BY <1>1, <1>2, <1>3, <1>4, <1>5, <1>6 DEF Next, WorkerStep

(* Only a request pauses a subtask.                                        *)
LEMMA NoneIsPaused ==
    ASSUME "SUBTASK_LIFECYCLE" \notin Events, subPaused = {}, [Next]_vars
    PROVE  subPaused' = {}
<1>1. CASE HumanStep
  BY <1>1 DEF HumanStep, Start, Pause, PauseScope, ResumeScope, AdjustLimits, Adjust,
              RenewWindow, Recover, RecoverQa, Accept, Close, Decide, lifecycleVars
<1>2. CASE PreparationStep
  BY <1>2 DEF PreparationStep, EnsureRef, PrepareIntent, UpdateRef, RecordIntegration,
              ScanDone, Deliver, PreparationFails, DeliverRefused, NothingEligible,
              IntegrateCandidate, IntegrationRefused, Provision, Dispatch, DispatchBlocked,
              ReconcileSaved, RoleBlocked, RoleLimitStop, ReserveRole, StopPreparing,
              PickUnchanged, lifecycleVars
<1>3. CASE RoleStep
  BY <1>3 DEF RoleStep, FailBeforeTurn, SendTurn, TurnStarted, StartAmbiguous,
              CompleteTurn, FailTurn, Reconcile, ReconcileFails, StopAfterFailure,
              RoleUnchanged, lifecycleVars
<1>4. CASE WorkerExit \/ CheckLimits \/ WorkerLost \/ Expire \/ DaemonStep
  BY <1>4 DEF WorkerExit, CheckLimits, WorkerLost, Expire, DaemonStep, Shutdown, Exit,
              Crash, Restart, lifecycleVars
<1>5. CASE UNCHANGED vars
  BY <1>5 DEF vars, lifecycleVars
<1> QED BY <1>1, <1>2, <1>3, <1>4, <1>5 DEF Next, WorkerStep

(* A subtask gets a worktree only when no other one is started.            *)
LEMMA ProvisionedAlone ==
    ASSUME IInv, OneAtWork, NEW s \in Subtasks, Provision(s), subPaused' = {}
    PROVE  OneAtWork'
<1>1. Unintegrated = {} /\ base[s] = None /\ base' = [base EXCEPT ![s] = head]
  BY DEF Provision, IInv, Branch
<1>2. /\ base \in [Subtasks -> Sha \cup {None}] /\ head \in Sha /\ None \notin Sha
      /\ UNCHANGED <<head, integrated, done, taskPaused>>
  BY ConstantsAssumption DEF IInv, TypeOK, Provision, PickUnchanged, logVars, lifecycleVars
<1>3. First(s, Ready)
  <2>1. s \in Eligible /\ ~taskPaused /\ \A t \in Eligible : s <= t
    BY DEF Provision, Selected, First, Eligible, SubtaskActive
  <2>2. Eligible = Ready
    BY <2>1 DEF Eligible, Ready, SubtaskActive, OneAtWork
  <2> QED BY <2>1, <2>2 DEF First
<1>4. ASSUME NEW t \in Started PROVE FALSE
  <2>1. ~Complete(t) /\ First(t, Ready) /\ t \in Subtasks /\ base[t] # None
    BY <1>1, <1>4 DEF Started, Unintegrated, OneAtWork
  <2>2. s <= t /\ t <= s
    BY <1>3, <2>1 DEF First
  <2>3. s = t
    BY <2>1, <2>2, ConstantsAssumption DEF Subtasks
  <2> QED BY <1>1, <2>1, <2>3
<1>5. \A t \in Started' : t = s
  BY <1>1, <1>2, <1>4 DEF Started
<1>6. base'[s] = head' /\ First(s, Ready)'
  BY <1>1, <1>2, <1>3 DEF First, Ready, Complete
<1> QED BY <1>5, <1>6 DEF OneAtWork

(* What a subtask completes does not let another one in before it.         *)
LEMMA PassedAlone ==
    ASSUME IInv, OneAtWork, NEW s \in Subtasks, Passes(s), subPaused' = {}
    PROVE  OneAtWork'
<1>1. done \in [Subtasks -> 0 .. Roles] /\ Roles \in Nat
  BY ConstantsAssumption DEF IInv, TypeOK
<1>2. ~Complete(s) /\ s \in Started
  BY DEF Passes, Complete, Started, IInv, Branch, Range
<1>3. Started' = Started
  BY DEF Passes, Started
<1>4. \A t \in Started' : t = s
  BY <1>2, <1>3 DEF OneAtWork
<1>5. base'[s] = head' /\ First(s, Ready)
  BY <1>2 DEF OneAtWork, Passes
<1>6. ASSUME ~Complete(s)' PROVE First(s, Ready)'
  <2>1. \A t \in Subtasks : Complete(t)' <=> Complete(t)
    BY <1>1, <1>2, <1>6 DEF Passes, Complete
  <2>2. Ready' = Ready
    BY <2>1, ConstantsAssumption DEF Ready
  <2> QED BY <1>5, <2>2 DEF First
<1> QED BY <1>4, <1>5, <1>6 DEF OneAtWork

(* The branch moves by the one subtask that is started.                    *)
LEMMA IntegratedAlone ==
    ASSUME IInv, OneAtWork, RecordIntegration, subPaused' = {}
    PROVE  OneAtWork'
<1>1. /\ pending # None /\ head' = pending.to
      /\ integrated \in Seq(Subtasks) /\ UNCHANGED <<base, done>>
  BY DEF RecordIntegration, IInv, TypeOK, Bookkeeping, governedVars
<1>2. CASE pending.task = 0
  <2>1. head' = head /\ integrated' = integrated
    BY <1>1, <1>2 DEF RecordIntegration, IInv, ExactIntent
  <2> QED BY <1>1, <2>1 DEF OneAtWork, Started, First, Ready, Complete
<1>3. CASE pending.task # 0
  <2> DEFINE s == pending.task
  <2>1. s \in Subtasks /\ integrated' = Append(integrated, s)
    BY <1>1, <1>3, ConstantsAssumption DEF RecordIntegration, IInv, TypeOK, Intent, Subtasks
  <2>2. Complete(s) /\ s \notin Range(integrated)
    BY <1>1, <1>3 DEF IInv, ExactIntent, Branch
  <2>3. s \in Started
    BY <2>1, <2>2, ConstantsAssumption DEF Started, Complete, IInv, Bookkeeping
  <2> HIDE DEF s
  <2>4. Range(integrated') = Range(integrated) \cup {s}
    BY <1>1, <2>1, AppendRange
  <2>5. Started' = {}
    BY <1>1, <2>3, <2>4 DEF Started, OneAtWork
  <2> QED BY <2>5 DEF OneAtWork
<1> QED BY <1>2, <1>3

(* Unless subtasks are paused, every completed candidate still descends    *)
(* from the head of the result when its turn comes: a pass never starts a  *)
(* subtask beside one that is started.  (#integrateCompleted, selection of *)
(* the first eligible subtask)                                             *)
THEOREM CandidatesAreIntegrable ==
    "SUBTASK_LIFECYCLE" \notin Events => (Spec => []CandidateIntegrable)
<1> SUFFICES ASSUME "SUBTASK_LIFECYCLE" \notin Events PROVE Spec => []CandidateIntegrable
  OBVIOUS
<1>1. Init => OneAtWork
  BY DEF Init, OneAtWork, Started
<1>2. IInv /\ OneAtWork /\ [Next]_vars => OneAtWork'
  <2> SUFFICES ASSUME IInv, OneAtWork, [Next]_vars PROVE OneAtWork'
    OBVIOUS
  <2>1. Course /\ subPaused' = {}
    BY Courses, NoneIsPaused DEF OneAtWork
  <2>2. CASE UNCHANGED <<base, head, integrated, done>>
    BY <2>1, <2>2 DEF OneAtWork, Started, First, Ready, Complete
  <2> QED BY <2>1, <2>2, ProvisionedAlone, PassedAlone, IntegratedAlone DEF Course
<1>3. IInv /\ OneAtWork => CandidateIntegrable
  <2> SUFFICES ASSUME IInv, OneAtWork, NEW s \in Unintegrated
               PROVE  IsPrefix(head, Candidate(s))
    BY DEF CandidateIntegrable
  <2>1. s \in Started
    BY ConstantsAssumption DEF Unintegrated, Started, Complete, IInv, Bookkeeping
  <2>2. Candidate(s) = Append(head, s) /\ s \in Subtasks /\ head \in Seq(Subtasks)
    BY <2>1 DEF OneAtWork, Started, Candidate, IInv, TypeOK, Sha
  <2>3. IsPrefix(head, head)
    BY <2>2, PrefixPointwise
  <2> QED BY <2>2, <2>3, PrefixOfAppend
<1> QED BY <1>1, <1>2, <1>3, Invariant, PTL DEF Spec
=============================================================================
