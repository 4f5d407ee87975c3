---------------------------- MODULE LivePlanning ----------------------------
(***************************************************************************)
(* Planning of one Big Task, from its intake to the approval of a plan for *)
(* execution: the planning ledger (packages/storage/src/live-planning.ts), *)
(* the durable candidates and review decisions it feeds                    *)
(* (orchestration-planning.ts, packages/orchestration/src/plan-review.ts), *)
(* the service's planning loop (packages/local-control/src/service.ts),    *)
(* the Console's job queue and human operations (console-application.ts,   *)
(* packages/storage/src/console-workspace.ts) and restart (daemon.ts).     *)
(*                                                                         *)
(* A retry or an amendment makes a new Big Task that names the one it      *)
(* revises; these are the versions.  Candidates and decisions are kept as  *)
(* the code keeps them, append-only, and the review state is their replay. *)
(* Usage is counted one token per provider turn that reported it.  A plan  *)
(* is its revision number.  What runs without awaiting is one action.      *)
(***************************************************************************)
EXTENDS Naturals, FiniteSets, SequencesExt

CONSTANTS
    MaxVersions,    \* bound on the number of versions
    Intakes,        \* policies the owner may choose at intake
    Preferences,    \* policies the settings may hold when planning is retried
    Slots,          \* Console jobs that may run at once
    Contexts,       \* clean states of project and repository
    Dirty,          \* a worktree with uncommitted changes
    Events          \* the disturbances that may happen in this instance

Versions == 1 .. MaxVersions

Policy == [ console   : BOOLEAN,    \* the intake has a consoleWorkflow
            self      : BOOLEAN,    \* planReview = "SELF"
            hard      : BOOLEAN,    \* budgetMode is not "MEASURE"
            exception : BOOLEAN,    \* the intake has a budgetException
            limit     : Nat ]       \* planningTokenLimit

Disturbances == { "CRASH", "SHUTDOWN", "PAUSE", "PROJECT", "CONTEXT", "EXPIRE",
                  "SUBTASK",    \* a subtask of the plan is paused
                  "DIRECT",     \* a request runs the planning loop itself
                  "PROVIDER",   \* a turn fails or leaves no evidence or usage
                  "OUTPUT",     \* an answer is invalid or asks the owner
                  "STORAGE" }   \* a write fails inside or instead of finish

ASSUME PlanningAssumption ==
    /\ MaxVersions \in Nat \ {0}
    /\ Intakes \subseteq Policy
    /\ \A p \in Intakes : ~p.console => ~p.self /\ p.hard
    /\ Preferences \subseteq {p \in Policy : p.console /\ ~p.exception}
    /\ Slots \in Nat \ {0}
    /\ Dirty \notin Contexts
    /\ Events \subseteq Disturbances

StopReasons == { "PRODUCT_QUESTION", "REVIEW_ESCALATED", "PROVIDER_FAILED",
                 "INVALID_OUTPUT", "USAGE_UNKNOWN", "BUDGET_BLOCKED",
                 "TIME_LIMIT_REACHED", "CONTEXT_CHANGED", "CONTEXT_LIMIT",
                 "INTERRUPTED" }
Outcomes == {"APPROVE", "REJECT", "ESCALATE"}
Run == [ role : {"PLANNER", "REVIEWER"},
         rev : 0 .. 3,              \* the proposal in its input, 0: none
         status : {"RUNNING", "COMPLETED", "HUMAN_REQUIRED"},
         stop : StopReasons \cup {"NONE"},
         evidence : BOOLEAN,        \* thread, run and model are recorded
         usage : BOOLEAN ]          \* the usage of the turn is recorded

VARIABLES
    \* the family of versions: intakes, candidates, decisions, planning runs
    count, parent, policy, captured, candidates, decisions, runs,
    \* approvals for execution, lifecycle settings
    granted, paused, projectPaused,
    \* project and repository as they are now, windows that have passed
    context, expired,
    \* the daemon: Console queue and jobs, planning loops and who runs them
    service, queue, jobs, runner, turns, direct

planVars == <<candidates, decisions>>
familyVars == <<count, parent, policy, captured>>
settingVars == <<granted, paused, projectPaused>>
worldVars == <<context, expired>>
jobVars == <<queue, jobs>>
loopVars == <<runner, turns, direct>>
vars == <<familyVars, planVars, runs, settingVars, worldVars,
          service, jobVars, loopVars>>

TypeOK ==
    /\ count \in 0 .. MaxVersions
    /\ parent \in [Versions -> 0 .. MaxVersions]
    /\ policy \in [Versions -> Policy]
    /\ captured \in [Versions -> Contexts \cup {Dirty}]
    /\ candidates \in [Versions -> 0 .. 3]
    /\ decisions \in [Versions -> Seq(Outcomes)]
    /\ runs \in [Versions -> Seq(Run)]
    /\ granted \subseteq Versions
    /\ paused \subseteq Versions
    /\ projectPaused \in BOOLEAN
    /\ context \in Contexts \cup {Dirty}
    /\ expired \subseteq Versions
    /\ service \in {"UP", "STOPPING", "DOWN"}
    /\ queue \in Seq(Versions)
    /\ jobs \subseteq Versions
    /\ runner \in [Versions -> {"NONE", "LOOP", "TURN"}]
    /\ turns \in [Versions -> 0 .. 6]
    /\ direct \subseteq Versions

-----------------------------------------------------------------------------
(* Reading the ledger *)

Existing == 1 .. count

MoreRevisions == 3           \* faulty: one revision more

(* At most two automatic revisions follow the first proposal. *)
RevisionLimit == 2

(* The replay of n candidates and their decisions. *)
Replay(n, decided) ==
    IF n = 0 THEN "NONE"
    ELSE IF Len(decided) < n THEN "AWAITING_REVIEW"
    ELSE IF decided[n] = "APPROVE" THEN "APPROVED"
    ELSE IF decided[n] = "REJECT" /\ n <= RevisionLimit THEN "AWAITING_REVISION"
    ELSE "HUMAN_REQUIRED"
ReviewPhase(v) == Replay(candidates[v], decisions[v])

HasSuccessor(v) == \E u \in Existing : parent[u] = v

(* The version and all those it revises. *)
Family(v) ==
    LET revised[u \in Versions] ==
            {u} \cup (IF parent[u] \in 1 .. (u - 1) THEN revised[parent[u]] ELSE {})
    IN  revised[v]

AccountedRuns(v) == UNION {{<<u, i>> : i \in DOMAIN runs[u]} : u \in Family(v)}
Reported(v) == {x \in AccountedRuns(v) : runs[x[1]][x[2]].usage}
TotalTokens(v) == Cardinality(Reported(v))
UsageComplete(v) == Reported(v) = AccountedRuns(v)

Metered(v) == policy[v].hard /\ ~policy[v].exception

OutOfBudgetPassed(v) ==      \* faulty: the limit may be passed by one
    \/ ~policy[v].console /\ Cardinality(AccountedRuns(v)) >= 6
    \/ Metered(v) /\ TotalTokens(v) > policy[v].limit
    \/ policy[v].hard /\ ~UsageComplete(v)
OutOfBudget(v) ==
    \/ ~policy[v].console /\ Cardinality(AccountedRuns(v)) >= 6
    \/ Metered(v) /\ TotalTokens(v) >= policy[v].limit
    \/ policy[v].hard /\ ~UsageComplete(v)

LatestIs(v, status) == runs[v] # <<>> /\ Last(runs[v]).status = status

Phase(v) ==
    IF LatestIs(v, "RUNNING") THEN "RUNNING"
    ELSE IF LatestIs(v, "HUMAN_REQUIRED") THEN "HUMAN_REQUIRED"
    ELSE IF ReviewPhase(v) \in {"HUMAN_REQUIRED", "APPROVED"} THEN ReviewPhase(v)
    ELSE IF v \in expired \/ OutOfBudget(v) THEN "HUMAN_REQUIRED"
    ELSE "READY"

Active(v) == ~projectPaused /\ v \notin paused
ContextMatches(v) == context = captured[v]

-----------------------------------------------------------------------------
(* Console jobs *)

(* #drain: the head of the queue takes a free slot. *)
Drain(q, running) ==
    IF service = "UP" /\ q # <<>> /\ Cardinality(running) < Slots
    THEN queue' = Tail(q) /\ jobs' = running \cup {Head(q)}
    ELSE queue' = q /\ jobs' = running

(* #schedule: a version already queued or running is left as it is. *)
Schedule(v) ==
    IF v \in jobs \/ v \in ToSet(queue)
    THEN UNCHANGED jobVars
    ELSE Drain(Append(queue, v), jobs)

Serving == service = "UP"

-----------------------------------------------------------------------------
(* Versions *)

NoPolicy == [ console |-> FALSE, self |-> FALSE, hard |-> TRUE,
              exception |-> FALSE, limit |-> 0 ]

Init ==
    /\ count = 0
    /\ parent = [v \in Versions |-> 0]
    /\ policy = [v \in Versions |-> NoPolicy]
    /\ captured = [v \in Versions |-> Dirty]
    /\ candidates = [v \in Versions |-> 0]
    /\ decisions = [v \in Versions |-> <<>>]
    /\ runs = [v \in Versions |-> <<>>]
    /\ granted = {} /\ paused = {} /\ projectPaused = FALSE
    /\ context \in Contexts /\ expired = {}
    /\ service = "UP"
    /\ queue = <<>> /\ jobs = {}
    /\ runner = [v \in Versions |-> "NONE"]
    /\ turns = [v \in Versions |-> 0]
    /\ direct = {}

(* accept: a new intake is stored with the project and the repository as   *)
(* they are, which a dirty worktree refuses.                               *)
Accept(n, source, p) ==
    /\ n = count + 1
    /\ context # Dirty
    /\ count' = n
    /\ parent' = [parent EXCEPT ![n] = source]
    /\ policy' = [policy EXCEPT ![n] = p]
    /\ captured' = [captured EXCEPT ![n] = context]
    /\ UNCHANGED <<runs, granted, projectPaused, worldVars, service, loopVars>>

(* The owner confirms a direction: the first version. *)
Intake(p) ==
    /\ Serving /\ count = 0
    /\ Accept(1, 0, p)
    /\ UNCHANGED <<planVars, paused, jobVars>>

(* prepareAgain: the existing revision of a version, or a new one under    *)
(* the settings of now.  It inherits neither plan nor budget exception.    *)
PlanningRetry(v, p) ==
    /\ Serving /\ v \in Existing
    /\ v \notin granted /\ Active(v)
    /\ UNCHANGED <<planVars, paused>>
    /\ \/ \E u \in Existing :
              /\ parent[u] = v
              /\ IF Phase(u) = "READY" THEN Schedule(u) ELSE UNCHANGED jobVars
              /\ UNCHANGED <<familyVars, runs, granted, projectPaused,
                             worldVars, service, loopVars>>
       \/ /\ ~HasSuccessor(v) /\ Phase(v) # "RUNNING"
          /\ \E n \in Versions :
                /\ Accept(n, v, p)
                /\ IF (Phase(n) = "READY")' THEN Schedule(n) ELSE UNCHANGED jobVars

AmendApproved(v) ==          \* faulty: an amended plan is always approved
    /\ Serving /\ v \in Existing
    /\ candidates[v] > 0 /\ v \notin granted
    /\ Phase(v) # "RUNNING" /\ ~HasSuccessor(v)
    /\ \E n \in Versions :
          /\ Accept(n, v, policy[v])
          /\ candidates' = [candidates EXCEPT ![n] = 1]
          /\ decisions' = [decisions EXCEPT ![n] = <<"APPROVE">>]
          /\ UNCHANGED paused
          /\ Schedule(n)

(* amendPlanReview: the current plan under other review levels is the      *)
(* first plan of a new version, approved at once if the planner checks     *)
(* its own plans.                                                          *)
AmendPlanReview(v) ==
    /\ Serving /\ v \in Existing
    /\ candidates[v] > 0 /\ v \notin granted
    /\ Phase(v) # "RUNNING" /\ ~HasSuccessor(v)
    /\ policy[v].exception => v \notin expired
    /\ \E n \in Versions :
          /\ Accept(n, v, policy[v])
          /\ candidates' = [candidates EXCEPT ![n] = 1]
          /\ decisions' = [decisions EXCEPT ![n] =
                              IF policy[v].self THEN <<"APPROVE">> ELSE <<>>]
          /\ paused' = paused \cup (IF v \in paused THEN {n} ELSE {})
          /\ Schedule(n)

GrantUnrevised(v) ==         \* faulty: a plan that was revised is granted
    /\ Serving /\ v \in Existing
    /\ ReviewPhase(v) = "APPROVED"
    /\ context # Dirty
    /\ granted' = granted \cup {v}
    /\ UNCHANGED <<familyVars, planVars, runs, paused, projectPaused, worldVars,
                   service, jobVars, loopVars>>

GrantUnapproved(v) ==        \* faulty: a plan under review is granted
    /\ Serving /\ v \in Existing
    /\ candidates[v] > 0 /\ ~HasSuccessor(v)
    /\ context # Dirty
    /\ granted' = granted \cup {v}
    /\ UNCHANGED <<familyVars, planVars, runs, paused, projectPaused, worldVars,
                   service, jobVars, loopVars>>

(* execution-approve: the approved plan becomes the plan work is done      *)
(* under.                                                                  *)
Grant(v) ==
    /\ Serving /\ v \in Existing
    /\ ReviewPhase(v) = "APPROVED" /\ ~HasSuccessor(v)
    /\ context # Dirty
    /\ granted' = granted \cup {v}
    /\ UNCHANGED <<familyVars, planVars, runs, paused, projectPaused, worldVars,
                   service, jobVars, loopVars>>

-----------------------------------------------------------------------------
(* Jobs and the planning loop *)

LedgerUnchanged ==
    UNCHANGED <<familyVars, planVars, settingVars, worldVars, service>>

PlanningStart(v) ==
    /\ Serving /\ v \in Existing
    /\ Active(v) /\ Phase(v) = "READY"
    /\ Schedule(v)
    /\ LedgerUnchanged /\ UNCHANGED <<runs, loopVars>>

(* A request runs the loop itself, outside the queue. *)
RunPlanning(v) ==
    /\ "DIRECT" \in Events
    /\ Serving /\ v \in Existing
    /\ runner[v] = "NONE"
    /\ runner' = [runner EXCEPT ![v] = "LOOP"]
    /\ direct' = direct \cup {v}
    /\ LedgerUnchanged /\ UNCHANGED <<runs, turns, jobVars>>

(* A job enters the loop, or fails with OPERATION_CONFLICT because a       *)
(* request is in it.                                                       *)
JobBegin(v) ==
    /\ v \in jobs
    /\ \/ /\ runner[v] = "NONE"
          /\ runner' = [runner EXCEPT ![v] = "LOOP"]
          /\ UNCHANGED jobVars
       \/ /\ v \in direct
          /\ Drain(queue, jobs \ {v})
          /\ UNCHANGED runner
    /\ LedgerUnchanged /\ UNCHANGED <<runs, turns, direct>>

LeaveUndrained(v) ==         \* faulty: the freed slot is not filled
    /\ runner' = [runner EXCEPT ![v] = "NONE"]
    /\ turns' = [turns EXCEPT ![v] = 0]
    /\ direct' = direct \ {v}
    /\ jobs' = IF v \in direct THEN jobs ELSE jobs \ {v}
    /\ UNCHANGED queue

LeaveKeepsJob(v) ==          \* faulty: the job is not removed
    /\ runner' = [runner EXCEPT ![v] = "NONE"]
    /\ turns' = [turns EXCEPT ![v] = 0]
    /\ direct' = direct \ {v}
    /\ UNCHANGED jobVars

Leave(v) ==
    /\ runner' = [runner EXCEPT ![v] = "NONE"]
    /\ turns' = [turns EXCEPT ![v] = 0]
    /\ direct' = direct \ {v}
    /\ IF v \in direct THEN UNCHANGED jobVars ELSE Drain(queue, jobs \ {v})

MayClaimFive(v) ==           \* faulty: one turn too few
    Phase(v) = "READY" /\ Active(v) /\ turns[v] < 5
MayClaim(v) == Phase(v) = "READY" /\ Active(v) /\ turns[v] < 6

(* The loop ends; for a version that was revised meanwhile, because claim  *)
(* throws.                                                                 *)
StopPlanning(v) ==
    /\ runner[v] = "LOOP"
    /\ ~MayClaim(v) \/ HasSuccessor(v)
    /\ Leave(v)
    /\ LedgerUnchanged /\ UNCHANGED runs

NextRun(v, status, stop) ==
    [ role |-> IF ReviewPhase(v) = "AWAITING_REVIEW" THEN "REVIEWER" ELSE "PLANNER",
      rev |-> candidates[v], status |-> status, stop |-> stop,
      evidence |-> FALSE, usage |-> FALSE ]

ClaimRevised(v, status, stop) ==     \* faulty: a revised version takes turns
    /\ runner[v] = "LOOP"
    /\ MayClaim(v)
    /\ runs' = [runs EXCEPT ![v] = Append(@, NextRun(v, status, stop))]
    /\ LedgerUnchanged /\ UNCHANGED <<jobVars, direct>>

Claim(v, status, stop) ==
    /\ runner[v] = "LOOP"
    /\ MayClaim(v) /\ ~HasSuccessor(v)
    /\ runs' = [runs EXCEPT ![v] = Append(@, NextRun(v, status, stop))]
    /\ LedgerUnchanged /\ UNCHANGED <<jobVars, direct>>

(* claim: the input of a turn is stored before the provider is asked. *)
ClaimTurn(v) ==
    /\ ContextMatches(v)
    /\ Claim(v, "RUNNING", "NONE")
    /\ runner' = [runner EXCEPT ![v] = "TURN"]
    /\ UNCHANGED turns

(* claim: no turn on a changed context, or with an input that is too long. *)
ClaimRefused(v) ==
    /\ \/ ~ContextMatches(v) /\ Claim(v, "HUMAN_REQUIRED", "CONTEXT_CHANGED")
       \/ /\ ContextMatches(v) /\ "CONTEXT" \in Events
          /\ Claim(v, "HUMAN_REQUIRED", "CONTEXT_LIMIT")
    /\ turns' = [turns EXCEPT ![v] = @ + 1]
    /\ UNCHANGED runner

-----------------------------------------------------------------------------
(* The provider's turn *)

Turn(v) == Last(runs[v])

Rewrite(v, run) == runs' = [runs EXCEPT ![v][Len(runs[v])] = run]

(* observe: thread, run and model are known; usage may come later. *)
Observe(v) ==
    /\ runner[v] = "TURN"
    /\ \E known \in {TRUE} \cup (IF "PROVIDER" \in Events THEN {Turn(v).usage} ELSE {}) :
          /\ ~Turn(v).evidence \/ known # Turn(v).usage
          /\ Rewrite(v, [Turn(v) EXCEPT !.evidence = TRUE, !.usage = known])
    /\ LedgerUnchanged /\ UNCHANGED <<jobVars, loopVars>>

(* finish: the first reason not to read the answer at all. *)
Refusal(v, success) ==
    IF ~ContextMatches(v) \/ candidates[v] # Turn(v).rev THEN "CONTEXT_CHANGED"
    ELSE IF v \in expired THEN "TIME_LIMIT_REACHED"
    ELSE IF Metered(v) /\ TotalTokens(v) >= policy[v].limit THEN "BUDGET_BLOCKED"
    ELSE IF ~success THEN "PROVIDER_FAILED"
    ELSE IF policy[v].hard /\ ~UsageComplete(v) THEN "USAGE_UNKNOWN"
    ELSE IF ~Turn(v).evidence THEN "PROVIDER_FAILED"
    ELSE "NONE"

(* The turn ends for this reason and the loop goes on. *)
EndTurn(v, reason) ==
    /\ runner[v] = "TURN"
    /\ Rewrite(v, [Turn(v) EXCEPT
                    !.status = IF reason = "NONE" THEN "COMPLETED" ELSE "HUMAN_REQUIRED",
                    !.stop = reason])
    /\ runner' = [runner EXCEPT ![v] = "LOOP"]
    /\ turns' = [turns EXCEPT ![v] = @ + 1]
    /\ UNCHANGED <<familyVars, settingVars, worldVars, service, jobVars, direct>>

Recorded(v) == Turn(v).evidence /\ Turn(v).usage

RefuseTurn(v) ==
    /\ runner[v] = "TURN"
    /\ \E success \in BOOLEAN :
          /\ (success /\ Recorded(v)) \/ "PROVIDER" \in Events
          /\ Refusal(v, success) # "NONE"
          /\ EndTurn(v, Refusal(v, success))
    /\ UNCHANGED planVars

Answered(v, role) ==
    /\ runner[v] = "TURN"
    /\ Recorded(v) \/ "PROVIDER" \in Events
    /\ Refusal(v, TRUE) = "NONE"
    /\ Turn(v).role = role

(* The planner's plan is stored as the next candidate.  If it checks its   *)
(* own plans, the approval is stored with it; when a later write fails,    *)
(* what was written stays and the answer counts as invalid.                *)
Propose(v) ==
    /\ Answered(v, "PLANNER")
    /\ candidates' = [candidates EXCEPT ![v] = @ + 1]
    /\ \/ /\ ~policy[v].self
          /\ EndTurn(v, "NONE")
          /\ UNCHANGED decisions
       \/ /\ policy[v].self
          /\ EndTurn(v, "NONE")
          /\ decisions' = [decisions EXCEPT ![v] = Append(@, "APPROVE")]
       \/ /\ policy[v].self /\ "STORAGE" \in Events
          /\ EndTurn(v, "INVALID_OUTPUT")
          /\ decisions' \in {decisions,
                             [decisions EXCEPT ![v] = Append(@, "APPROVE")]}

(* The reviewer's decision is stored; an escalation also stops the run. *)
Review(v) ==
    /\ Answered(v, "REVIEWER")
    /\ \E outcome \in Outcomes :
          /\ outcome = "ESCALATE" => "OUTPUT" \in Events
          /\ decisions' = [decisions EXCEPT ![v] = Append(@, outcome)]
          /\ EndTurn(v, IF outcome = "ESCALATE" THEN "REVIEW_ESCALATED" ELSE "NONE")
    /\ UNCHANGED candidates

(* The planner asks the owner, or an answer cannot be used. *)
RejectAnswer(v) ==
    /\ "OUTPUT" \in Events
    /\ \/ Answered(v, "PLANNER") /\ EndTurn(v, "PRODUCT_QUESTION")
       \/ \E role \in {"PLANNER", "REVIEWER"} :
             Answered(v, role) /\ EndTurn(v, "INVALID_OUTPUT")
    /\ UNCHANGED planVars

FinishTurn(v) == RefuseTurn(v) \/ Propose(v) \/ Review(v) \/ RejectAnswer(v)

(* Neither finish can be stored: the loop ends with its turn still open. *)
TurnLost(v) ==
    /\ "STORAGE" \in Events
    /\ runner[v] = "TURN"
    /\ Leave(v)
    /\ LedgerUnchanged /\ UNCHANGED runs

-----------------------------------------------------------------------------
(* Lifecycle, environment and process *)

Unqueue(v) ==
    IF v \in ToSet(queue)
    THEN \E i \in DOMAIN queue : queue[i] = v /\ queue' = RemoveAt(queue, i)
    ELSE queue' = queue

PauseTask(v) ==
    /\ "PAUSE" \in Events
    /\ Serving /\ v \in Existing \ paused
    /\ paused' = paused \cup {v}
    /\ Unqueue(v)
    /\ UNCHANGED <<familyVars, planVars, runs, granted, projectPaused, worldVars,
                   service, jobs, loopVars>>

ResumeTask(v) ==
    /\ Serving /\ v \in paused
    /\ paused' = paused \ {v}
    /\ IF ~projectPaused /\ v \notin granted /\ Phase(v) = "READY"
       THEN Schedule(v) ELSE UNCHANGED jobVars
    /\ UNCHANGED <<familyVars, planVars, runs, granted, projectPaused, worldVars,
                   service, loopVars>>

PauseProject ==
    /\ "PROJECT" \in Events
    /\ Serving /\ ~projectPaused
    /\ projectPaused' = TRUE
    /\ queue' = <<>>
    /\ UNCHANGED <<familyVars, planVars, runs, granted, paused, worldVars,
                   service, jobs, loopVars>>

(* Nothing is scheduled when the project is resumed. *)
ResumeProject ==
    /\ Serving /\ projectPaused
    /\ projectPaused' = FALSE
    /\ UNCHANGED <<familyVars, planVars, runs, granted, paused, worldVars,
                   service, jobVars, loopVars>>

(* Pausing a subtask of the proposed plan takes its Big Task off the queue. *)
PauseSubtask(v) ==
    /\ "SUBTASK" \in Events
    /\ Serving /\ v \in ToSet(queue) /\ candidates[v] > 0
    /\ Unqueue(v)
    /\ LedgerUnchanged /\ UNCHANGED <<runs, jobs, loopVars>>

(* Project settings, the repository's head or its worktree change. *)
ChangeContext ==
    /\ "CONTEXT" \in Events
    /\ context' \in (Contexts \cup {Dirty}) \ {context}
    /\ UNCHANGED <<familyVars, planVars, runs, settingVars, expired, service,
                   jobVars, loopVars>>

(* A planning window passes; the window of an exception is a date, the     *)
(* same for all versions that carry it.                                    *)
Expire(v) ==
    /\ "EXPIRE" \in Events
    /\ v \in Existing \ expired
    /\ \/ /\ policy[v].exception
          /\ expired' = expired \cup {u \in Existing : policy[u].exception}
       \/ /\ policy[v].console /\ ~policy[v].exception
          /\ expired' = expired \cup {v}
    /\ UNCHANGED <<familyVars, planVars, runs, settingVars, context, service,
                   jobVars, loopVars>>

(* stop: the queue is dropped and the jobs under way are awaited. *)
Shutdown ==
    /\ "SHUTDOWN" \in Events
    /\ service = "UP"
    /\ service' = "STOPPING" /\ queue' = <<>>
    /\ UNCHANGED <<familyVars, planVars, runs, settingVars, worldVars, jobs,
                   loopVars>>

Exit ==
    /\ service = "STOPPING"
    /\ jobs = {} /\ \A v \in Versions : runner[v] = "NONE"
    /\ service' = "DOWN"
    /\ UNCHANGED <<familyVars, planVars, runs, settingVars, worldVars, jobVars,
                   loopVars>>

Crash ==
    /\ "CRASH" \in Events
    /\ service # "DOWN"
    /\ service' = "DOWN"
    /\ queue' = <<>> /\ jobs' = {}
    /\ runner' = [v \in Versions |-> "NONE"]
    /\ turns' = [v \in Versions |-> 0]
    /\ direct' = {}
    /\ UNCHANGED <<familyVars, planVars, runs, settingVars, worldVars>>

RestartAsIs ==               \* faulty: an interrupted turn is left under way
    /\ service = "DOWN"
    /\ service' = "UP"
    /\ UNCHANGED <<familyVars, planVars, runs, settingVars, worldVars, jobVars, loopVars>>

(* recoverInterrupted: an uncertain turn is never repeated. *)
Restart ==
    /\ service = "DOWN"
    /\ service' = "UP"
    /\ runs' = [v \in Versions |->
                  IF LatestIs(v, "RUNNING")
                  THEN [runs[v] EXCEPT ![Len(runs[v])] =
                         [@ EXCEPT !.status = "HUMAN_REQUIRED", !.stop = "INTERRUPTED"]]
                  ELSE runs[v]]
    /\ UNCHANGED <<familyVars, planVars, settingVars, worldVars, jobVars, loopVars>>

Loop(v) == StopPlanning(v) \/ ClaimTurn(v) \/ ClaimRefused(v)
           \/ Observe(v) \/ FinishTurn(v)

Requests(v) ==
    \/ PlanningStart(v) \/ RunPlanning(v) \/ AmendPlanReview(v) \/ Grant(v)
    \/ \E p \in Preferences : PlanningRetry(v, p)
    \/ PauseTask(v) \/ ResumeTask(v) \/ PauseSubtask(v)

Next ==
    \/ \E p \in Intakes : Intake(p)
    \/ \E v \in Versions : Requests(v) \/ JobBegin(v) \/ Loop(v) \/ TurnLost(v) \/ Expire(v)
    \/ PauseProject \/ ResumeProject \/ ChangeContext
    \/ Shutdown \/ Exit \/ Crash \/ Restart

Spec == Init /\ [][Next]_vars

(* The event loop goes on with a job that can go on, and a provider turn   *)
(* has a deadline.  Nothing is assumed of people or of the clock.          *)
FairSpec ==
    /\ Spec
    /\ \A v \in Versions : WF_vars(JobBegin(v)) /\ WF_vars(Loop(v))
    /\ WF_vars(Exit)

-----------------------------------------------------------------------------
(* Safety *)

(* A plan is given to execution only when it is approved and no other      *)
(* version was opened or approved for execution: approve against           *)
(* prepareAgain and amendPlanReview, each of which checks for the other.   *)
OneAuthority ==
    /\ \A v \in granted : ReviewPhase(v) = "APPROVED" /\ ~HasSuccessor(v)
    /\ Cardinality(granted) <= 1

(* An independently reviewed plan is approved only by the latest turn, and *)
(* that turn was given exactly the approved proposal: claim and finish     *)
(* around interrupted turns, revisions and amendments.                     *)
FreshApproval ==
    \A v \in Existing : ReviewPhase(v) = "APPROVED" /\ ~policy[v].self =>
        /\ LatestIs(v, "COMPLETED")
        /\ Last(runs[v]).role = "REVIEWER"
        /\ Last(runs[v]).rev = candidates[v]

(* What #runs checks each time the ledger is read, and more than which the *)
(* code would refuse to read: only the latest turn is not completed, and   *)
(* one intake takes at most three plans and three reviews.                 *)
RunsReadable ==
    \A v \in Versions :
        /\ Len(runs[v]) <= 6
        /\ \A i \in 1 .. (Len(runs[v]) - 1) : runs[v][i].status = "COMPLETED"

(* What the latest turn of a version was asked for after. *)
EarlierRuns(v) == AccountedRuns(v) \ {<<v, Len(runs[v])>>}

(* No turn of a hard budget was asked for before the usage of every        *)
(* earlier one, in all versions, was known, and, unless the version itself *)
(* carries a measuring exception, below the limit: inspect and claim over  *)
(* restarts, retries and amendments.  An amendment carries the exception   *)
(* of the version it amends (see ExceptionNotInherited).                   *)
HardBudget ==
    \A v \in Existing : policy[v].hard /\ runs[v] # <<>> =>
        /\ EarlierRuns(v) \subseteq Reported(v)
        /\ policy[v].exception \/ Cardinality(EarlierRuns(v)) < policy[v].limit

(* A turn that the ledger says is under way has a loop that waits for it,  *)
(* so it is answered or, after a crash, interrupted by the restart.        *)
RunningHasRunner ==
    \A v \in Existing :
        /\ runner[v] = "TURN" => Phase(v) = "RUNNING"
        /\ Phase(v) = "RUNNING" => runner[v] = "TURN" \/ service = "DOWN"

(* The bound of six turns never cuts a planning short: the loop leaves a   *)
(* version that could go on only when it is paused or revised.             *)
NeverCutShort ==
    [][\A v \in Existing :
          runner[v] = "LOOP" /\ runner'[v] = "NONE" /\ service' # "DOWN" =>
              Phase(v) # "READY" \/ ~Active(v) \/ HasSuccessor(v)]_vars

(* The record of a version that was revised or given to execution never    *)
(* changes again, whatever loop still runs on it.                          *)
VersionsFrozen ==
    [][\A v \in Existing : v \in granted \/ HasSuccessor(v) =>
          /\ runs'[v] = runs[v]
          /\ candidates'[v] = candidates[v]
          /\ decisions'[v] = decisions[v]]_vars

(* The versions, approvals and the plan given to execution implement       *)
(* PlanAuthority.                                                          *)
Authority == INSTANCE PlanAuthority WITH
    newest <- count,
    approved <- {v \in Existing : ReviewPhase(v) = "APPROVED"},
    granted <- granted
ImplementsAuthority == Authority!Spec

-----------------------------------------------------------------------------
(* Liveness *)

(* A queued version is planned to a decision or a question, unless it is   *)
(* paused or revised or the service stops.                                 *)
QueuedIsPlanned ==
    \A v \in Versions :
        v \in ToSet(queue) ~>
            \/ Phase(v) \in {"APPROVED", "HUMAN_REQUIRED"}
            \/ ~Active(v) \/ HasSuccessor(v) \/ service # "UP"

(* A stop waits for the planning under way and then ends. *)
StopsPlanning == service = "STOPPING" ~> service = "DOWN"

-----------------------------------------------------------------------------
(* What the documents say and the code does not do *)

(* docs/BIG_TASK_LIVE_PLANNING_V0.md:94: "No existing stopped intake is    *)
(* reset or amended, and later intakes do not inherit the exception."  So  *)
(* a version that revises another one takes no turn at its limit, as       *)
(* prepareAgain has it; amendPlanReview copies the exception.              *)
ExceptionNotInherited ==
    \A v \in Existing : parent[v] # 0 /\ policy[v].hard /\ runs[v] # <<>> =>
        Cardinality(EarlierRuns(v)) < policy[v].limit
=============================================================================
