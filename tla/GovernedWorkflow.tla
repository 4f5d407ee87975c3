--------------------------- MODULE GovernedWorkflow ---------------------------
(***************************************************************************)
(* The governed execution of one Big Task by several callers at once       *)
(* (packages/storage/src/governed-execution.ts): the background worker,    *)
(* requests of the local service and other processes on the same           *)
(* database.  Each caller prepares the next role and lets a provider carry *)
(* it out.  A step is one transaction of the database, so everything that  *)
(* a caller read in an earlier transaction may be stale.                   *)
(*                                                                         *)
(* BigTaskExecution is the view of one worker: limits, budgets, recovery   *)
(* and delivery are there and not repeated here.                           *)
(***************************************************************************)
EXTENDS SubtaskWorkflow

CONSTANTS Callers,     \* who may prepare and execute roles
          Writers,     \* the Subtasks whose plan allows to write
          Manual,      \* the Subtasks that a human must start
          Reviewed,    \* whether a STANDARD Subtask gets independent review
          Works,       \* whether a role that writes changes something
          MaxActive,   \* how many Subtasks of the Project may run at once
          MaxDisturbed \* bound on what people, other programs and deaths disturb

ASSUME WritersAssumption == Writers \subseteq Tasks /\ Manual \subseteq Tasks
ASSUME BoundsAssumption  == MaxDisturbed \in Nat
ASSUME ActiveAssumption  == MaxActive \in {1, 2} /\ Reviewed \in BOOLEAN
ASSUME WorksAssumption   == Works \subseteq BOOLEAN

VARIABLES receipt,    \* the status of the dispatch receipt of each Subtask
          roles,      \* the authorized roles of each Subtask, in order
          tree,       \* the owned checkout of each Subtask
          manual,     \* the Subtasks with a manual start authority
          paused,     \* the Subtasks whose lifecycle is not active
          completed,  \* whether the Big Task has its completion receipt
          pc,         \* where each caller is
          at,         \* the Subtask and workflow sequence a caller works on
          seen,       \* the sequences a caller read when it began to prepare
          disturbed   \* how often something from outside happened

callerVars == <<pc, at, seen>>
storeVars  == <<history, demand, replan, board, receipt, roles, tree, manual, completed>>
vars       == <<storeVars, paused, callerVars, disturbed>>

RoleStages == {"EXECUTE", "VERIFY", "HARDEN", "FRESH_QA", "REPAIR", "FOCUSED_RE_QA"}
Outcomes(role) == IF role \in {"EXECUTE", "REPAIR"} THEN {"READY", "BLOCKED"}
                  ELSE {"PASS", "BLOCKING_FAIL"}

Nowhere     == [task |-> Order[1], seq |-> 0]
NothingSeen == [t \in Tasks |-> 0]

Init ==
  /\ WorkflowInit
  /\ receipt = [t \in Tasks |-> "NONE"]
  /\ roles   = [t \in Tasks |-> << >>]
  /\ tree    = [t \in Tasks |-> [held |-> FALSE, head |-> 0, dirty |-> FALSE]]
  /\ manual  = {}
  /\ paused  = {}
  /\ completed = FALSE
  /\ pc      = [c \in Callers |-> "IDLE"]
  /\ at      = [c \in Callers |-> Nowhere]
  /\ seen    = [c \in Callers |-> NothingSeen]
  /\ disturbed = 0

(***************************************************************************)
(* Roles, runs and dispatches.                                             *)
(***************************************************************************)
EntrySequence(t) == IF InitialStage(Profile[t]) = "EXECUTE" THEN 1 ELSE 2

Round(t, seq)    == seq - EntrySequence(t) + 1
HasRole(t, seq)  == Round(t, seq) \in 1 .. Len(roles[t])
Role(t, seq)     == roles[t][Round(t, seq)]

RoleWrites(t, stage) == t \in Writers /\ stage \in {"EXECUTE", "HARDEN", "REPAIR"}

Running(t) == \E k \in 1 .. Len(roles[t]) : roles[t][k].phase \in {"CREATED", "RUNNING"}
WriteRunning(t) ==
  \E k \in 1 .. Len(roles[t]) :
    /\ roles[t][k].phase \in {"CREATED", "RUNNING"}
    /\ RoleWrites(t, StageBefore(t, k + EntrySequence(t) - 1))

IsIdleRetained(t) == t \in paused /\ ~Running(t)

(* An idle dispatch of a paused Subtask gives up its slot.                 *)
Retained == [t \in Tasks |->
               IF receipt[t] = "ACTIVE" /\ IsIdleRetained(t) THEN "PAUSED" ELSE receipt[t]]
OccupiedDispatches == {t \in Tasks : Retained[t] \in {"RESERVED", "ACTIVE"}}

SlotFree(t, limit) ==
  /\ Cardinality(OccupiedDispatches) < limit
  /\ t \in Writers => OccupiedDispatches \cap Writers = {}

CandidateIsClean(t) == tree[t].held /\ ~tree[t].dirty

(* The gates of a dispatch: dependencies, checkout and concurrency.        *)
DispatchGates(t) == Ready(t) /\ CandidateIsClean(t) /\ SlotFree(t, 2)

GatesPassed == [code \in GateCodes |-> "PASS"]

Fresh(t) ==
  LET used == {tree[t].head} \cup {roles[t][k].head : k \in 1 .. Len(roles[t])}
                             \cup {roles[t][k].base : k \in 1 .. Len(roles[t])}
  IN  1 + (CHOOSE h \in used : \A g \in used : g <= h)

(***************************************************************************)
(* Moving a caller.                                                        *)
(***************************************************************************)
GoTo(c, place, t, seq) ==
  /\ pc' = [pc EXCEPT ![c] = place]
  /\ at' = [at EXCEPT ![c] = [task |-> t, seq |-> seq]]

(* An answer or an error ends the request; what was committed stays.       *)
Answer(c) ==
  /\ GoTo(c, "IDLE", Nowhere.task, Nowhere.seq)
  /\ seen' = [seen EXCEPT ![c] = NothingSeen]

(* The executor goes on with the role that it was given.                   *)
Continue(c, place) == GoTo(c, place, at[c].task, at[c].seq) /\ UNCHANGED seen

(* A role is authorized; the preparation is over and execution begins.     *)
Authorized(c, t, seq) ==
  /\ GoTo(c, "RESERVE", t, seq)
  /\ seen' = [seen EXCEPT ![c] = NothingSeen]

(***************************************************************************)
(* prepareNextRole: read the views, then try the Subtasks in their order.  *)
(***************************************************************************)
MayTry(t, views) ==
  /\ StageBefore(t, views[t]) # "COMPLETE"
  /\ t \notin paused
  /\ Ready(t)

AwaitsHuman(t) == t \in Manual /\ t \notin manual

Provisioned(t) == [tree EXCEPT ![t].held = TRUE]

(* Go on with the first Subtask at or after place i that may be tried.     *)
TryFrom(c, i, views) ==
  LET open     == {j \in i .. Len(Order) : MayTry(Order[j], views)}
      next     == Order[CHOOSE j \in open : \A k \in open : j <= k]
      entering == StageBefore(next, views[next]) = "MATERIALIZE"
  IN  IF open = {} \/ (entering /\ AwaitsHuman(next))
      THEN Answer(c) /\ UNCHANGED tree
      ELSE /\ GoTo(c, IF entering THEN "ENTER" ELSE "DISPATCH", next, views[next])
           /\ seen' = [seen EXCEPT ![c] = views]
           /\ tree' = IF entering THEN Provisioned(next) ELSE tree

Reconciled == [t \in Tasks |->
  IF receipt[t] \notin {"RESERVED", "ACTIVE", "PAUSED"} THEN receipt[t]
  ELSE IF Stage(t) = "COMPLETE" THEN "COMPLETED"
  ELSE IF NeedsHuman(t) THEN "HUMAN_REQUIRED"
  ELSE receipt[t]]

AllComplete == \A t \in Tasks : Stage(t) = "COMPLETE" /\ Reconciled[t] = "COMPLETED"

LastRole(t) == roles[t][Len(roles[t])]

(* The candidate of a completed Subtask is the one finally assessed.       *)
CompletedCandidateProof(t) ==
  /\ LastRole(t).outcome = "PASS"
  /\ tree[t].head = LastRole(t).head
  /\ CandidateIsClean(t)

Prepare(c) ==
  /\ pc[c] = "IDLE"
  /\ ~completed
  /\ receipt' = Reconciled
  /\ IF \E t \in Tasks : NeedsHuman(t)
     THEN Answer(c) /\ UNCHANGED <<tree, completed>>
     ELSE IF AllComplete
     THEN /\ completed' = \A t \in Tasks : CompletedCandidateProof(t)
          /\ Answer(c) /\ UNCHANGED tree
     ELSE TryFrom(c, 1, [t \in Tasks |-> Sequence(t)]) /\ UNCHANGED completed
  /\ UNCHANGED <<workflowVars, roles, manual, paused, disturbed>>

(* A competing caller may have recorded exactly this entry already.        *)
AlreadyEntered(t, seq) == Stage(t) = "EXECUTE" /\ Sequence(t) = seq + 1

MayEnter(t, seq) ==
  /\ Stage(t) = "MATERIALIZE" /\ Sequence(t) = seq
  /\ DispatchGates(t)
  /\ MayAdvance(t, "EXECUTE", GatesPassed, {})

EnterExecution(c) ==
  LET t == at[c].task
      seq == at[c].seq
  IN  /\ pc[c] = "ENTER"
      /\ IF AlreadyEntered(t, seq) \/ MayEnter(t, seq)
         THEN GoTo(c, "DISPATCH", t, seq + 1) /\ UNCHANGED seen
         ELSE Answer(c)
      /\ IF ~AlreadyEntered(t, seq) /\ MayEnter(t, seq)
         THEN AdvanceDurableWorkflow(t, "EXECUTE", GatesPassed, {}) /\ receipt' = Retained
         ELSE UNCHANGED <<workflowVars, receipt>>
      /\ UNCHANGED <<roles, tree, manual, completed, paused, disturbed>>

(* The first dispatch reserves a slot and starts the Subtask on the board. *)
MayReserveDispatch(t, seq) ==
  /\ receipt[t] = "NONE"
  /\ StageBefore(t, seq) = "EXECUTE"
  /\ Stage(t) = "EXECUTE" /\ board[t].status = "TODO" /\ ~NeedsHuman(t)
  /\ ~AwaitsHuman(t)
  /\ Ready(t) /\ ~tree[t].dirty /\ SlotFree(t, 2)

ReserveDispatch(c) ==
  LET t == at[c].task
  IN  /\ pc[c] = "DISPATCH"
      /\ MayReserveDispatch(t, at[c].seq)
      /\ receipt' = [Retained EXCEPT ![t] = "RESERVED"]
      /\ StartOnBoard(t)
      /\ tree' = Provisioned(t)
      /\ GoTo(c, "ROLE", t, Sequence(t))
      /\ UNCHANGED <<history, demand, replan, roles, manual, completed, paused, seen, disturbed>>

(* A paused dispatch needs a free slot again.                              *)
MayResumeTaken(t) == receipt[t] = "PAUSED"      \* faulty: the slot may be taken
MayResumeDispatch(t) == receipt[t] = "PAUSED" /\ SlotFree(t, MaxActive)

ResumeDispatch(c) ==
  LET t == at[c].task
  IN  /\ pc[c] = "DISPATCH"
      /\ MayResumeDispatch(t)
      /\ receipt' = [Retained EXCEPT ![t] = "ACTIVE"]
      /\ Continue(c, "ROLE")
      /\ UNCHANGED <<workflowVars, roles, tree, manual, completed, paused, disturbed>>

KeepDispatch(c) ==
  LET t == at[c].task
  IN  /\ pc[c] = "DISPATCH"
      /\ ~MayReserveDispatch(t, at[c].seq) /\ ~MayResumeDispatch(t)
      /\ IF receipt[t] \in {"RESERVED", "ACTIVE"} THEN Continue(c, "ROLE") ELSE Answer(c)
      /\ UNCHANGED <<storeVars, paused, disturbed>>

(***************************************************************************)
(* The role that the caller's view asks for.                               *)
(***************************************************************************)
(* Faulty: whatever the previous role left.                                *)
MayAuthorizeAny(t) ==
  Stage(t) \in RoleStages /\ ~NeedsHuman(t) /\ ~Running(t) /\ CandidateIsClean(t)

MayAuthorize(t) ==
  /\ Stage(t) \in RoleStages
  /\ ~NeedsHuman(t)
  /\ ~Running(t)
  /\ CandidateIsClean(t)
  /\ Stage(t) # "EXECUTE" =>
       /\ HasRole(t, Sequence(t) - 1)
       /\ Role(t, Sequence(t) - 1).head = tree[t].head

NewRole(base) == [base |-> base, head |-> base, phase |-> "AUTHORIZED", bound |-> FALSE,
                  claimed |-> FALSE, outcome |-> "NONE"]

(* #authorizeCurrentRole: for the stage of now, not the one that was seen. *)
AuthorizeCurrentRole(c) ==
  LET t == at[c].task
  IN  /\ pc[c] = "ROLE"
      /\ ~HasRole(t, at[c].seq)
      /\ IF MayAuthorize(t)
         THEN /\ roles' = [roles EXCEPT ![t] = Append(@, NewRole(tree[t].head))]
              /\ receipt' = [receipt EXCEPT ![t] = IF @ = "RESERVED" THEN "ACTIVE" ELSE @]
              /\ Authorized(c, t, Sequence(t))
         ELSE Answer(c) /\ UNCHANGED <<roles, receipt>>
      /\ UNCHANGED <<workflowVars, tree, manual, completed, paused, disturbed>>

(* A role that is authorized already: take it up, wait for it or give up.  *)
InspectRole(c) ==
  LET t    == at[c].task
      role == Role(t, at[c].seq)
      place == CHOOSE i \in 1 .. Len(Order) : Order[i] = t
  IN  /\ pc[c] = "ROLE"
      /\ HasRole(t, at[c].seq) /\ role.outcome = "NONE"
      /\ IF role.phase = "RUNNING" THEN TryFrom(c, place + 1, seen[c])
         ELSE /\ UNCHANGED tree
              /\ IF role.phase = "AUTHORIZED" \/ (role.phase = "CREATED" /\ ~role.claimed)
                 THEN Authorized(c, t, at[c].seq)
                 ELSE Answer(c)
      /\ UNCHANGED <<workflowVars, receipt, roles, manual, completed, paused, disturbed>>

(***************************************************************************)
(* The result of a role moves the workflow.                                *)
(***************************************************************************)
Evidence(role, outcome) ==
  CASE role = "VERIFY" -> [code \in {"VERIFICATION_EVIDENCE_PASSED"} |-> outcome]
    [] role = "HARDEN" -> [code \in {"HARDENING_EVIDENCE_PASSED"} |-> outcome]
    [] role = "REPAIR" -> [code \in {"REPAIR_EVIDENCE_PASSED"} |-> "PASS"]
    [] OTHER           -> [code \in {QaCode(role)} |-> outcome]

(* Where the result leads; the rules decide whether it may.                *)
NextStage(t, role, outcome) ==
  CASE role = "EXECUTE" -> IF Profile[t] = "HIGH_RISK_FOUNDATION" THEN "HARDEN"
                           ELSE IF Profile[t] = "STANDARD" /\ Reviewed THEN "FRESH_QA"
                           ELSE "VERIFY"
    [] role = "HARDEN"  -> "FRESH_QA"
    [] role = "REPAIR"  -> "FOCUSED_RE_QA"
    [] outcome = "BLOCKING_FAIL" /\ (role = "FRESH_QA" \/ Cycles(t) < Limit[t]) -> "REPAIR"
    [] OTHER            -> "COMPLETE"

ResultBlocks(role, outcome) ==
  outcome = "BLOCKED" \/ (outcome = "BLOCKING_FAIL" /\ role \notin QaStages)

DeliveryEvidence == {"REQUIRED_TESTS_PASSED", "NO_UNRESOLVED_BLOCKING_FINDING",
                     "HANDOFF_PRESENT", "PROMOTED_CONTEXT_DISPOSITION_RECORDED"}

Terminalize(t, status) == receipt' = [receipt EXCEPT ![t] = status]

(* #reconcilePersistedRoleResult for the role of Subtask t at seq.         *)
Reconcile(t, seq) ==
  LET result == Role(t, seq)
      role   == Stage(t)
      next   == NextStage(t, role, result.outcome)
      facts  == Evidence(role, result.outcome)
  IN  IF \/ Sequence(t) # seq
         \/ ~CandidateIsClean(t) \/ tree[t].head # result.head
         \/ ResultBlocks(role, result.outcome)
         \/ NeedsHuman(t)
      THEN UNCHANGED <<workflowVars, receipt>>
      ELSE IF role = "EXECUTE" THEN CompleteImplementation(t, next) /\ UNCHANGED receipt
      ELSE \/ /\ AdvanceDurableWorkflow(t, next, facts, DeliveryEvidence)
              /\ IF next = "COMPLETE" THEN Terminalize(t, "COMPLETED") ELSE UNCHANGED receipt
           \/ RequireHuman(t, next, facts) /\ Terminalize(t, "HUMAN_REQUIRED")

(* A result found by the preparation is reconciled and the caller goes on  *)
(* with the same Subtask; a blocked one or an error is its answer.         *)
ReconcileFound(c) ==
  LET t == at[c].task
      last == Len(history'[t])
  IN  /\ pc[c] = "ROLE"
      /\ HasRole(t, at[c].seq) /\ Role(t, at[c].seq).outcome # "NONE"
      /\ Reconcile(t, at[c].seq)
      /\ IF last + 1 # at[c].seq /\ history'[t][last].to # "COMPLETE"
         THEN GoTo(c, "DISPATCH", t, last + 1) /\ UNCHANGED seen
         ELSE Answer(c)
      /\ UNCHANGED <<roles, tree, manual, completed, paused, disturbed>>

(***************************************************************************)
(* The executor (packages/codex-adapter/src/live-execution.ts).            *)
(***************************************************************************)
AuthorizationCurrent(t, seq) ==
  /\ receipt[t] \in {"RESERVED", "ACTIVE"}
  /\ Sequence(t) = seq
  /\ ~NeedsHuman(t)

SetRole(t, seq, new) == roles' = [roles EXCEPT ![t][Round(t, seq)] = new]

(* The run of a role is created once; a caller that finds it created and   *)
(* not yet started shares it.                                              *)
MayReserve(t, seq) ==
  /\ AuthorizationCurrent(t, seq)
  /\ \/ Role(t, seq).phase = "CREATED" /\ ~Role(t, seq).bound
     \/ /\ Role(t, seq).phase = "AUTHORIZED"
        /\ Cardinality({u \in Tasks : Running(u)}) < MaxActive
        /\ RoleWrites(t, Stage(t)) => ~\E u \in Tasks : WriteRunning(u)
        /\ ~Running(t)

Reserve(c) ==
  LET t == at[c].task
      seq == at[c].seq
  IN  /\ pc[c] = "RESERVE"
      /\ IF MayReserve(t, seq)
         THEN SetRole(t, seq, [Role(t, seq) EXCEPT !.phase = "CREATED"]) /\ Continue(c, "CLAIM")
         ELSE Answer(c) /\ UNCHANGED roles
      /\ UNCHANGED <<workflowVars, receipt, tree, manual, completed, paused, disturbed>>

CandidateUnchanged(t, seq) == CandidateIsClean(t) /\ tree[t].head = Role(t, seq).base

(* Faulty: won again by everyone who finds the run not started.            *)
MayClaimAgain(t, seq) ==
  /\ AuthorizationCurrent(t, seq)
  /\ Role(t, seq).phase = "CREATED" /\ ~Role(t, seq).bound
  /\ CandidateUnchanged(t, seq)

MayClaim(t, seq) ==
  /\ AuthorizationCurrent(t, seq)
  /\ Role(t, seq).phase = "CREATED" /\ ~Role(t, seq).bound
  /\ CandidateUnchanged(t, seq)
  /\ ~Role(t, seq).claimed

(* Only one caller starts the provider; the others end without a trace.    *)
Claim(c) ==
  LET t == at[c].task
      seq == at[c].seq
  IN  /\ pc[c] = "CLAIM"
      /\ IF MayClaim(t, seq)
         THEN SetRole(t, seq, [Role(t, seq) EXCEPT !.claimed = TRUE]) /\ Continue(c, "BIND")
         ELSE Answer(c) /\ UNCHANGED roles
      /\ UNCHANGED <<workflowVars, receipt, tree, manual, completed, paused, disturbed>>

MayBind(t, seq) == AuthorizationCurrent(t, seq) /\ Role(t, seq).phase = "CREATED"

BindThread(c) ==
  LET t == at[c].task
      seq == at[c].seq
  IN  /\ pc[c] = "BIND"
      /\ IF MayBind(t, seq)
         THEN SetRole(t, seq, [Role(t, seq) EXCEPT !.bound = TRUE]) /\ Continue(c, "VALIDATE")
         ELSE Continue(c, "FAIL") /\ UNCHANGED roles
      /\ UNCHANGED <<workflowVars, receipt, tree, manual, completed, paused, disturbed>>

(* The last check before the turn is sent to the provider.                 *)
ValidateTurnStart(c) ==
  LET t == at[c].task
      seq == at[c].seq
  IN  /\ pc[c] = "VALIDATE"
      /\ Continue(c, IF MayBind(t, seq) /\ CandidateUnchanged(t, seq) THEN "START" ELSE "FAIL")
      /\ UNCHANGED <<storeVars, paused, disturbed>>

StartRun(c) ==
  LET t == at[c].task
      seq == at[c].seq
  IN  /\ pc[c] = "START"
      /\ IF MayBind(t, seq)
         THEN SetRole(t, seq, [Role(t, seq) EXCEPT !.phase = "RUNNING"]) /\ Continue(c, "TURN")
         ELSE Continue(c, "FAIL") /\ UNCHANGED roles
      /\ UNCHANGED <<workflowVars, receipt, tree, manual, completed, paused, disturbed>>

(* What a provider leaves in the checkout: a role that writes may change   *)
(* it and commits or lets the coordinator commit, the others must not.     *)
MayPersist(t, seq) ==
  /\ AuthorizationCurrent(t, seq)
  /\ Role(t, seq).phase = "RUNNING"
  /\ tree[t].held
  /\ tree[t].head = Role(t, seq).base
  /\ RoleWrites(t, Stage(t)) \/ ~tree[t].dirty

PersistResult(c) ==
  LET t == at[c].task
      seq == at[c].seq
      writes == RoleWrites(t, Stage(t))
  IN  /\ pc[c] = "TURN"
      /\ IF MayPersist(t, seq)
         THEN /\ \E outcome \in Outcomes(Stage(t)), works \in (IF writes THEN Works ELSE {FALSE}) :
                   LET head == IF works \/ tree[t].dirty THEN Fresh(t) ELSE tree[t].head
                   IN  /\ SetRole(t, seq, [Role(t, seq) EXCEPT !.phase = "SUCCEEDED",
                                                               !.outcome = outcome,
                                                               !.head = head])
                       /\ tree' = [tree EXCEPT ![t].head = head, ![t].dirty = FALSE]
              /\ Continue(c, "RECONCILE")
         ELSE Continue(c, "FAIL") /\ UNCHANGED <<roles, tree>>
      /\ UNCHANGED <<workflowVars, receipt, manual, completed, paused, disturbed>>

TurnFails(c) ==
  /\ pc[c] \in {"BIND", "VALIDATE", "START", "TURN"}
  /\ Continue(c, "FAIL")
  /\ UNCHANGED <<storeVars, paused, disturbed>>

ReconcileResult(c) ==
  /\ pc[c] = "RECONCILE"
  /\ Reconcile(at[c].task, at[c].seq)
  /\ Answer(c)
  /\ UNCHANGED <<roles, tree, manual, completed, paused, disturbed>>

FinalizeFailed(c) ==
  LET t == at[c].task
      seq == at[c].seq
  IN  /\ pc[c] = "FAIL"
      /\ SetRole(t, seq, [Role(t, seq) EXCEPT !.phase = "FAILED"])
      /\ Answer(c)
      /\ UNCHANGED <<workflowVars, receipt, tree, manual, completed, paused, disturbed>>

(***************************************************************************)
(* People, other programs and the death of a caller.                       *)
(***************************************************************************)
Disturb == disturbed < MaxDisturbed /\ disturbed' = disturbed + 1

AuthorizeManualStart(t) ==
  /\ AwaitsHuman(t)
  /\ Stage(t) \in {"MATERIALIZE", "EXECUTE"} /\ board[t].status = "TODO" /\ ~NeedsHuman(t)
  /\ manual' = manual \cup {t}
  /\ UNCHANGED <<workflowVars, receipt, roles, tree, completed, paused, callerVars, disturbed>>

Pause(t) ==
  /\ t \notin paused
  /\ Disturb
  /\ paused' = paused \cup {t}
  /\ UNCHANGED <<storeVars, callerVars>>

Unpause(t) ==
  /\ t \in paused
  /\ paused' = paused \ {t}
  /\ UNCHANGED <<storeVars, callerVars, disturbed>>

AskForReplan ==
  /\ ~completed
  /\ Disturb
  /\ RequestGraphChange
  /\ UNCHANGED <<receipt, roles, tree, manual, completed, paused, callerVars>>

(* Somebody else edits a checkout or commits in it.                        *)
Drift(t) ==
  /\ tree[t].held /\ ~completed
  /\ Disturb
  /\ \/ tree' = [tree EXCEPT ![t].dirty = ~@]
     \/ tree' = [tree EXCEPT ![t].head = Fresh(t)]
  /\ UNCHANGED <<workflowVars, receipt, roles, manual, completed, paused, callerVars>>

(* A caller dies; a commit that its open transaction made in the checkout  *)
(* stays although the transaction does not.                                *)
Crash(c) ==
  /\ pc[c] # "IDLE"
  /\ Disturb
  /\ Answer(c)
  /\ \/ UNCHANGED tree
     \/ /\ pc[c] = "TURN" /\ MayPersist(at[c].task, at[c].seq)
        /\ RoleWrites(at[c].task, Stage(at[c].task))
        /\ tree' = [tree EXCEPT ![at[c].task].head = Fresh(at[c].task),
                                ![at[c].task].dirty = FALSE]
  /\ UNCHANGED <<workflowVars, receipt, roles, manual, completed, paused>>

Preparing(c) ==
  \/ Prepare(c) \/ EnterExecution(c)
  \/ ReserveDispatch(c) \/ ResumeDispatch(c) \/ KeepDispatch(c)
  \/ AuthorizeCurrentRole(c) \/ InspectRole(c) \/ ReconcileFound(c)

Executing(c) ==
  \/ Reserve(c) \/ Claim(c) \/ BindThread(c) \/ ValidateTurnStart(c) \/ StartRun(c)
  \/ PersistResult(c) \/ ReconcileResult(c) \/ FinalizeFailed(c)

Next ==
  \/ \E c \in Callers : Preparing(c) \/ Executing(c) \/ TurnFails(c) \/ Crash(c)
  \/ \E t \in Tasks : AuthorizeManualStart(t) \/ Pause(t) \/ Unpause(t) \/ Drift(t)
  \/ AskForReplan

Spec == Init /\ [][Next]_vars

(* Callers that are asked again and again and never die.                   *)
DrivenSpec == Spec /\ \A c \in Callers : WF_vars(Preparing(c) \/ Executing(c))

(***************************************************************************)
(* Properties.                                                             *)
(***************************************************************************)
MaxSequence(t) == EntrySequence(t) + 4 + 2 * Limit[t]
Heads == 0 .. (8 + MaxDisturbed)

RoleRecords ==
  [base : Heads, head : Heads, bound : BOOLEAN, claimed : BOOLEAN,
   phase : {"AUTHORIZED", "CREATED", "RUNNING", "SUCCEEDED", "FAILED"},
   outcome : {"NONE", "READY", "PASS", "BLOCKING_FAIL", "BLOCKED"}]

(* The kinds of values that the variables hold.                            *)
TypeOK ==
  /\ \A t \in Tasks : /\ Sequence(t) <= MaxSequence(t)
                      /\ \A n \in 1 .. Len(history[t]) :
                           history[t][n].to \in Stages /\ history[t][n].cycles <= Limit[t]
                      /\ \A k \in 1 .. Len(roles[t]) : roles[t][k] \in RoleRecords
  /\ demand \in [Tasks -> {NoDemand} \cup [to : Stages, facts : UNION {[codes -> {"PASS", "BLOCKING_FAIL"}] : codes \in {{code} : code \in QaCodes}}]]
  /\ board \in [Tasks -> [status : Statuses, maturity : Maturities]]
  /\ receipt \in [Tasks -> {"NONE", "RESERVED", "ACTIVE", "PAUSED", "COMPLETED", "HUMAN_REQUIRED"}]
  /\ tree \in [Tasks -> [held : BOOLEAN, head : Heads, dirty : BOOLEAN]]
  /\ manual \subseteq Manual /\ paused \subseteq Tasks
  /\ {replan, completed} \subseteq BOOLEAN
  /\ pc \in [Callers -> {"IDLE", "ENTER", "DISPATCH", "ROLE", "RESERVE", "CLAIM", "BIND",
                         "VALIDATE", "START", "TURN", "RECONCILE", "FAIL"}]

(* Two callers never both start the provider for one role, whatever they   *)
(* read and shared before: the claim is won once, and a role that has a    *)
(* provider at work is claimed (claimRoleProviderExecution).               *)
OneProvider ==
  \A c, d \in Callers :
    pc[c] \in {"BIND", "VALIDATE", "START", "TURN", "FAIL"} =>
      /\ Role(at[c].task, at[c].seq).claimed
      /\ (pc[d] \in {"BIND", "VALIDATE", "START", "TURN", "FAIL"} /\ at[c] = at[d]) => c = d

Writes(t, k) == RoleWrites(t, StageBefore(t, k + EntrySequence(t) - 1))

(* The candidate passes from role to role without a gap: each role began   *)
(* on what its predecessor left, those that only judge left it as it was,  *)
(* and the one that completed the Subtask judged the last commit of it.    *)
(* A change by anyone else in between stops the Subtask.                   *)
CandidateChain ==
  \A t \in Tasks : \A k \in 1 .. Len(roles[t]) :
    /\ k > 1 => roles[t][k].base = roles[t][k - 1].head
    /\ (roles[t][k].phase = "SUCCEEDED" /\ ~Writes(t, k)) => roles[t][k].head = roles[t][k].base
    /\ Stage(t) = "COMPLETE" => roles[t][Len(roles[t])].outcome = "PASS"

(* One dispatch at most that is not paused may write, although dispatches  *)
(* of paused Subtasks give up their slot and take it back later.           *)
OneWriteDispatch ==
  Cardinality({t \in Writers : receipt[t] \in {"RESERVED", "ACTIVE"}}) <= 1

(* A Subtask with a ready dependency and a free Project starts, unless a   *)
(* human is needed.                                                        *)
ReadyWorkStarts ==
  \A t \in Tasks :
    (Ready(t) /\ board[t].status = "TODO") ~> board[t].status # "TODO"
=============================================================================
