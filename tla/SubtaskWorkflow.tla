--------------------------- MODULE SubtaskWorkflow ---------------------------
(***************************************************************************)
(* The durable workflow of the Subtasks of one Big Task: the recorded      *)
(* stage transitions, the unresolved demands for a human, and the board    *)
(* status and maturity they carry along (packages/storage/src/             *)
(* task-storage.ts).  Every read of a workflow replays its whole history   *)
(* and rejects it when one step is not what the rules of WorkflowRules     *)
(* decide, with the readiness of the dependencies evaluated at the read.   *)
(*                                                                         *)
(* The operations are called inside the transactions of GovernedWorkflow.  *)
(* An operation that does not succeed leaves no trace, so it is no step.   *)
(***************************************************************************)
EXTENDS WorkflowRules

CONSTANTS Order,      \* the Subtasks of the Big Task, in the order of the plan
          Profile,    \* the workflow profile of each
          Edges,      \* the dependencies between them
          Limit       \* how many repairs the approval allows for each

Tasks == {Order[i] : i \in 1 .. Len(Order)}

ASSUME OrderAssumption   == /\ Order \in Seq(Tasks)
                            /\ \A i, j \in 1 .. Len(Order) : Order[i] = Order[j] => i = j
ASSUME ProfileAssumption == Profile \in [Tasks -> Profiles]
ASSUME LimitAssumption   == Limit \in [Tasks -> 0 .. 2]
ASSUME EdgesAssumption   == /\ DependenciesValid(Tasks, [t \in Tasks |-> "BIG_TASK"], Edges)
                            /\ \A e \in Edges : e.gate \in Gates

VARIABLES history,    \* the recorded transitions of each Subtask
          demand,     \* the unresolved demand for a human of each Subtask
          replan,     \* whether a change of the whole graph was asked for
          board       \* the status and maturity of each Subtask

workflowVars == <<history, demand, replan, board>>

NoDemand == [to |-> NoStage, facts |-> << >>]

WorkflowInit ==
  /\ history = [t \in Tasks |-> << >>]
  /\ demand  = [t \in Tasks |-> NoDemand]
  /\ replan  = FALSE
  /\ board   = [t \in Tasks |-> [status |-> "TODO", maturity |-> "NOT_STARTED"]]

(***************************************************************************)
(* The views of the stored workflow.                                       *)
(***************************************************************************)
StageBefore(t, n)  == IF n = 1 THEN InitialStage(Profile[t]) ELSE history[t][n - 1].to
CyclesBefore(t, n) == IF n = 1 THEN 0 ELSE history[t][n - 1].cycles

Sequence(t) == Len(history[t]) + 1
Stage(t)    == StageBefore(t, Sequence(t))
Cycles(t)   == CyclesBefore(t, Sequence(t))

NeedsHuman(t) == demand[t] # NoDemand \/ replan

Ready(t) == DependenciesReady(Edges, t, [u \in Tasks |-> board[u].maturity],
                              [u \in Tasks |-> Stage(u) = "COMPLETE"])

(* Entering execution adds the two facts that storage itself decides.      *)
Stored(t, stage, facts) ==
  IF stage # "MATERIALIZE" THEN facts
  ELSE [code \in DOMAIN facts \cup {"GRAPH_MATERIALIZED", "DEPENDENCIES_READY"} |->
          IF code = "GRAPH_MATERIALIZED" THEN "PASS"
          ELSE IF code = "DEPENDENCIES_READY" THEN (IF Ready(t) THEN "PASS" ELSE "FAIL")
          ELSE facts[code]]

Decide(t, n, to, facts) ==
  EvaluateStageTransition(Profile[t], StageBefore(t, n), to,
                          Stored(t, StageBefore(t, n), facts), CyclesBefore(t, n), Limit[t])

(* The readiness of a Subtask reads the workflow of the upstream Subtask   *)
(* of every VERIFIED edge, hence all histories, and each recorded entry    *)
(* into execution reads readiness again.  With both, no read returns: the  *)
(* entry is undone by the read that should return its view.                *)
EntryReadsItself(t) ==
  Stage(t) = "MATERIALIZE" /\ \E e \in Edges : e.gate = "VERIFIED"

StepReadable(t, n) ==
  LET step == history[t][n]
  IN  Decide(t, n, step.to, step.facts) = Eligible(step.to, step.cycles)

DemandReadable(t) ==
  demand[t] # NoDemand =>
    /\ ~replan
    /\ Decide(t, Sequence(t), demand[t].to, demand[t].facts).kind = "HUMAN_REQUIRED"

(* The maturity of a completed Subtask tells who accepted it.              *)
MaturityReadable(t) ==
  (Stage(t) = "COMPLETE" /\ Profile[t] = "STANDARD") =>
    board[t].maturity = (IF StageBefore(t, Sequence(t) - 1) \in QaStages
                         THEN "ACCEPTED" ELSE "IMPLEMENTED")

Readable(t) ==
  /\ \A n \in 1 .. Len(history[t]) : StepReadable(t, n)
  /\ DemandReadable(t)
  /\ MaturityReadable(t)
  /\ CompositionFits(Stage(t), Profile[t], board[t].status, board[t].maturity)

(***************************************************************************)
(* Changes of the workflow.                                                *)
(***************************************************************************)
NextMaturity(t, to) ==
  IF Stage(t) = "HARDEN" /\ to = "FRESH_QA" THEN "HARDENED"
  ELSE IF to = "COMPLETE" /\ Stage(t) \in QaStages THEN "ACCEPTED"
  ELSE board[t].maturity

Composed(t, to) ==
  [status   |-> IF to = "COMPLETE" THEN "DONE" ELSE board[t].status,
   maturity |-> NextMaturity(t, to)]

(* The board moves with the stage, and never past what it allows.          *)
LifecycleAllows(t, to, shown) ==
  /\ CompositionFits(Stage(t), Profile[t], board[t].status, board[t].maturity)
  /\ Stage(t) = "EXECUTE" => board[t] = [status |-> "QA_DEBUG", maturity |-> "IMPLEMENTED"]
  /\ to = "COMPLETE" => StatusMayMove(board[t].status, "DONE", shown)
  /\ NextMaturity(t, to) # board[t].maturity =>
       MaturityMayMove(board[t].maturity, NextMaturity(t, to), to = "COMPLETE")
  /\ CompositionFits(to, Profile[t], Composed(t, to).status, Composed(t, to).maturity)

(* Faulty: the count of repairs before the step.                           *)
RecordOldCycles(t, to, cycles, facts) ==
  history' = [history EXCEPT ![t] = Append(@, [to |-> to, cycles |-> Cycles(t), facts |-> facts])]

Record(t, to, cycles, facts) ==
  history' = [history EXCEPT ![t] = Append(@, [to |-> to, cycles |-> cycles, facts |-> facts])]

MayAdvance(t, to, facts, shown) ==
  /\ ~NeedsHuman(t)
  /\ Decide(t, Sequence(t), to, facts).kind = "ELIGIBLE"
  /\ LifecycleAllows(t, to, shown)
  /\ ~EntryReadsItself(t)

(* advanceDurableWorkflow, when the rules let the Subtask go on.           *)
AdvanceDurableWorkflow(t, to, facts, shown) ==
  /\ MayAdvance(t, to, facts, shown)
  /\ Record(t, to, Decide(t, Sequence(t), to, facts).cycles, facts)
  /\ board' = [board EXCEPT ![t] = Composed(t, to)]
  /\ UNCHANGED <<demand, replan>>

(* advanceDurableWorkflow, when the rules leave the decision to a human.   *)
RequireHuman(t, to, facts) ==
  /\ ~NeedsHuman(t)
  /\ Decide(t, Sequence(t), to, facts).kind = "HUMAN_REQUIRED"
  /\ demand' = [demand EXCEPT ![t] = [to |-> to, facts |-> facts]]
  /\ UNCHANGED <<history, replan, board>>

(* requestDurableMaterializedGraphChange: the graph is never changed, the  *)
(* request stops the Big Task for a new plan.                              *)
RequestGraphChange ==
  /\ \A t \in Tasks : ~NeedsHuman(t)
  /\ replan' = TRUE
  /\ UNCHANGED <<history, demand, board>>

(* The insertion of a dispatch receipt starts the Subtask on the board.    *)
StartOnBoard(t) ==
  /\ StatusMayMove(board[t].status, "IN_PROGRESS",
                   MovePrerequisites("TODO", "IN_PROGRESS"))
  /\ board' = [board EXCEPT ![t].status = "IN_PROGRESS"]

(* completeSubtaskImplementation together with the step that its           *)
(* checkpoint is the evidence of, in one transaction.                      *)
CompleteImplementation(t, to) ==
  LET facts    == [code \in {"EXECUTION_EVIDENCE_PASSED"} |-> "PASS"]
      decision == Decide(t, Sequence(t), to, facts)
  IN  /\ ~NeedsHuman(t)
      /\ board[t] = [status |-> "IN_PROGRESS", maturity |-> "NOT_STARTED"]
      /\ decision.kind = "ELIGIBLE"
      /\ CompositionFits(to, Profile[t], "QA_DEBUG", "IMPLEMENTED")
      /\ Record(t, to, decision.cycles, facts)
      /\ board' = [board EXCEPT ![t] = [status |-> "QA_DEBUG", maturity |-> "IMPLEMENTED"]]
      /\ UNCHANGED <<demand, replan>>

(***************************************************************************)
(* Properties.                                                             *)
(***************************************************************************)
(* Whatever the callers did, the history that storage wrote is accepted by *)
(* the replay of every later read, which judges each old step by the       *)
(* dependencies and the board of today; otherwise no command could ever    *)
(* read the Big Task again (#readWorkflowControlViews).                    *)
HistoryReadable == \A t \in Tasks : Readable(t)
=============================================================================
