--------------------------- MODULE WorkflowRules ---------------------------
(***************************************************************************)
(* The pure rules of a Subtask's workflow: which stage follows which, what *)
(* evidence a transition needs, how many repairs are allowed, which board  *)
(* status and maturity fit a stage, and when a dependency is satisfied.    *)
(* They are the functions of packages/orchestration and packages/domain;   *)
(* the state that they judge is kept by SubtaskWorkflow.                   *)
(*                                                                         *)
(* Facts are a function from evidence codes to outcomes.  A code that is   *)
(* not in the domain is evidence nobody supplied; a Boolean fact is "PASS" *)
(* or "FAIL", a quality assurance fact "PASS", "BLOCKING_FAIL" or          *)
(* "NOT_RUN".                                                              *)
(***************************************************************************)
EXTENDS Naturals, Sequences, FiniteSets

Profiles == {"LOW", "STANDARD", "HIGH_RISK_FOUNDATION"}

Stages == {"PLAN", "REVIEW", "MATERIALIZE", "EXECUTE", "VERIFY", "HARDEN",
           "FRESH_QA", "REPAIR", "FOCUSED_RE_QA", "COMPLETE"}

NoStage == "NO_STAGE"

RepairStages == {"REPAIR", "FOCUSED_RE_QA"}
QaStages     == {"FRESH_QA", "FOCUSED_RE_QA"}

(***************************************************************************)
(* Stages and the evidence that a transition requires.                     *)
(***************************************************************************)
StagePath(profile) ==
  CASE profile = "LOW" -> <<"EXECUTE", "VERIFY", "COMPLETE">>
    [] profile = "STANDARD" ->
         <<"PLAN", "REVIEW", "MATERIALIZE", "EXECUTE", "VERIFY", "COMPLETE">>
    [] profile = "HIGH_RISK_FOUNDATION" ->
         <<"PLAN", "REVIEW", "MATERIALIZE", "EXECUTE", "HARDEN", "FRESH_QA",
           "COMPLETE">>

InitialStage(profile) == IF profile = "LOW" THEN "EXECUTE" ELSE "MATERIALIZE"

NextStageFor(profile, stage) ==
  LET path      == StagePath(profile)
      following == {path[i + 1] : i \in {j \in 1 .. Len(path) - 1 : path[j] = stage}}
  IN  IF following = {} THEN NoStage ELSE CHOOSE next \in following : TRUE

GateCodes == {"REPOSITORY_PREFLIGHT_PASSED", "CONTEXT_PREFLIGHT_PASSED",
              "BUDGET_AVAILABLE", "CONCURRENCY_AVAILABLE",
              "WORKTREE_OWNERSHIP_AVAILABLE", "HUMAN_APPROVAL_SATISFIED"}

ExecutionEntryEvidence == GateCodes \cup {"GRAPH_MATERIALIZED", "DEPENDENCIES_READY"}

QaCode(stage) == IF stage = "FRESH_QA" THEN "FRESH_QA_OUTCOME_RECORDED"
                 ELSE "FOCUSED_RE_QA_OUTCOME_RECORDED"

QaCodes == {"FRESH_QA_OUTCOME_RECORDED", "FOCUSED_RE_QA_OUTCOME_RECORDED"}

StandardRequirements(stage, next) ==
  CASE stage = "PLAN" /\ next = "REVIEW" -> {"PLAN_CANDIDATE_PRESENT"}
    [] stage = "REVIEW" /\ next = "MATERIALIZE" -> {"PLAN_REVIEW_SATISFIED"}
    [] stage = "MATERIALIZE" /\ next = "EXECUTE" -> ExecutionEntryEvidence
    [] stage = "EXECUTE" /\ next \in {"FRESH_QA", "VERIFY", "HARDEN"} ->
         {"EXECUTION_EVIDENCE_PASSED"}
    [] stage = "VERIFY" /\ next = "COMPLETE" -> {"VERIFICATION_EVIDENCE_PASSED"}
    [] stage = "HARDEN" /\ next = "FRESH_QA" -> {"HARDENING_EVIDENCE_PASSED"}
    [] stage = "REPAIR" /\ next = "FOCUSED_RE_QA" -> {"REPAIR_EVIDENCE_PASSED"}
    [] OTHER -> {}

EvidenceHolds(facts, code) ==
  /\ code \in DOMAIN facts
  /\ facts[code] \in (IF code \in QaCodes THEN {"PASS", "BLOCKING_FAIL"} ELSE {"PASS"})

OnlyRelevant(facts, required) == DOMAIN facts \subseteq required

MissingReason(missing) ==
  IF "DEPENDENCIES_READY" \in missing THEN "DEPENDENCY_BLOCKED"
  ELSE IF "BUDGET_AVAILABLE" \in missing THEN "BUDGET_BLOCKED"
  ELSE IF "CONCURRENCY_AVAILABLE" \in missing THEN "CONCURRENCY_BLOCKED"
  ELSE IF "HUMAN_APPROVAL_SATISFIED" \in missing THEN "AUTHORITY_BLOCKED"
  ELSE "EVIDENCE_BLOCKED"

(***************************************************************************)
(* The decision on one transition.                                         *)
(***************************************************************************)
Decision(kind, reason, next, cycles) ==
  [kind |-> kind, reason |-> reason, next |-> next, cycles |-> cycles]

Blocked(reason)        == Decision("BLOCKED", reason, NoStage, 0)
HumanRequired(reason)  == Decision("HUMAN_REQUIRED", reason, NoStage, 0)
Eligible(next, cycles) == Decision("ELIGIBLE", "NONE", next, cycles)

CyclesFit(profile, stage, cycles, limit) ==
  /\ cycles <= limit
  /\ IF profile = "LOW" THEN cycles = 0
     ELSE IF stage \in RepairStages THEN cycles \in {1, 2}
     ELSE stage = "COMPLETE" \/ cycles = 0

(* A blocking verdict asks for another repair while the limit allows one.  *)
RepairsExhausted(stage, cycles, limit) ==
  IF stage = "FRESH_QA" THEN limit = 0 ELSE cycles >= limit

ExpectedNext(profile, stage, requested, facts) ==
  IF profile # "LOW" /\ stage \in QaStages
  THEN IF facts[QaCode(stage)] = "BLOCKING_FAIL" THEN "REPAIR" ELSE "COMPLETE"
  ELSE IF profile # "LOW" /\ stage = "REPAIR" THEN "FOCUSED_RE_QA"
  ELSE IF profile = "STANDARD" /\ stage = "EXECUTE" /\ requested = "FRESH_QA"
  THEN "FRESH_QA"
  ELSE NextStageFor(profile, stage)

RequiredEvidence(profile, stage, next) ==
  IF profile # "LOW" /\ stage \in QaStages THEN {QaCode(stage)}
  ELSE StandardRequirements(stage, next)

CyclesAfter(stage, next, cycles) ==
  IF next # "REPAIR" THEN cycles ELSE IF stage = "FRESH_QA" THEN 1 ELSE 2

(* The judgement of a stage other than an inconclusive quality assurance.  *)
JudgeNext(profile, stage, requested, facts, cycles) ==
  LET next     == ExpectedNext(profile, stage, requested, facts)
      required == RequiredEvidence(profile, stage, next)
      missing  == {code \in required : ~EvidenceHolds(facts, code)}
  IN  IF ~OnlyRelevant(facts, required) THEN Blocked("INVALID_INPUT")
      ELSE IF next = NoStage \/ requested # next \/ stage = "COMPLETE"
      THEN Blocked("INVALID_STAGE_TRANSITION")
      ELSE IF missing = {} THEN Eligible(next, CyclesAfter(stage, next, cycles))
      ELSE IF MissingReason(missing) = "AUTHORITY_BLOCKED"
      THEN HumanRequired("AUTHORITY_BLOCKED")
      ELSE Blocked(MissingReason(missing))

JudgeQa(profile, stage, requested, facts, cycles, limit) ==
  IF ~OnlyRelevant(facts, {QaCode(stage)}) THEN Blocked("INVALID_INPUT")
  ELSE IF ~EvidenceHolds(facts, QaCode(stage)) THEN Blocked("EVIDENCE_BLOCKED")
  ELSE IF /\ facts[QaCode(stage)] = "BLOCKING_FAIL"
          /\ RepairsExhausted(stage, cycles, limit)
  THEN HumanRequired("REPAIR_REQA_EXHAUSTED")
  ELSE JudgeNext(profile, stage, requested, facts, cycles)

EvaluateStageTransition(profile, stage, requested, facts, cycles, limit) ==
  IF ~CyclesFit(profile, stage, cycles, limit) THEN Blocked("INVALID_INPUT")
  ELSE IF profile # "LOW" /\ stage \in QaStages
  THEN JudgeQa(profile, stage, requested, facts, cycles, limit)
  ELSE JudgeNext(profile, stage, requested, facts, cycles)

(***************************************************************************)
(* Board status and maturity.                                              *)
(***************************************************************************)
Statuses   == {"TODO", "IN_PROGRESS", "QA_DEBUG", "DONE", "DROPPED", "ARCHIVED"}
Maturities == {"NOT_STARTED", "IMPLEMENTED", "HARDENED", "ACCEPTED"}

StatusMoves == {<<"TODO", "IN_PROGRESS">>, <<"TODO", "DROPPED">>,
                <<"IN_PROGRESS", "QA_DEBUG">>, <<"IN_PROGRESS", "DROPPED">>,
                <<"QA_DEBUG", "IN_PROGRESS">>, <<"QA_DEBUG", "DONE">>,
                <<"QA_DEBUG", "DROPPED">>, <<"DONE", "ARCHIVED">>,
                <<"DROPPED", "ARCHIVED">>}

(* What a status change requires besides being one of the moves.           *)
MovePrerequisites(from, to) ==
  CASE from = "TODO" /\ to = "IN_PROGRESS" ->
         {"DEPENDENCIES_READY", "REPOSITORY_PREFLIGHT_PASSED",
          "CONTEXT_PREFLIGHT_PASSED", "CONCURRENCY_AVAILABLE"}
    [] from = "IN_PROGRESS" /\ to = "QA_DEBUG" -> {"IMPLEMENTATION_CHECKPOINT_PRESENT"}
    [] from = "QA_DEBUG" /\ to = "DONE" ->
         {"REQUIRED_TESTS_PASSED", "NO_UNRESOLVED_BLOCKING_FINDING",
          "HANDOFF_PRESENT", "PROMOTED_CONTEXT_DISPOSITION_RECORDED"}
    [] OTHER -> {}

StatusMayMove(from, to, shown) ==
  <<from, to>> \in StatusMoves /\ MovePrerequisites(from, to) \subseteq shown

MaturityMayMove(from, to, independentQa) ==
  \/ <<from, to>> \in {<<"NOT_STARTED", "IMPLEMENTED">>, <<"IMPLEMENTED", "HARDENED">>,
                       <<"HARDENED", "ACCEPTED">>}
  \/ independentQa /\ from = "IMPLEMENTED" /\ to = "ACCEPTED"

CompleteMaturities(profile) ==
  CASE profile = "STANDARD" -> {"IMPLEMENTED", "ACCEPTED"}
    [] profile = "HIGH_RISK_FOUNDATION" -> {"ACCEPTED"}
    [] OTHER -> {"IMPLEMENTED"}

CompositionFits(stage, profile, status, maturity) ==
  CASE stage = "MATERIALIZE" -> status = "TODO" /\ maturity = "NOT_STARTED"
    [] stage = "EXECUTE" ->
         \/ status \in {"TODO", "IN_PROGRESS"} /\ maturity = "NOT_STARTED"
         \/ status = "QA_DEBUG" /\ maturity = "IMPLEMENTED"
    [] stage \in {"VERIFY", "HARDEN"} -> status = "QA_DEBUG" /\ maturity = "IMPLEMENTED"
    [] stage \in {"FRESH_QA", "REPAIR", "FOCUSED_RE_QA"} ->
         /\ status = "QA_DEBUG"
         /\ maturity \in {"HARDENED"} \cup (IF profile = "STANDARD" THEN {"IMPLEMENTED"} ELSE {})
    [] stage = "COMPLETE" -> status = "DONE" /\ maturity \in CompleteMaturities(profile)
    [] OTHER -> FALSE

(***************************************************************************)
(* Dependencies between Subtasks.  An edge is a record of the two          *)
(* Subtasks, the type and the gate that the upstream one must reach.       *)
(***************************************************************************)
Gates == {"NONE", "VERIFIED", "HARDENED", "ACCEPTED"}

GateSatisfied(gate, maturity, verified) ==
  CASE gate = "NONE" -> TRUE
    [] gate = "VERIFIED" -> verified
    [] gate = "HARDENED" -> maturity \in {"HARDENED", "ACCEPTED"}
    [] gate = "ACCEPTED" -> maturity = "ACCEPTED"

DependenciesReady(edges, task, maturity, verified) ==
  \A e \in edges :
    (e.type = "BLOCKING" /\ e.down = task)
      => GateSatisfied(e.gate, maturity[e.up], verified[e.up])

(* The Subtasks left when those without an unvisited blocker are visited   *)
(* one after the other: those of a set each of which has a blocker in it.  *)
CycleMembers(tasks, edges) ==
  UNION {left \in SUBSET tasks :
           \A task \in left : \E e \in edges : e.down = task /\ e.up \in left}

DependenciesValid(tasks, owner, edges) ==
  /\ \A e \in edges : /\ e.up # e.down
                      /\ {e.up, e.down} \subseteq tasks
                      /\ owner[e.up] = owner[e.down]
  /\ \A e, f \in edges : (e.up = f.up /\ e.down = f.down) => e = f
  /\ CycleMembers(tasks, {e \in edges : e.type = "BLOCKING"}) = {}

(* A Big Task is complete when every Subtask is, and none without work.    *)
BigTaskCompletionEligible(tasks, stage, maturity) ==
  /\ \A task \in tasks : stage[task] = "COMPLETE" => maturity[task] # "NOT_STARTED"
  /\ \A task \in tasks : stage[task] = "COMPLETE"
=============================================================================
