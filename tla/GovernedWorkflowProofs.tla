----------------------- MODULE GovernedWorkflowProofs -----------------------
(***************************************************************************)
(* Theorems about GovernedWorkflow, for every number of callers, Subtasks, *)
(* repairs and disturbances: one caller at most runs the provider of a     *)
(* role, the candidate passes from role to role without a gap, one         *)
(* dispatch may write and two are open at most, every history that storage *)
(* wrote is accepted by every later read, dependencies stay satisfied,     *)
(* results final and repairs within their limit.                           *)
(***************************************************************************)
EXTENDS GovernedWorkflow, FiniteSetTheorems, WellFoundedInduction, TLAPS

-----------------------------------------------------------------------------
(***************************************************************************)
(* The workflow of the Subtasks: what it holds, and that it only grows.    *)
(***************************************************************************)

IsSequence(s) == \E S : s \in Seq(S)

Later == {"VERIFY", "HARDEN", "FRESH_QA", "REPAIR", "FOCUSED_RE_QA", "COMPLETE"}

(* A Subtask enters execution once, and nothing follows its completion.    *)
ShapeOK(t) ==
  \A n \in 1 .. Len(history[t]) :
    /\ history[t][n].to \in (IF n + 1 = EntrySequence(t) THEN {"EXECUTE"} ELSE Later)
    /\ n < Len(history[t]) => history[t][n].to # "COMPLETE"

(* A human is asked about the result of a role, not about the entry.       *)
DemandOK(t) == demand[t] # NoDemand => Stage(t) # "MATERIALIZE"

Boards == [status : Statuses, maturity : Maturities]

WorkflowTypes ==
  /\ history = [t \in Tasks |-> history[t]]
  /\ \A t \in Tasks : IsSequence(history[t])
  /\ demand = [t \in Tasks |-> demand[t]]
  /\ replan \in BOOLEAN
  /\ board \in [Tasks -> Boards]

WorkflowInv == WorkflowTypes /\ \A t \in Tasks : ShapeOK(t) /\ DemandOK(t) /\ Readable(t)

(***************************************************************************)
(* Roles.                                                                  *)
(***************************************************************************)
IsRole(r) ==
  r = [base |-> r.base, head |-> r.head, phase |-> r.phase, bound |-> r.bound,
       claimed |-> r.claimed, outcome |-> r.outcome]

IsTree(r) == r = [held |-> r.held, head |-> r.head, dirty |-> r.dirty]

(* The stage that the k-th role of a Subtask carries out.                  *)
RoleStage(t, k) == StageBefore(t, k + EntrySequence(t) - 1)

RoleOK(t, k) ==
  /\ IsRole(roles[t][k])
  /\ roles[t][k].outcome \in {"NONE"} \cup Outcomes(RoleStage(t, k))
  /\ k > 1 => roles[t][k].base = roles[t][k - 1].head
  /\ (roles[t][k].phase = "SUCCEEDED" /\ ~Writes(t, k)) => roles[t][k].head = roles[t][k].base

(* There is at most one role for the stage of now, and one for each stage  *)
(* before; a completed Subtask has no role after the one that judged it.   *)
RolesOK(t) ==
  /\ Len(roles[t]) \in {Round(t, Sequence(t)) - 1, Round(t, Sequence(t))}
  /\ \A k \in 1 .. Len(roles[t]) : RoleOK(t, k)
  /\ Stage(t) = "COMPLETE" => /\ Len(roles[t]) = Round(t, Sequence(t)) - 1
                              /\ LastRole(t).outcome = "PASS"

Receipts == {"NONE", "RESERVED", "ACTIVE", "PAUSED", "COMPLETED", "HUMAN_REQUIRED"}

StoreTypes ==
  /\ receipt \in [Tasks -> Receipts]
  /\ roles = [t \in Tasks |-> roles[t]]
  /\ \A t \in Tasks : IsSequence(roles[t])
  /\ tree = [t \in Tasks |-> tree[t]]
  /\ \A t \in Tasks : IsTree(tree[t])

(***************************************************************************)
(* Callers.                                                                *)
(***************************************************************************)
Preparation == {"ENTER", "DISPATCH", "ROLE"}
Provider    == {"BIND", "VALIDATE", "START", "TURN", "FAIL"}
Execution   == Provider \cup {"RESERVE", "CLAIM", "RECONCILE"}
Places      == {"IDLE"} \cup Preparation \cup Execution

CallerTypes ==
  /\ pc \in [Callers -> Places]
  /\ at = [c \in Callers |-> [task |-> at[c].task, seq |-> at[c].seq]]
  /\ seen = [c \in Callers |-> seen[c]]

(* What a caller read is old, but it was true once; and what it is about   *)
(* to carry out is there.                                                  *)
Fits(place, t, seq, views) ==
  /\ place # "IDLE" => t \in Tasks /\ seq \in 1 .. Sequence(t)
  /\ place \in Preparation => \A u \in Tasks : views[u] \in 1 .. Sequence(u)
  /\ place = "ENTER" => seq + 1 = EntrySequence(t)
  /\ place \in {"DISPATCH", "ROLE"} => seq >= EntrySequence(t)
  /\ place \in Execution => HasRole(t, seq)
  /\ place = "RECONCILE" => Role(t, seq).outcome # "NONE"
  /\ place \in Provider => Role(t, seq).claimed

CallerOK(c) == Fits(pc[c], at[c].task, at[c].seq, seen[c])

Alone(c, d) ==
  (pc[c] \in Provider /\ pc[d] \in Provider /\ at[c] = at[d]) => c = d

IInv ==
  /\ WorkflowInv
  /\ StoreTypes /\ \A t \in Tasks : RolesOK(t)
  /\ CallerTypes /\ \A c \in Callers : CallerOK(c)
  /\ \A c, d \in Callers : Alone(c, d)
-----------------------------------------------------------------------------
(***************************************************************************)
(* What the rules imply when they let a Subtask go on.                     *)
(***************************************************************************)

(* A transition that is eligible leads where the rules expect it to lead,  *)
(* and all evidence that they require is there.                            *)
LEMMA EligibleMeans ==
    ASSUME NEW profile, NEW stage, NEW requested, NEW facts, NEW cycles, NEW limit,
           EvaluateStageTransition(profile, stage, requested, facts, cycles, limit).kind
             = "ELIGIBLE"
    PROVE  LET decision == EvaluateStageTransition(profile, stage, requested, facts,
                                                   cycles, limit)
           IN  /\ decision = Eligible(requested, decision.cycles)
               /\ requested = ExpectedNext(profile, stage, requested, facts)
               /\ requested # NoStage /\ stage # "COMPLETE"
               /\ \A code \in RequiredEvidence(profile, stage, requested) :
                     EvidenceHolds(facts, code)
<1> DEFINE next     == ExpectedNext(profile, stage, requested, facts)
           required == RequiredEvidence(profile, stage, next)
           missing  == {code \in required : ~EvidenceHolds(facts, code)}
           judged   == JudgeNext(profile, stage, requested, facts, cycles)
           decision == EvaluateStageTransition(profile, stage, requested, facts, cycles, limit)
<1>1. \A reason : /\ Blocked(reason).kind = "BLOCKED"
                  /\ HumanRequired(reason).kind = "HUMAN_REQUIRED"
  BY DEF Blocked, HumanRequired, Decision
<1>2. decision = judged
  BY <1>1 DEF EvaluateStageTransition, JudgeQa
<1>3. /\ judged = Eligible(next, CyclesAfter(stage, next, cycles))
      /\ requested = next /\ next # NoStage /\ stage # "COMPLETE" /\ missing = {}
  BY <1>1, <1>2 DEF JudgeNext
<1> HIDE DEF decision, judged
<1>4. decision.cycles = CyclesAfter(stage, next, cycles)
  BY <1>2, <1>3 DEF Eligible, Decision
<1> QED BY <1>2, <1>3, <1>4 DEF decision

(* Only verification, and quality assurance that found nothing blocking,   *)
(* lead to completion.                                                     *)
LEMMA NextIsComplete ==
    ASSUME NEW profile \in Profiles, NEW stage, NextStageFor(profile, stage) = "COMPLETE"
    PROVE  IF profile = "HIGH_RISK_FOUNDATION" THEN stage = "FRESH_QA" ELSE stage = "VERIFY"
<1> DEFINE path == StagePath(profile)
           following == {path[i + 1] : i \in {j \in 1 .. Len(path) - 1 : path[j] = stage}}
<1>1. "COMPLETE" \in following
  BY DEF NextStageFor, NoStage
<1>2. PICK j \in 1 .. Len(path) - 1 : path[j] = stage /\ path[j + 1] = "COMPLETE"
  BY <1>1
<1>3. CASE profile = "LOW"
  <2>1. path = <<"EXECUTE", "VERIFY", "COMPLETE">>
    BY <1>3 DEF StagePath
  <2> HIDE DEF path
  <2> QED BY <1>2, <1>3, <2>1
<1>4. CASE profile = "STANDARD"
  <2>1. path = <<"PLAN", "REVIEW", "MATERIALIZE", "EXECUTE", "VERIFY", "COMPLETE">>
    BY <1>4 DEF StagePath
  <2> HIDE DEF path
  <2> QED BY <1>2, <1>4, <2>1
<1>5. CASE profile = "HIGH_RISK_FOUNDATION"
  <2>1. path = <<"PLAN", "REVIEW", "MATERIALIZE", "EXECUTE", "HARDEN", "FRESH_QA",
                 "COMPLETE">>
    BY <1>5 DEF StagePath
  <2> HIDE DEF path
  <2> QED BY <1>2, <1>5, <2>1
<1> QED BY <1>3, <1>4, <1>5 DEF Profiles

LEMMA CompletionMeans ==
    ASSUME NEW profile \in Profiles, NEW stage, NEW facts,
           ExpectedNext(profile, stage, "COMPLETE", facts) = "COMPLETE"
    PROVE  \/ profile # "LOW" /\ stage \in QaStages /\ facts[QaCode(stage)] # "BLOCKING_FAIL"
           \/ profile # "HIGH_RISK_FOUNDATION" /\ stage = "VERIFY"
BY NextIsComplete DEF ExpectedNext, QaStages, Profiles

(* Entering execution requires dependencies that are ready.                *)
LEMMA EntryMeans ==
    ASSUME NEW profile \in Profiles, NEW facts, NEW requested, NEW cycles, NEW limit,
           EvaluateStageTransition(profile, "MATERIALIZE", requested, facts, cycles, limit).kind
             = "ELIGIBLE", requested = "EXECUTE"
    PROVE  facts["DEPENDENCIES_READY"] = "PASS"
<1>1. RequiredEvidence(profile, "MATERIALIZE", "EXECUTE") = ExecutionEntryEvidence
  BY DEF RequiredEvidence, StandardRequirements, QaStages
<1>2. EvidenceHolds(facts, "DEPENDENCIES_READY")
  BY <1>1, EligibleMeans DEF ExecutionEntryEvidence
<1> QED BY <1>2 DEF EvidenceHolds, QaCodes
-----------------------------------------------------------------------------
(***************************************************************************)
(* The workflow.                                                           *)
(***************************************************************************)
LEMMA Appended ==
    ASSUME NEW s, IsSequence(s), NEW e
    PROVE  /\ IsSequence(Append(s, e)) /\ Len(s) \in Nat /\ Len(Append(s, e)) = Len(s) + 1
           /\ Append(s, e)[Len(s) + 1] = e
           /\ \A n \in 1 .. Len(s) : Append(s, e)[n] = s[n]
<1>1. PICK S : s \in Seq(S)
  BY DEF IsSequence
<1>2. s \in Seq(S \cup {e}) /\ e \in S \cup {e}
  BY <1>1
<1>3. Append(s, e) \in Seq(S \cup {e})
  BY <1>2
<1> QED BY <1>2, <1>3 DEF IsSequence

LEMMA Lengths ==
    ASSUME WorkflowTypes, NEW t \in Tasks
    PROVE  /\ Len(history[t]) \in Nat
           /\ Sequence(t) = Len(history[t]) + 1 /\ Sequence(t) \in Nat
           /\ EntrySequence(t) \in {1, 2}
BY DEF WorkflowTypes, IsSequence, Sequence, EntrySequence

(* Which stage comes when.                                                 *)
LEMMA StagesOf ==
    ASSUME WorkflowTypes, NEW t \in Tasks, ShapeOK(t), NEW n \in 1 .. Sequence(t)
    PROVE  /\ EntrySequence(t) \in {1, 2}
           /\ n < EntrySequence(t) <=> StageBefore(t, n) = "MATERIALIZE"
           /\ n = EntrySequence(t) <=> StageBefore(t, n) = "EXECUTE"
           /\ n > EntrySequence(t) <=> StageBefore(t, n) \in Later
           /\ n < Sequence(t) => StageBefore(t, n) # "COMPLETE"
<1>1. Len(history[t]) \in Nat /\ Sequence(t) = Len(history[t]) + 1 /\ EntrySequence(t) \in {1, 2}
  BY Lengths
<1>2. CASE n = 1
  BY <1>1, <1>2 DEF StageBefore, EntrySequence, InitialStage, Later
<1>3. CASE n # 1
  <2>1. n - 1 \in 1 .. Len(history[t]) /\ StageBefore(t, n) = history[t][n - 1].to
    BY <1>1, <1>3 DEF StageBefore
  <2>2. CASE n = EntrySequence(t)
    <3>1. history[t][n - 1].to \in (IF (n - 1) + 1 = EntrySequence(t) THEN {"EXECUTE"} ELSE Later)
      BY <2>1 DEF ShapeOK
    <3>2. (n - 1) + 1 = EntrySequence(t)
      BY <2>2
    <3>3. StageBefore(t, n) = "EXECUTE"
      BY <2>1, <3>1, <3>2
    <3> QED BY <1>1, <2>2, <3>3 DEF Later
  <2>3. CASE n # EntrySequence(t)
    <3>1. history[t][n - 1].to \in Later /\ n > EntrySequence(t)
      BY <1>1, <1>3, <2>1, <2>3 DEF ShapeOK
    <3>2. n < Sequence(t) => history[t][n - 1].to # "COMPLETE"
      BY <1>1, <2>1 DEF ShapeOK
    <3> QED BY <1>1, <2>1, <3>1, <3>2 DEF Later
  <2> QED BY <2>2, <2>3
<1> QED BY <1>2, <1>3

(* Steps are added at the end, and no Subtask loses its completion or      *)
(* maturity.                                                               *)
Extends(t) ==
  /\ Len(history'[t]) \in Nat /\ Len(history[t]) <= Len(history'[t])
  /\ \A n \in 1 .. Len(history[t]) : history'[t][n] = history[t][n]

Grown(t) ==
  /\ Extends(t)
  /\ Stage(t) = "COMPLETE" => Stage(t)' = "COMPLETE"
  /\ board[t].maturity \in {"HARDENED", "ACCEPTED"} => board'[t].maturity \in {"HARDENED", "ACCEPTED"}
  /\ board[t].maturity = "ACCEPTED" => board'[t].maturity = "ACCEPTED"

Monotone == \A t \in Tasks : Grown(t)

LEMMA StagesStay ==
    ASSUME WorkflowTypes, NEW t \in Tasks, Extends(t), NEW n \in 1 .. Sequence(t)
    PROVE  StageBefore(t, n)' = StageBefore(t, n) /\ CyclesBefore(t, n)' = CyclesBefore(t, n)
<1>1. n # 1 => n - 1 \in 1 .. Len(history[t])
  BY Lengths
<1> QED BY <1>1 DEF Extends, StageBefore, CyclesBefore

(* A dependency that is satisfied stays so.                                *)
LEMMA ReadyStays ==
    ASSUME WorkflowTypes, Monotone, NEW t \in Tasks, Ready(t)
    PROVE  Ready(t)'
<1> DEFINE maturity == [u \in Tasks |-> board[u].maturity]
           verified == [u \in Tasks |-> Stage(u) = "COMPLETE"]
           maturityNow == [u \in Tasks |-> board'[u].maturity]
           verifiedNow == [u \in Tasks |-> Stage(u)' = "COMPLETE"]
<1>1. SUFFICES ASSUME NEW e \in Edges, e.type = "BLOCKING", e.down = t
               PROVE  GateSatisfied(e.gate, maturityNow[e.up], verifiedNow[e.up])
  BY DEF Ready, DependenciesReady
<1>2. e.up \in Tasks /\ e.gate \in Gates
  BY EdgesAssumption DEF DependenciesValid
<1>3. GateSatisfied(e.gate, maturity[e.up], verified[e.up])
  BY <1>1 DEF Ready, DependenciesReady
<1>4. Grown(e.up)
  BY <1>2 DEF Monotone
<1>5. /\ maturity[e.up] = board[e.up].maturity /\ verified[e.up] = (Stage(e.up) = "COMPLETE")
      /\ maturityNow[e.up] = board'[e.up].maturity
      /\ verifiedNow[e.up] = (Stage(e.up)' = "COMPLETE")
  BY <1>2
<1> HIDE DEF maturity, verified, maturityNow, verifiedNow
<1>6. CASE e.gate = "NONE"
  BY <1>6 DEF GateSatisfied
<1>7. CASE e.gate = "VERIFIED"
  BY <1>3, <1>4, <1>5, <1>7 DEF GateSatisfied, Grown
<1>8. CASE e.gate = "HARDENED"
  BY <1>3, <1>4, <1>5, <1>8 DEF GateSatisfied, Grown
<1>9. CASE e.gate = "ACCEPTED"
  BY <1>3, <1>4, <1>5, <1>9 DEF GateSatisfied, Grown
<1> QED BY <1>2, <1>6, <1>7, <1>8, <1>9 DEF Gates

(* A decision to go on is the decision of every later read: what it depends*)
(* on besides the record is whether the dependencies are ready, which had  *)
(* to be so for the entry and is not read afterwards.                      *)
LEMMA DecisionStays ==
    ASSUME WorkflowTypes, Monotone, NEW t \in Tasks, NEW n \in 1 .. Sequence(t),
           NEW to, NEW facts, Decide(t, n, to, facts).kind = "ELIGIBLE",
           StageBefore(t, n) = "MATERIALIZE" => to = "EXECUTE"
    PROVE  Decide(t, n, to, facts)' = Decide(t, n, to, facts)
<1> DEFINE stage == StageBefore(t, n)
<1>1. StageBefore(t, n)' = stage /\ CyclesBefore(t, n)' = CyclesBefore(t, n)
  BY StagesStay DEF Monotone, Grown
<1>2. Stored(t, stage, facts)' = Stored(t, stage, facts)
  <2>1. CASE stage # "MATERIALIZE"
    BY <1>1, <2>1 DEF Stored
  <2>2. CASE stage = "MATERIALIZE"
    <3>1. Stored(t, stage, facts)["DEPENDENCIES_READY"] = "PASS"
      BY <2>2, EntryMeans, ProfileAssumption DEF Decide
    <3>2. Ready(t)
      BY <2>2, <3>1 DEF Stored
    <3>3. Ready(t)'
      BY <3>2, ReadyStays
    <3> QED BY <1>1, <2>2, <3>2, <3>3 DEF Stored
  <2> QED BY <2>1, <2>2
<1> QED BY <1>1, <1>2 DEF Decide

(* A demand for a human stands as long as the Subtask stands still.        *)
LEMMA DemandStays ==
    ASSUME WorkflowTypes, NEW t \in Tasks, history'[t] = history[t], Stage(t) # "MATERIALIZE",
           NEW to, NEW facts
    PROVE  Decide(t, Sequence(t), to, facts)' = Decide(t, Sequence(t), to, facts)
BY DEF Decide, Stored, Sequence, Stage, StageBefore, CyclesBefore

LEMMA StepsStay ==
    ASSUME WorkflowInv, Monotone, NEW t \in Tasks, NEW n \in 1 .. Len(history[t])
    PROVE  StepReadable(t, n)'
<1> DEFINE step == history[t][n]
<1>1. Decide(t, n, step.to, step.facts) = Eligible(step.to, step.cycles)
  BY DEF WorkflowInv, Readable, StepReadable
<1>2. n \in 1 .. Sequence(t) /\ history'[t][n] = step
  BY Lengths DEF WorkflowInv, Monotone, Grown, Extends
<1>3. StageBefore(t, n) = "MATERIALIZE" => step.to = "EXECUTE"
  <2>1. StageBefore(t, n) = "MATERIALIZE" => n < EntrySequence(t)
    BY <1>2, StagesOf DEF WorkflowInv
  <2> QED BY <2>1, Lengths DEF WorkflowInv, ShapeOK
<1>4. Eligible(step.to, step.cycles).kind = "ELIGIBLE"
  BY DEF Eligible, Decision
<1>5. PICK s : s = step
  OBVIOUS
<1>6. Decide(t, n, s.to, s.facts)' = Decide(t, n, s.to, s.facts)
  BY <1>1, <1>2, <1>3, <1>4, <1>5, DecisionStays DEF WorkflowInv
<1> QED BY <1>1, <1>2, <1>5, <1>6 DEF StepReadable

(* What a step leaves alone stays readable.                                *)
LEMMA OthersStay ==
    ASSUME WorkflowInv, Monotone, NEW t \in Tasks,
           history'[t] = history[t], board'[t] = board[t], demand'[t] = demand[t],
           demand[t] # NoDemand => replan' = replan
    PROVE  ShapeOK(t)' /\ DemandOK(t)' /\ Readable(t)'
<1>1. ShapeOK(t)'
  BY DEF WorkflowInv, ShapeOK, EntrySequence
<1>2. Stage(t)' = Stage(t) /\ Sequence(t)' = Sequence(t)
  BY DEF Stage, Sequence, StageBefore
<1>3. DemandOK(t)'
  BY <1>2 DEF WorkflowInv, DemandOK
<1>4. \A n \in 1 .. Len(history'[t]) : StepReadable(t, n)'
  BY StepsStay
<1>5. DemandReadable(t)'
  <2> SUFFICES ASSUME demand'[t] # NoDemand
               PROVE  /\ ~replan'
                      /\ Decide(t, Sequence(t), demand[t].to, demand[t].facts)'.kind
                           = "HUMAN_REQUIRED"
    BY DEF DemandReadable
  <2>1. /\ ~replan /\ Stage(t) # "MATERIALIZE"
        /\ Decide(t, Sequence(t), demand[t].to, demand[t].facts).kind = "HUMAN_REQUIRED"
    BY DEF WorkflowInv, Readable, DemandReadable, DemandOK
  <2>2. PICK d : d = demand[t]
    OBVIOUS
  <2>3. Decide(t, Sequence(t), d.to, d.facts)' = Decide(t, Sequence(t), d.to, d.facts)
    BY <2>1, DemandStays DEF WorkflowInv
  <2> QED BY <2>1, <2>2, <2>3
<1>6. MaturityReadable(t)'
  <2>1. StageBefore(t, Sequence(t) - 1)' = StageBefore(t, Sequence(t) - 1)
    BY <1>2 DEF StageBefore
  <2> QED BY <1>2, <2>1 DEF WorkflowInv, Readable, MaturityReadable
<1>7. CompositionFits(Stage(t), Profile[t], board[t].status, board[t].maturity)'
  BY <1>2 DEF WorkflowInv, Readable
<1> QED BY <1>1, <1>3, <1>4, <1>5, <1>6, <1>7 DEF Readable

(***************************************************************************)
(* The changes of the workflow.                                            *)
(***************************************************************************)
LEMMA Recorded ==
    ASSUME WorkflowTypes, NEW t \in Tasks, NEW to, NEW cycles, NEW facts,
           Record(t, to, cycles, facts)
    PROVE  /\ history' = [u \in Tasks |-> history'[u]]
           /\ \A u \in Tasks : IsSequence(history'[u]) /\ Extends(u)
           /\ \A u \in Tasks \ {t} : history'[u] = history[u]
           /\ Len(history'[t]) = Len(history[t]) + 1
           /\ history'[t][Sequence(t)] = [to |-> to, cycles |-> cycles, facts |-> facts]
           /\ Sequence(t)' = Sequence(t) + 1 /\ Stage(t)' = to
<1> DEFINE step == [to |-> to, cycles |-> cycles, facts |-> facts]
<1>1. /\ history' = [u \in Tasks |-> history'[u]]
      /\ history'[t] = Append(history[t], step)
      /\ \A u \in Tasks \ {t} : history'[u] = history[u]
  BY DEF WorkflowTypes, Record
<1>2. step.to = to
  OBVIOUS
<1> HIDE DEF step
<1>3. /\ IsSequence(history'[t]) /\ Len(history'[t]) = Len(history[t]) + 1
      /\ history'[t][Len(history[t]) + 1] = step
      /\ \A n \in 1 .. Len(history[t]) : history'[t][n] = history[t][n]
  BY <1>1, Appended DEF WorkflowTypes
<1>4. Sequence(t)' = Sequence(t) + 1 /\ Sequence(t) = Len(history[t]) + 1
  BY <1>3, Lengths DEF Sequence
<1>5. Stage(t)' = to
  BY <1>2, <1>3, <1>4, Lengths DEF Stage, StageBefore
<1>6. \A u \in Tasks : IsSequence(history'[u]) /\ Extends(u)
  <2>1. ASSUME NEW u \in Tasks \ {t} PROVE IsSequence(history'[u]) /\ Extends(u)
    BY <1>1, Lengths DEF WorkflowTypes, Extends
  <2>2. IsSequence(history'[t]) /\ Extends(t)
    BY <1>3, Lengths DEF Extends
  <2> QED BY <2>1, <2>2
<1> QED BY <1>1, <1>3, <1>4, <1>5, <1>6 DEF step

(* A step that the rules allowed is readable at once, and the Subtask with *)
(* it, if the board fits.                                                  *)
LEMMA StepTaken ==
    ASSUME WorkflowInv, NEW t \in Tasks, NEW to, NEW facts, NEW now \in Boards,
           Decide(t, Sequence(t), to, facts).kind = "ELIGIBLE",
           Record(t, to, Decide(t, Sequence(t), to, facts).cycles, facts),
           board' = [board EXCEPT ![t] = now],
           ~NeedsHuman(t), UNCHANGED <<demand, replan>>,
           IF Stage(t) = "MATERIALIZE" THEN to = "EXECUTE" ELSE to \in Later,
           Monotone,
           (to = "COMPLETE" /\ Profile[t] = "STANDARD") =>
              now.maturity = (IF Stage(t) \in QaStages THEN "ACCEPTED" ELSE "IMPLEMENTED"),
           CompositionFits(to, Profile[t], now.status, now.maturity)
    PROVE  WorkflowInv'
<1>0. PICK n : n = Sequence(t)
  OBVIOUS
<1>1. PICK decision : decision = Decide(t, n, to, facts)
  OBVIOUS
<1>2. decision = Eligible(to, decision.cycles) /\ Stage(t) # "COMPLETE" /\ decision.kind = "ELIGIBLE"
  BY <1>0, <1>1, EligibleMeans DEF Decide, Stage
<1>3. /\ history' = [u \in Tasks |-> history'[u]]
      /\ \A u \in Tasks : IsSequence(history'[u])
      /\ \A u \in Tasks \ {t} : history'[u] = history[u] /\ board'[u] = board[u]
      /\ Len(history'[t]) = Len(history[t]) + 1 /\ n = Len(history[t]) + 1
      /\ Len(history[t]) \in Nat /\ EntrySequence(t) \in {1, 2}
      /\ history'[t][n] = [to |-> to, cycles |-> decision.cycles, facts |-> facts]
      /\ Sequence(t)' = n + 1 /\ Stage(t)' = to /\ board'[t] = now
  BY <1>0, <1>1, Recorded, Lengths DEF WorkflowInv, WorkflowTypes
<1>4. WorkflowTypes'
  BY <1>3 DEF WorkflowInv, WorkflowTypes
<1>5. ASSUME NEW u \in Tasks \ {t} PROVE ShapeOK(u)' /\ DemandOK(u)' /\ Readable(u)'
  BY <1>3, <1>5, OthersStay DEF WorkflowInv
<1>6. /\ n = 1 => StageBefore(t, n) = InitialStage(Profile[t])
      /\ n \in 1 .. Sequence(t) /\ StageBefore(t, n) = Stage(t)
  BY <1>0, <1>3 DEF StageBefore, Stage
<1>7. /\ n < EntrySequence(t) <=> Stage(t) = "MATERIALIZE"
      /\ EntrySequence(t)' = EntrySequence(t)
  BY <1>6, StagesOf DEF WorkflowInv, EntrySequence
<1>8. \A i \in 1 .. Len(history[t]) : history'[t][i] = history[t][i] /\ history[t][i].to # "COMPLETE"
  <2>1. ASSUME NEW i \in 1 .. Len(history[t]) PROVE history[t][i].to # "COMPLETE"
    <3>1. i = Len(history[t]) => history[t][i].to = Stage(t)
      BY <1>0, <1>3, <2>1 DEF Stage, StageBefore
    <3> QED BY <1>2, <1>3, <3>1 DEF WorkflowInv, ShapeOK
  <2> QED BY <2>1 DEF Monotone, Grown, Extends
<1>9. ShapeOK(t)'
  <2> SUFFICES ASSUME NEW i \in 1 .. Len(history'[t])
               PROVE  /\ history'[t][i].to \in
                           (IF i + 1 = EntrySequence(t) THEN {"EXECUTE"} ELSE Later)
                      /\ i < Len(history'[t]) => history'[t][i].to # "COMPLETE"
    BY <1>7 DEF ShapeOK
  <2>1. CASE i = n
    BY <1>3, <1>7, <2>1
  <2>2. CASE i # n
    <3>1. i \in 1 .. Len(history[t])
      BY <1>3, <2>2
    <3> QED BY <1>8, <3>1 DEF WorkflowInv, ShapeOK
  <2> QED BY <2>1, <2>2
<1>10. DemandOK(t)' /\ DemandReadable(t)'
  BY DEF NeedsHuman, DemandOK, DemandReadable
<1>11. \A i \in 1 .. Len(history'[t]) : StepReadable(t, i)'
  <2>1. Decide(t, n, to, facts)' = decision
    BY <1>0, <1>1, <1>2, <1>6, DecisionStays DEF WorkflowInv
  <2>2. StepReadable(t, n)'
    BY <1>2, <1>3, <2>1 DEF StepReadable
  <2>3. ASSUME NEW i \in 1 .. Len(history[t]) PROVE StepReadable(t, i)'
    BY StepsStay
  <2> QED BY <1>3, <2>2, <2>3
<1>12. MaturityReadable(t)'
  <2>1. StageBefore(t, Sequence(t) - 1)' = Stage(t)
    <3>1. StageBefore(t, n)' = StageBefore(t, n)
      BY <1>6, StagesStay DEF WorkflowInv, Monotone, Grown
    <3>2. Sequence(t)' - 1 = n
      BY <1>3
    <3> QED BY <1>6, <3>1, <3>2 DEF StageBefore
  <2> QED BY <1>3, <2>1 DEF MaturityReadable
<1>13. Readable(t)'
  BY <1>3, <1>10, <1>11, <1>12 DEF Readable
<1> QED BY <1>4, <1>5, <1>9, <1>10, <1>13 DEF WorkflowInv

LEMMA Advanced ==
    ASSUME WorkflowInv, NEW t \in Tasks, NEW to, NEW facts, NEW shown,
           AdvanceDurableWorkflow(t, to, facts, shown),
           IF Stage(t) = "MATERIALIZE" THEN to = "EXECUTE" ELSE to \in Later
    PROVE  WorkflowInv' /\ Monotone
<1> DEFINE now == Composed(t, to)
<1>1. /\ ~NeedsHuman(t) /\ LifecycleAllows(t, to, shown)
      /\ Decide(t, Sequence(t), to, facts).kind = "ELIGIBLE"
      /\ Record(t, to, Decide(t, Sequence(t), to, facts).cycles, facts)
      /\ board' = [board EXCEPT ![t] = now]
      /\ UNCHANGED <<demand, replan>>
  BY DEF AdvanceDurableWorkflow, MayAdvance
<1>2. /\ to = ExpectedNext(Profile[t], Stage(t), to, Stored(t, Stage(t), facts))
      /\ Stage(t) # "COMPLETE"
  BY <1>1, EligibleMeans DEF Decide, Stage
<1>3. /\ board \in [Tasks -> Boards] /\ board[t] \in Boards /\ Profile[t] \in Profiles
  BY ProfileAssumption DEF WorkflowInv, WorkflowTypes
<1>4. now \in Boards
  BY <1>3 DEF Composed, NextMaturity, Boards, Statuses, Maturities
<1>5. /\ CompositionFits(to, Profile[t], now.status, now.maturity)
      /\ CompositionFits(Stage(t), Profile[t], board[t].status, board[t].maturity)
  BY <1>1 DEF LifecycleAllows
<1>6. now.maturity = NextMaturity(t, to)
  BY DEF Composed
<1>7. Stage(t) \in {"HARDEN", "VERIFY"} => board[t].maturity = "IMPLEMENTED"
  BY <1>5 DEF CompositionFits
<1>8. (to = "COMPLETE" /\ Profile[t] = "STANDARD") =>
          now.maturity = (IF Stage(t) \in QaStages THEN "ACCEPTED" ELSE "IMPLEMENTED")
  <2> SUFFICES ASSUME to = "COMPLETE", Profile[t] = "STANDARD"
               PROVE  NextMaturity(t, to) = (IF Stage(t) \in QaStages THEN "ACCEPTED" ELSE "IMPLEMENTED")
    BY <1>6
  <2>1. Stage(t) \in QaStages \/ Stage(t) = "VERIFY"
    BY <1>2, <1>3, CompletionMeans
  <2> QED BY <1>7, <2>1 DEF NextMaturity, QaStages
<1> HIDE DEF now
<1>9. \/ now.maturity \in {board[t].maturity, "ACCEPTED"}
      \/ board[t].maturity = "IMPLEMENTED" /\ now.maturity = "HARDENED"
  <2>1. CASE Stage(t) = "HARDEN" /\ to = "FRESH_QA"
    BY <1>6, <1>7, <2>1 DEF NextMaturity
  <2>2. CASE ~(Stage(t) = "HARDEN" /\ to = "FRESH_QA")
    BY <1>6, <2>2 DEF NextMaturity
  <2> QED BY <2>1, <2>2
<1>10. Monotone
  <2>1. \A u \in Tasks : Extends(u)
    BY <1>1, Recorded DEF WorkflowInv
  <2>2. \A u \in Tasks \ {t} : history'[u] = history[u] /\ board'[u] = board[u]
    BY <1>1, <1>3, Recorded DEF WorkflowInv
  <2>3. board'[t] = now
    BY <1>1, <1>3
  <2>4. \A u \in Tasks \ {t} : Stage(u)' = Stage(u)
    BY <2>2 DEF Stage, StageBefore, Sequence
  <2> QED BY <1>2, <1>9, <2>1, <2>2, <2>3, <2>4 DEF Monotone, Grown
<1>11. PICK n : n = now
  OBVIOUS
<1> QED BY <1>1, <1>4, <1>5, <1>8, <1>10, <1>11, StepTaken

LEMMA Implemented ==
    ASSUME WorkflowInv, NEW t \in Tasks, NEW to \in Later \ {"COMPLETE"},
           Stage(t) = "EXECUTE", CompleteImplementation(t, to)
    PROVE  WorkflowInv' /\ Monotone
<1> DEFINE now == [status |-> "QA_DEBUG", maturity |-> "IMPLEMENTED"]
           facts == [code \in {"EXECUTION_EVIDENCE_PASSED"} |-> "PASS"]
<1>1. /\ ~NeedsHuman(t) /\ board[t].maturity = "NOT_STARTED"
      /\ Decide(t, Sequence(t), to, facts).kind = "ELIGIBLE"
      /\ CompositionFits(to, Profile[t], now.status, now.maturity)
      /\ Record(t, to, Decide(t, Sequence(t), to, facts).cycles, facts)
      /\ board' = [board EXCEPT ![t] = now]
      /\ UNCHANGED <<demand, replan>>
  BY DEF CompleteImplementation
<1>2. now \in Boards
  BY DEF Boards, Statuses, Maturities
<1>3. board \in [Tasks -> Boards]
  BY DEF WorkflowInv, WorkflowTypes
<1> HIDE DEF now, facts
<1>4. Monotone
  <2>1. \A u \in Tasks : Extends(u)
    BY <1>1, Recorded DEF WorkflowInv
  <2>2. \A u \in Tasks \ {t} : history'[u] = history[u] /\ board'[u] = board[u]
    BY <1>1, <1>3, Recorded DEF WorkflowInv
  <2>3. \A u \in Tasks \ {t} : Stage(u)' = Stage(u)
    BY <2>2 DEF Stage, StageBefore, Sequence
  <2> QED BY <1>1, <2>1, <2>2, <2>3 DEF Monotone, Grown
<1> QED BY <1>1, <1>2, <1>4, StepTaken

(* The history stays as it is, and the board as far as others see it.      *)
LEMMA HistoryStays ==
    ASSUME WorkflowInv, UNCHANGED history, board' \in [Tasks -> Boards],
           \A t \in Tasks : board'[t].maturity = board[t].maturity
    PROVE  Monotone
BY Lengths DEF WorkflowInv, Monotone, Grown, Extends, Stage, StageBefore, Sequence

LEMMA HumanRequiredFor ==
    ASSUME WorkflowInv, NEW t \in Tasks, NEW to, NEW facts, RequireHuman(t, to, facts),
           Stage(t) # "MATERIALIZE"
    PROVE  WorkflowInv' /\ Monotone
<1>1. /\ UNCHANGED <<history, replan, board>> /\ ~NeedsHuman(t)
      /\ Decide(t, Sequence(t), to, facts).kind = "HUMAN_REQUIRED"
      /\ demand' = [demand EXCEPT ![t] = [to |-> to, facts |-> facts]]
  BY DEF RequireHuman
<1>2. WorkflowTypes'
  BY <1>1 DEF WorkflowInv, WorkflowTypes
<1>3. Monotone
  BY <1>1, HistoryStays DEF WorkflowInv, WorkflowTypes
<1>4. ASSUME NEW u \in Tasks \ {t} PROVE ShapeOK(u)' /\ DemandOK(u)' /\ Readable(u)'
  <2>1. demand'[u] = demand[u]
    BY <1>1 DEF WorkflowInv, WorkflowTypes
  <2> QED BY <1>1, <1>3, <2>1, OthersStay
<1>5. demand'[t] = [to |-> to, facts |-> facts]
  BY <1>1 DEF WorkflowInv, WorkflowTypes
<1>6. Decide(t, Sequence(t), to, facts)' = Decide(t, Sequence(t), to, facts)
  BY <1>1, DemandStays DEF WorkflowInv
<1>7. DemandReadable(t)' /\ DemandOK(t)'
  <2>1. ~replan' /\ Stage(t)' = Stage(t)
    BY <1>1 DEF NeedsHuman, Stage, StageBefore, Sequence
  <2> QED BY <1>1, <1>5, <1>6, <2>1 DEF DemandReadable, DemandOK
<1>8. ShapeOK(t)' /\ \A n \in 1 .. Len(history'[t]) : StepReadable(t, n)'
  BY <1>1, <1>3, StepsStay DEF WorkflowInv, ShapeOK, EntrySequence
<1>9. MaturityReadable(t)' /\ CompositionFits(Stage(t), Profile[t], board[t].status, board[t].maturity)'
  BY <1>1 DEF WorkflowInv, Readable, MaturityReadable, Stage, StageBefore, Sequence
<1> QED BY <1>2, <1>3, <1>4, <1>7, <1>8, <1>9 DEF WorkflowInv, Readable

LEMMA ReplanRequested == ASSUME WorkflowInv, RequestGraphChange PROVE WorkflowInv' /\ Monotone
<1>1. /\ UNCHANGED <<history, demand, board>> /\ replan' = TRUE
      /\ \A t \in Tasks : demand[t] = NoDemand
  BY DEF RequestGraphChange, NeedsHuman
<1>2. WorkflowTypes'
  BY <1>1 DEF WorkflowInv, WorkflowTypes
<1>3. Monotone
  BY <1>1, HistoryStays DEF WorkflowInv, WorkflowTypes
<1>4. ASSUME NEW u \in Tasks PROVE ShapeOK(u)' /\ DemandOK(u)' /\ Readable(u)'
  BY <1>1, <1>3, OthersStay
<1> QED BY <1>2, <1>3, <1>4 DEF WorkflowInv

LEMMA StartedOnBoard ==
    ASSUME WorkflowInv, NEW t \in Tasks, Stage(t) = "EXECUTE", board[t].status = "TODO",
           StartOnBoard(t), UNCHANGED <<history, demand, replan>>
    PROVE  WorkflowInv' /\ Monotone
<1>1. /\ board' = [board EXCEPT ![t].status = "IN_PROGRESS"]
      /\ <<board[t].status, "IN_PROGRESS">> \in StatusMoves
  BY DEF StartOnBoard, StatusMayMove
<1>2. board \in [Tasks -> Boards] /\ board' \in [Tasks -> Boards]
  BY <1>1 DEF WorkflowInv, WorkflowTypes, Boards, Statuses
<1>3. /\ board'[t].status = "IN_PROGRESS" /\ board'[t].maturity = board[t].maturity
      /\ \A u \in Tasks \ {t} : board'[u] = board[u]
  BY <1>1, <1>2 DEF Boards
<1>4. WorkflowTypes'
  BY <1>2 DEF WorkflowInv, WorkflowTypes
<1>5. Monotone
  BY <1>2, <1>3, HistoryStays
<1>6. ASSUME NEW u \in Tasks \ {t} PROVE ShapeOK(u)' /\ DemandOK(u)' /\ Readable(u)'
  BY <1>3, <1>5, <1>6, OthersStay
<1>7. Stage(t)' = "EXECUTE" /\ Sequence(t)' = Sequence(t)
  BY DEF Stage, StageBefore, Sequence
<1>8. ShapeOK(t)' /\ DemandOK(t)' /\ \A n \in 1 .. Len(history'[t]) : StepReadable(t, n)'
  BY <1>5, <1>7, StepsStay DEF WorkflowInv, ShapeOK, DemandOK, EntrySequence
<1>9. DemandReadable(t)'
  <2> SUFFICES ASSUME demand'[t] # NoDemand
               PROVE  /\ ~replan'
                      /\ Decide(t, Sequence(t), demand[t].to, demand[t].facts)'.kind
                           = "HUMAN_REQUIRED"
    BY DEF DemandReadable
  <2>1. /\ ~replan
        /\ Decide(t, Sequence(t), demand[t].to, demand[t].facts).kind = "HUMAN_REQUIRED"
    BY DEF WorkflowInv, Readable, DemandReadable
  <2>2. PICK d : d = demand[t]
    OBVIOUS
  <2>3. Decide(t, Sequence(t), d.to, d.facts)' = Decide(t, Sequence(t), d.to, d.facts)
    BY DemandStays DEF WorkflowInv
  <2> QED BY <2>1, <2>2, <2>3
<1>10. CompositionFits("EXECUTE", Profile[t], "IN_PROGRESS", board'[t].maturity)
  <2>1. CompositionFits("EXECUTE", Profile[t], board[t].status, board[t].maturity)
    BY DEF WorkflowInv, Readable
  <2>2. board[t].maturity = "NOT_STARTED"
    BY <2>1 DEF CompositionFits
  <2> QED BY <1>3, <2>2 DEF CompositionFits
<1>11. MaturityReadable(t)'
  BY <1>7 DEF MaturityReadable
<1> QED BY <1>3, <1>4, <1>5, <1>6, <1>7, <1>8, <1>9, <1>10, <1>11 DEF WorkflowInv, Readable
-----------------------------------------------------------------------------
(***************************************************************************)
(* What the steps do to the workflow: its invariant is kept, and one       *)
(* Subtask at most goes on, after the role of its stage.                   *)
(***************************************************************************)
LEMMA WorkflowStands == ASSUME WorkflowInv, UNCHANGED workflowVars PROVE WorkflowInv' /\ Monotone
<1>1. UNCHANGED history /\ UNCHANGED demand /\ UNCHANGED replan /\ UNCHANGED board
  BY DEF workflowVars
<1>2. WorkflowTypes'
  BY <1>1 DEF WorkflowInv, WorkflowTypes
<1>3. Monotone
  BY <1>1, HistoryStays DEF WorkflowInv, WorkflowTypes
<1> QED BY <1>1, <1>2, <1>3, OthersStay DEF WorkflowInv

(* Subtask t goes on: it entered execution, or a role has its result.      *)
GoesOn(t) ==
  /\ \A u \in Tasks \ {t} : history'[u] = history[u]
  /\ Extends(t)
  /\ Sequence(t)' = Sequence(t) + 1
  /\ Stage(t) # "MATERIALIZE" => HasRole(t, Sequence(t))
  /\ Stage(t)' = "COMPLETE" => /\ Stage(t) # "MATERIALIZE"
                               /\ Role(t, Sequence(t)).outcome = "PASS"
  /\ Stage(t) # "COMPLETE"

OneGoesOn == UNCHANGED history \/ \E t \in Tasks : GoesOn(t)

LEMMA Entered ==
    ASSUME WorkflowInv, NEW t \in Tasks, Stage(t) = "MATERIALIZE",
           AdvanceDurableWorkflow(t, "EXECUTE", GatesPassed, {})
    PROVE  GoesOn(t)
<1>1. PICK cycles : Record(t, "EXECUTE", cycles, GatesPassed)
  BY DEF AdvanceDurableWorkflow
<1>2. /\ \A u \in Tasks \ {t} : history'[u] = history[u]
      /\ Extends(t) /\ Sequence(t)' = Sequence(t) + 1 /\ Stage(t)' = "EXECUTE"
  BY <1>1, Recorded DEF WorkflowInv
<1> QED BY <1>2 DEF GoesOn

(* The result of a role leads to completion only if it is a good one.      *)
LEMMA CompletedByPass ==
    ASSUME NEW t \in Tasks, NEW result, Stage(t) \notin {"EXECUTE", "MATERIALIZE"},
           result.outcome \in {"NONE"} \cup Outcomes(Stage(t)), result.outcome # "NONE",
           ~ResultBlocks(Stage(t), result.outcome),
           NEW facts, facts = Evidence(Stage(t), result.outcome),
           Decide(t, Sequence(t), "COMPLETE", facts).kind = "ELIGIBLE"
    PROVE  result.outcome = "PASS"
<1>1. PICK stage : stage = Stage(t)
  OBVIOUS
<1>2. StageBefore(t, Sequence(t)) = stage /\ Stored(t, stage, facts) = facts
  BY <1>1 DEF Stage, Stored
<1>3. ExpectedNext(Profile[t], stage, "COMPLETE", facts) = "COMPLETE"
  BY <1>2, EligibleMeans DEF Decide
<1>4. Profile[t] \in Profiles
  BY ProfileAssumption
<1>5. \/ stage \in QaStages /\ facts[QaCode(stage)] # "BLOCKING_FAIL"
      \/ stage = "VERIFY"
  BY <1>3, <1>4, CompletionMeans
<1>6. CASE stage = "VERIFY"
  BY <1>1, <1>6 DEF ResultBlocks, QaStages, Outcomes
<1>7. CASE stage \in QaStages
  <2>1. facts = [code \in {QaCode(stage)} |-> result.outcome]
    BY <1>1, <1>7 DEF Evidence, QaStages
  <2>2. facts[QaCode(stage)] = result.outcome /\ stage # "VERIFY"
    BY <1>7, <2>1 DEF QaStages
  <2> QED BY <1>1, <1>5, <1>7, <2>2 DEF QaStages, Outcomes
<1> QED BY <1>5, <1>6, <1>7

(* A result that is reconciled: nothing, the next stage, or a human.       *)
LEMMA ReconciledResult ==
    ASSUME IInv, NEW t \in Tasks, NEW seq \in Nat, HasRole(t, seq),
           Role(t, seq).outcome # "NONE", Reconcile(t, seq)
    PROVE  WorkflowInv' /\ OneGoesOn /\ Monotone
<1> DEFINE result == Role(t, seq)
           stage  == Stage(t)
           next   == NextStage(t, stage, result.outcome)
           facts  == Evidence(stage, result.outcome)
<1>1. CASE UNCHANGED workflowVars
  BY <1>1, WorkflowStands DEF IInv, OneGoesOn, workflowVars
<1>2. CASE ~UNCHANGED workflowVars
  <2>1. /\ Sequence(t) = seq /\ ~ResultBlocks(stage, result.outcome) /\ ~NeedsHuman(t)
        /\ IF stage = "EXECUTE" THEN CompleteImplementation(t, next)
           ELSE \/ AdvanceDurableWorkflow(t, next, facts, DeliveryEvidence)
                \/ RequireHuman(t, next, facts)
    BY <1>2 DEF Reconcile
  <2>2. /\ Len(history[t]) \in Nat /\ EntrySequence(t) \in {1, 2} /\ seq >= EntrySequence(t)
        /\ seq \in 1 .. Sequence(t)
    BY <2>1, Lengths DEF IInv, WorkflowInv, HasRole, Round
  <2>3. stage # "MATERIALIZE" /\ stage = StageBefore(t, seq)
    BY <2>1, <2>2, StagesOf DEF IInv, WorkflowInv, Stage
  <2>4. result.outcome \in {"NONE"} \cup Outcomes(stage)
    <3>1. Round(t, seq) \in 1 .. Len(roles[t]) /\ Round(t, seq) + EntrySequence(t) - 1 = seq
      BY <2>2 DEF HasRole, Round
    <3> QED BY <2>3, <3>1 DEF IInv, RolesOK, RoleOK, RoleStage, Role
  <2>5. /\ next \in Later
        /\ stage = "EXECUTE" => next \in Later \ {"COMPLETE"}
    BY DEF NextStage, Later
  <2>6. CASE stage = "EXECUTE"
    <3>1. CompleteImplementation(t, next)
      BY <2>1, <2>6
    <3>2. WorkflowInv' /\ Monotone
      BY <2>5, <2>6, <3>1, Implemented DEF IInv
    <3>3. PICK cycles, evidence : Record(t, next, cycles, evidence)
      BY <3>1 DEF CompleteImplementation
    <3>4. /\ \A u \in Tasks \ {t} : history'[u] = history[u]
          /\ Extends(t) /\ Sequence(t)' = Sequence(t) + 1 /\ Stage(t)' = next
      BY <3>3, Recorded DEF IInv, WorkflowInv
    <3>5. GoesOn(t)
      BY <2>1, <2>5, <2>6, <3>4 DEF GoesOn
    <3> QED BY <3>2, <3>5 DEF OneGoesOn
  <2>7. CASE stage # "EXECUTE" /\ AdvanceDurableWorkflow(t, next, facts, DeliveryEvidence)
    <3>1. WorkflowInv' /\ Monotone
      BY <2>3, <2>5, <2>7, Advanced DEF IInv
    <3>2. /\ Record(t, next, Decide(t, Sequence(t), next, facts).cycles, facts)
          /\ Decide(t, Sequence(t), next, facts).kind = "ELIGIBLE"
      BY <2>7 DEF AdvanceDurableWorkflow, MayAdvance
    <3>3. /\ \A u \in Tasks \ {t} : history'[u] = history[u]
          /\ Extends(t) /\ Sequence(t)' = Sequence(t) + 1 /\ Stage(t)' = next
      BY <3>2, Recorded DEF IInv, WorkflowInv
    <3>4. next = "COMPLETE" => result.outcome = "PASS"
      BY <2>1, <2>3, <2>4, <2>7, <3>2, CompletedByPass
    <3>5. stage # "COMPLETE"
      BY <3>2, EligibleMeans DEF Decide, Stage
    <3>6. GoesOn(t)
      BY <2>1, <2>3, <3>3, <3>4, <3>5 DEF GoesOn
    <3> QED BY <3>1, <3>6 DEF OneGoesOn
  <2>8. CASE stage # "EXECUTE" /\ RequireHuman(t, next, facts)
    BY <2>3, <2>8, HumanRequiredFor DEF IInv, OneGoesOn, RequireHuman
  <2> QED BY <2>1, <2>6, <2>7, <2>8
<1> QED BY <1>1, <1>2

LEMMA WorkflowKept == ASSUME IInv, Next PROVE WorkflowInv' /\ OneGoesOn /\ Monotone
<1>1. CASE UNCHANGED workflowVars
  BY <1>1, WorkflowStands DEF IInv, OneGoesOn, workflowVars
<1>2. ASSUME NEW c \in Callers, EnterExecution(c) PROVE WorkflowInv' /\ OneGoesOn /\ Monotone
  <2> DEFINE t == at[c].task
  <2>1. t \in Tasks
    BY <1>2 DEF EnterExecution, IInv, CallerOK, Fits
  <2>2. \/ UNCHANGED workflowVars
        \/ Stage(t) = "MATERIALIZE" /\ AdvanceDurableWorkflow(t, "EXECUTE", GatesPassed, {})
    BY <1>2 DEF EnterExecution, MayEnter
  <2> HIDE DEF t
  <2>3. CASE Stage(t) = "MATERIALIZE" /\ AdvanceDurableWorkflow(t, "EXECUTE", GatesPassed, {})
    BY <2>1, <2>3, Advanced, Entered DEF IInv, OneGoesOn
  <2> QED BY <1>1, <2>2, <2>3
<1>3. ASSUME NEW c \in Callers, ReserveDispatch(c) PROVE WorkflowInv' /\ OneGoesOn /\ Monotone
  <2>1. PICK t : t = at[c].task
    OBVIOUS
  <2>2. /\ t \in Tasks /\ Stage(t) = "EXECUTE" /\ board[t].status = "TODO" /\ StartOnBoard(t)
        /\ UNCHANGED <<history, demand, replan>>
    BY <1>3, <2>1 DEF ReserveDispatch, MayReserveDispatch, IInv, CallerOK, Fits
  <2> QED BY <2>2, StartedOnBoard DEF IInv, OneGoesOn
<1>4. ASSUME NEW c \in Callers, ReconcileFound(c) \/ ReconcileResult(c)
      PROVE  WorkflowInv' /\ OneGoesOn /\ Monotone
  <2>1. PICK t, seq : t = at[c].task /\ seq = at[c].seq
    OBVIOUS
  <2>2. CallerOK(c) /\ pc[c] \in {"ROLE", "RECONCILE"}
    BY <1>4 DEF ReconcileFound, ReconcileResult, IInv
  <2>3. t \in Tasks /\ seq \in 1 .. Sequence(t)
    BY <2>1, <2>2 DEF CallerOK, Fits
  <2>4. HasRole(t, seq) /\ Role(t, seq).outcome # "NONE" /\ Reconcile(t, seq)
    BY <1>4, <2>1, <2>2 DEF ReconcileFound, ReconcileResult, CallerOK, Fits, Execution
  <2>5. seq \in Nat
    BY <2>3
  <2> QED BY <2>3, <2>4, <2>5, ReconciledResult
<1>5. CASE AskForReplan
  BY <1>5, ReplanRequested DEF AskForReplan, IInv, OneGoesOn, RequestGraphChange
<1>6. ASSUME NEW c \in Callers,
             \/ Prepare(c) \/ ResumeDispatch(c) \/ KeepDispatch(c) \/ AuthorizeCurrentRole(c)
             \/ InspectRole(c)
      PROVE  UNCHANGED workflowVars
  BY <1>6 DEF Prepare, ResumeDispatch, KeepDispatch, AuthorizeCurrentRole, InspectRole,
              storeVars, workflowVars
<1>7. ASSUME NEW c \in Callers,
             \/ Reserve(c) \/ Claim(c) \/ BindThread(c) \/ ValidateTurnStart(c) \/ StartRun(c)
             \/ PersistResult(c) \/ FinalizeFailed(c) \/ TurnFails(c) \/ Crash(c)
      PROVE  UNCHANGED workflowVars
  BY <1>7 DEF Reserve, Claim, BindThread, ValidateTurnStart, StartRun, PersistResult,
              FinalizeFailed, TurnFails, Crash, storeVars, workflowVars
<1>8. ASSUME NEW t \in Tasks, AuthorizeManualStart(t) \/ Pause(t) \/ Unpause(t) \/ Drift(t)
      PROVE  UNCHANGED workflowVars
  BY <1>8 DEF AuthorizeManualStart, Pause, Unpause, Drift, storeVars, workflowVars
<1> QED BY <1>1, <1>2, <1>3, <1>4, <1>5, <1>6, <1>7, <1>8 DEF Next, Preparing, Executing
-----------------------------------------------------------------------------
(***************************************************************************)
(* What the steps do to the roles: one is authorized for the stage of now, *)
(* or one of those that are there moves on.                                *)
(***************************************************************************)
Authorizes(t) ==
  /\ ~HasRole(t, Sequence(t)) /\ MayAuthorize(t)
  /\ roles' = [roles EXCEPT ![t] = Append(@, NewRole(tree[t].head))]

(* A role that moves on keeps what it began on; the result comes once, for *)
(* the stage of now, and with the commit that the stage may leave.         *)
MovesOn(t, seq, new) ==
  LET old == Role(t, seq)
  IN  /\ HasRole(t, seq) /\ SetRole(t, seq, new)
      /\ IsRole(new) /\ new.base = old.base /\ (old.claimed => new.claimed)
      /\ \/ new.head = old.head /\ new.outcome = old.outcome /\ new.phase # "SUCCEEDED"
         \/ /\ Sequence(t) = seq /\ new.outcome \in Outcomes(Stage(t))
            /\ ~RoleWrites(t, Stage(t)) => new.head = new.base

OneRoleMoves ==
  \/ UNCHANGED roles
  \/ \E t \in Tasks : Authorizes(t)
  \/ \E t \in Tasks, seq \in Nat : \E new : MovesOn(t, seq, new)

LEMMA Replaced ==
    ASSUME NEW s, IsSequence(s), NEW k \in 1 .. Len(s), NEW e
    PROVE  LET replaced == [s EXCEPT ![k] = e]
           IN  /\ IsSequence(replaced) /\ Len(replaced) = Len(s) /\ replaced[k] = e
               /\ \A n \in (1 .. Len(s)) \ {k} : replaced[n] = s[n]
<1>1. PICK S : s \in Seq(S)
  BY DEF IsSequence
<1>2. s \in Seq(S \cup {e}) /\ e \in S \cup {e}
  BY <1>1
<1>3. [s EXCEPT ![k] = e] \in Seq(S \cup {e})
  BY <1>2
<1> QED BY <1>2, <1>3 DEF IsSequence

(* How many roles there are, in terms of the workflow.                     *)
LEMMA Counts ==
    ASSUME IInv, NEW t \in Tasks
    PROVE  /\ Len(roles[t]) \in Nat /\ Sequence(t) \in Nat \ {0} /\ EntrySequence(t) \in {1, 2}
           /\ Len(roles[t]) \in {Sequence(t) - EntrySequence(t),
                                 Sequence(t) - EntrySequence(t) + 1}
           /\ HasRole(t, Sequence(t)) => Len(roles[t]) = Sequence(t) - EntrySequence(t) + 1
           /\ \A k \in 1 .. Len(roles[t]) : k + EntrySequence(t) - 1 \in 1 .. Sequence(t)
<1>1. /\ Len(roles[t]) \in Nat /\ Len(history[t]) \in Nat /\ Sequence(t) = Len(history[t]) + 1
      /\ EntrySequence(t) \in {1, 2}
  BY Lengths DEF IInv, WorkflowInv, StoreTypes, IsSequence
<1>2. Len(roles[t]) \in {Round(t, Sequence(t)) - 1, Round(t, Sequence(t))}
  BY DEF IInv, RolesOK
<1> QED BY <1>1, <1>2 DEF Round, HasRole

(* A Subtask without a role for a stage has none for the stage of now.     *)
LEMMA LaterToo ==
    ASSUME IInv, NEW t \in Tasks, NEW seq \in 1 .. Sequence(t), seq >= EntrySequence(t),
           ~HasRole(t, seq)
    PROVE  ~HasRole(t, Sequence(t))
<1>1. /\ Len(roles[t]) \in Nat /\ Sequence(t) \in Nat /\ EntrySequence(t) \in {1, 2}
      /\ HasRole(t, Sequence(t)) => Len(roles[t]) = Sequence(t) - EntrySequence(t) + 1
  BY Counts
<1>2. seq - EntrySequence(t) + 1 \notin 1 .. Len(roles[t])
  BY DEF HasRole, Round
<1> QED BY <1>1, <1>2

LEMMA RoleCommits ==
    ASSUME IInv, NEW c \in Callers, PersistResult(c)
    PROVE  OneRoleMoves
<1>1. PICK t, seq : t = at[c].task /\ seq = at[c].seq
  OBVIOUS
<1>2. t \in Tasks /\ seq \in Nat /\ HasRole(t, seq)
  <2>1. pc[c] = "TURN"
    BY DEF PersistResult
  <2> QED BY <1>1, <2>1 DEF IInv, CallerOK, Fits, Execution, Provider
<1>3. CASE MayPersist(t, seq)
  <2>1. PICK outcome, works, head :
          /\ outcome \in Outcomes(Stage(t))
          /\ works \in (IF RoleWrites(t, Stage(t)) THEN Works ELSE {FALSE})
          /\ head = (IF works \/ tree[t].dirty THEN Fresh(t) ELSE tree[t].head)
          /\ SetRole(t, seq, [Role(t, seq) EXCEPT !.phase = "SUCCEEDED", !.outcome = outcome,
                                                  !.head = head])
    BY <1>1, <1>3 DEF PersistResult
  <2>2. IsRole(Role(t, seq))
    BY <1>2 DEF IInv, RolesOK, RoleOK, HasRole, Role
  <2>3. PICK old : old = Role(t, seq)
    OBVIOUS
  <2>4. PICK new : new = [old EXCEPT !.phase = "SUCCEEDED", !.outcome = outcome, !.head = head]
    OBVIOUS
  <2>5. /\ new.base = old.base /\ new.claimed = old.claimed
        /\ new.outcome = outcome /\ new.head = head /\ IsRole(new)
    BY <2>2, <2>3, <2>4 DEF IsRole
  <2>6. ~RoleWrites(t, Stage(t)) => head = old.base
    BY <1>3, <2>1, <2>3 DEF MayPersist
  <2>7. Sequence(t) = seq
    BY <1>3 DEF MayPersist, AuthorizationCurrent
  <2>8. MovesOn(t, seq, new)
    BY <1>2, <2>1, <2>3, <2>4, <2>5, <2>6, <2>7 DEF MovesOn
  <2> QED BY <1>2, <2>8 DEF OneRoleMoves
<1>4. CASE ~MayPersist(t, seq)
  BY <1>1, <1>4 DEF PersistResult, OneRoleMoves
<1> QED BY <1>3, <1>4

(* Which steps touch a role at all.                                        *)
LEMMA RolesMoveOnlyHere ==
    ASSUME Next
    PROVE  \/ UNCHANGED roles
           \/ \E c \in Callers :
                 \/ AuthorizeCurrentRole(c)
                 \/ Reserve(c) \/ Claim(c) \/ BindThread(c) \/ StartRun(c) \/ PersistResult(c)
                 \/ FinalizeFailed(c)
<1>1. ASSUME NEW c \in Callers,
             \/ Prepare(c) \/ EnterExecution(c) \/ ReserveDispatch(c) \/ ResumeDispatch(c)
             \/ KeepDispatch(c) \/ InspectRole(c) \/ ReconcileFound(c)
      PROVE  UNCHANGED roles
  BY <1>1 DEF Prepare, EnterExecution, ReserveDispatch, ResumeDispatch, KeepDispatch,
              InspectRole, ReconcileFound, storeVars
<1>2. ASSUME NEW c \in Callers,
             ValidateTurnStart(c) \/ ReconcileResult(c) \/ TurnFails(c) \/ Crash(c)
      PROVE  UNCHANGED roles
  BY <1>2 DEF ValidateTurnStart, ReconcileResult, TurnFails, Crash, storeVars
<1>3. ASSUME NEW t \in Tasks, AuthorizeManualStart(t) \/ Pause(t) \/ Unpause(t) \/ Drift(t)
      PROVE  UNCHANGED roles
  BY <1>3 DEF AuthorizeManualStart, Pause, Unpause, Drift, storeVars
<1>4. AskForReplan => UNCHANGED roles
  BY DEF AskForReplan
<1> QED BY <1>1, <1>2, <1>3, <1>4 DEF Next, Preparing, Executing

LEMMA RolesMove == ASSUME IInv, Next PROVE OneRoleMoves
<1>1. ASSUME NEW c \in Callers, AuthorizeCurrentRole(c) PROVE OneRoleMoves
  <2>1. PICK t, seq : t = at[c].task /\ seq = at[c].seq
    OBVIOUS
  <2>2. /\ t \in Tasks /\ seq \in 1 .. Sequence(t) /\ seq >= EntrySequence(t)
        /\ ~HasRole(t, seq)
    BY <1>1, <2>1 DEF AuthorizeCurrentRole, IInv, CallerOK, Fits, Preparation
  <2>3. ~HasRole(t, Sequence(t))
    BY <2>2, LaterToo
  <2>4. CASE MayAuthorize(t)
    <3>1. Authorizes(t)
      BY <1>1, <2>1, <2>3, <2>4 DEF AuthorizeCurrentRole, Authorizes
    <3> QED BY <2>2, <3>1 DEF OneRoleMoves
  <2>5. CASE ~MayAuthorize(t)
    BY <1>1, <2>1, <2>5 DEF AuthorizeCurrentRole, OneRoleMoves
  <2> QED BY <2>4, <2>5
<1>2. ASSUME NEW c \in Callers,
             Reserve(c) \/ Claim(c) \/ BindThread(c) \/ StartRun(c) \/ FinalizeFailed(c)
      PROVE  OneRoleMoves
  <2>1. PICK t, seq : t = at[c].task /\ seq = at[c].seq
    OBVIOUS
  <2>2. t \in Tasks /\ seq \in Nat /\ HasRole(t, seq)
    BY <1>2, <2>1 DEF Reserve, Claim, BindThread, StartRun, FinalizeFailed,
                      IInv, CallerOK, Fits, Execution, Provider
  <2>3. PICK old : old = Role(t, seq)
    OBVIOUS
  <2>4. IsRole(old)
    BY <2>2, <2>3 DEF IInv, RolesOK, RoleOK, HasRole, Role
  <2>5. \/ UNCHANGED roles
        \/ \E phase \in {"CREATED", "RUNNING", "FAILED"} :
              SetRole(t, seq, [old EXCEPT !.phase = phase])
        \/ MayClaim(t, seq) /\ SetRole(t, seq, [old EXCEPT !.claimed = TRUE])
        \/ MayBind(t, seq) /\ SetRole(t, seq, [old EXCEPT !.bound = TRUE])
    BY <1>2, <2>1, <2>3 DEF Reserve, Claim, BindThread, StartRun, FinalizeFailed
  <2>6. ASSUME NEW phase \in {"CREATED", "RUNNING", "FAILED"},
               SetRole(t, seq, [old EXCEPT !.phase = phase])
        PROVE  OneRoleMoves
    <3>1. PICK new : new = [old EXCEPT !.phase = phase]
      OBVIOUS
    <3>2. /\ IsRole(new) /\ new.base = old.base /\ new.claimed = old.claimed
          /\ new.head = old.head /\ new.outcome = old.outcome /\ new.phase = phase
      BY <2>4, <3>1 DEF IsRole
    <3>3. MovesOn(t, seq, new)
      BY <2>2, <2>3, <2>6, <3>1, <3>2 DEF MovesOn
    <3> QED BY <2>2, <3>3 DEF OneRoleMoves
  <2>7. ASSUME old.phase = "CREATED",
               NEW new, SetRole(t, seq, new),
               new \in {[old EXCEPT !.claimed = TRUE], [old EXCEPT !.bound = TRUE]}
        PROVE  OneRoleMoves
    <3>1. /\ IsRole(new) /\ new.base = old.base /\ (old.claimed => new.claimed)
          /\ new.head = old.head /\ new.outcome = old.outcome /\ new.phase = old.phase
      BY <2>4, <2>7 DEF IsRole
    <3>2. MovesOn(t, seq, new)
      BY <2>2, <2>3, <2>7, <3>1 DEF MovesOn
    <3> QED BY <2>2, <3>2 DEF OneRoleMoves
  <2>8. (MayClaim(t, seq) \/ MayBind(t, seq)) => old.phase = "CREATED"
    BY <2>3 DEF MayClaim, MayBind
  <2> QED BY <2>5, <2>6, <2>7, <2>8 DEF OneRoleMoves
<1> QED BY <1>1, <1>2, RolesMoveOnlyHere, RoleCommits DEF OneRoleMoves

LEMMA NotBoth == ASSUME Next PROVE UNCHANGED history \/ UNCHANGED roles
<1>1. ASSUME NEW c \in Callers, Preparing(c) PROVE UNCHANGED history \/ UNCHANGED roles
  BY <1>1 DEF Preparing, Prepare, EnterExecution, ReserveDispatch, ResumeDispatch, KeepDispatch,
              AuthorizeCurrentRole, InspectRole, ReconcileFound, storeVars, workflowVars
<1>2. ASSUME NEW c \in Callers, Executing(c) \/ TurnFails(c) \/ Crash(c)
      PROVE  UNCHANGED history \/ UNCHANGED roles
  BY <1>2 DEF Executing, Reserve, Claim, BindThread, ValidateTurnStart, StartRun, PersistResult,
              ReconcileResult, FinalizeFailed, TurnFails, Crash, storeVars, workflowVars
<1>3. ASSUME NEW t \in Tasks, AuthorizeManualStart(t) \/ Pause(t) \/ Unpause(t) \/ Drift(t)
      PROVE  UNCHANGED history
  BY <1>3 DEF AuthorizeManualStart, Pause, Unpause, Drift, storeVars, workflowVars
<1>4. AskForReplan => UNCHANGED history
  BY DEF AskForReplan, RequestGraphChange
<1> QED BY <1>1, <1>2, <1>3, <1>4 DEF Next

(* A role is judged by its stage, which no later step changes.             *)
LEMMA RoleStays ==
    ASSUME IInv, NEW t \in Tasks, Extends(t), NEW k \in 1 .. Len(roles[t]),
           roles'[t][k] = roles[t][k], k > 1 => roles'[t][k - 1].head = roles[t][k - 1].head
    PROVE  RoleOK(t, k)'
<1> DEFINE n == k + EntrySequence(t) - 1
<1>1. n \in 1 .. Sequence(t)
  BY Counts
<1> HIDE DEF n
<1>2. StageBefore(t, n)' = StageBefore(t, n)
  BY <1>1, StagesStay DEF IInv, WorkflowInv
<1>3. RoleOK(t, k)
  BY DEF IInv, RolesOK
<1>4. StageBefore(t, k + EntrySequence(t) - 1)' = StageBefore(t, k + EntrySequence(t) - 1)
  BY <1>2 DEF n
<1>5. EntrySequence(t)' = EntrySequence(t)
  BY DEF EntrySequence
<1> QED BY <1>3, <1>4 DEF RoleOK, RoleStage, Writes, RoleWrites

RolesFollow ==
  /\ roles' = [t \in Tasks |-> roles'[t]]
  /\ \A t \in Tasks : IsSequence(roles'[t])
  /\ \A t \in Tasks : RolesOK(t)'

(* A Subtask that stands still while nothing happens to its roles.         *)
LEMMA BothStand ==
    ASSUME IInv, NEW t \in Tasks, history'[t] = history[t], roles'[t] = roles[t]
    PROVE  IsSequence(roles'[t]) /\ RolesOK(t)'
<1>1. Extends(t)
  BY Lengths DEF IInv, WorkflowInv, Extends
<1>2. \A k \in 1 .. Len(roles[t]) : RoleOK(t, k)'
  BY <1>1, RoleStays
<1>3. RolesOK(t)
  BY DEF IInv
<1> QED BY <1>2, <1>3 DEF IInv, StoreTypes, RolesOK, Round, EntrySequence, LastRole,
                          Sequence, Stage, StageBefore

LEMMA RolesFollowTheWorkflow ==
    ASSUME IInv, NEW t \in Tasks, GoesOn(t), UNCHANGED roles
    PROVE  RolesFollow
<1>1. roles = [u \in Tasks |-> roles[u]] /\ \A u \in Tasks : IsSequence(roles[u])
  BY DEF IInv, StoreTypes
<1>2. \A u \in Tasks \ {t} : RolesOK(u)'
  BY BothStand DEF GoesOn
<1>3. /\ Len(roles[t]) \in Nat /\ Sequence(t) \in Nat \ {0} /\ EntrySequence(t) \in {1, 2}
      /\ Len(roles[t]) \in {Sequence(t) - EntrySequence(t), Sequence(t) - EntrySequence(t) + 1}
      /\ Sequence(t)' = Sequence(t) + 1
  BY Counts DEF GoesOn
<1>4. Len(roles[t]) = Sequence(t) - EntrySequence(t) + 1
  <2>1. CASE Stage(t) = "MATERIALIZE"
    <3>1. Sequence(t) < EntrySequence(t)
      BY <1>3, <2>1, StagesOf DEF IInv, WorkflowInv, Stage
    <3> QED BY <1>3, <3>1
  <2>2. CASE Stage(t) # "MATERIALIZE"
    BY <2>2, Counts DEF GoesOn
  <2> QED BY <2>1, <2>2
<1>5. Round(t, Sequence(t))' = Len(roles[t]) + 1
  BY <1>3, <1>4 DEF Round, EntrySequence
<1>6. \A k \in 1 .. Len(roles[t]) : RoleOK(t, k)'
  BY RoleStays DEF GoesOn
<1>7. Stage(t)' = "COMPLETE" => LastRole(t)'.outcome = "PASS"
  BY <1>4 DEF GoesOn, Role, Round, LastRole
<1>8. RolesOK(t)'
  BY <1>3, <1>5, <1>6, <1>7 DEF RolesOK
<1> QED BY <1>1, <1>2, <1>8 DEF RolesFollow

LEMMA RolesFollowAuthorization ==
    ASSUME IInv, NEW t \in Tasks, Authorizes(t), UNCHANGED history
    PROVE  RolesFollow
<1> DEFINE role == NewRole(tree[t].head)
<1>0. PICK last : last = Len(roles[t]) + 1
  OBVIOUS
<1>1. roles = [u \in Tasks |-> roles[u]] /\ \A u \in Tasks : IsSequence(roles[u])
  BY DEF IInv, StoreTypes
<1>2. /\ roles' = [u \in Tasks |-> roles'[u]] /\ roles'[t] = Append(roles[t], role)
      /\ \A u \in Tasks \ {t} : roles'[u] = roles[u]
  BY <1>1 DEF Authorizes
<1>3. \A u \in Tasks \ {t} : IsSequence(roles'[u]) /\ RolesOK(u)'
  BY <1>2, BothStand
<1>4. /\ IsSequence(roles'[t]) /\ Len(roles'[t]) = last /\ roles'[t][last] = role
      /\ \A k \in 1 .. Len(roles[t]) : roles'[t][k] = roles[t][k]
      /\ Len(roles[t]) \in Nat
  <2> HIDE DEF role
  <2> QED BY <1>0, <1>1, <1>2, Appended
<1>5. /\ Sequence(t) \in Nat \ {0} /\ EntrySequence(t) \in {1, 2}
      /\ Len(roles[t]) \in {Sequence(t) - EntrySequence(t), Sequence(t) - EntrySequence(t) + 1}
  BY Counts
<1>6. Len(roles[t]) = Sequence(t) - EntrySequence(t) /\ last = Round(t, Sequence(t))
  <2>1. Sequence(t) - EntrySequence(t) + 1 \notin 1 .. Len(roles[t])
    BY DEF Authorizes, HasRole, Round
  <2>2. Sequence(t) >= EntrySequence(t)
    <3>1. Stage(t) # "MATERIALIZE"
      BY DEF Authorizes, MayAuthorize, RoleStages
    <3> QED BY <1>5, <3>1, StagesOf DEF IInv, WorkflowInv, Stage
  <2> QED BY <1>0, <1>4, <1>5, <2>1, <2>2 DEF Round
<1>7. ASSUME NEW k \in 1 .. Len(roles[t]) PROVE RoleOK(t, k)'
  <2>1. Extends(t)
    BY Lengths DEF IInv, WorkflowInv, Extends
  <2>2. k > 1 => k - 1 \in 1 .. Len(roles[t])
    BY <1>4
  <2> QED BY <1>4, <2>1, <2>2, RoleStays
<1>8. RoleOK(t, last)'
  <2>1. /\ IsRole(role) /\ role.outcome = "NONE" /\ role.phase = "AUTHORIZED"
        /\ role.base = tree[t].head
    BY DEF IsRole, NewRole
  <2>2. last > 1 => tree[t].head = roles[t][last - 1].head
    <3> SUFFICES ASSUME last > 1 PROVE tree[t].head = roles[t][last - 1].head
      OBVIOUS
    <3>1. Sequence(t) > EntrySequence(t)
      BY <1>0, <1>4, <1>5, <1>6
    <3>2. Stage(t) # "EXECUTE"
      BY <1>5, <3>1, StagesOf DEF IInv, WorkflowInv, Stage
    <3>3. Role(t, Sequence(t) - 1).head = tree[t].head
      BY <3>2 DEF Authorizes, MayAuthorize
    <3>4. Round(t, Sequence(t) - 1) = last - 1
      BY <1>5, <1>6 DEF Round
    <3> QED BY <3>3, <3>4 DEF Role
  <2>3. last > 1 => last - 1 \in 1 .. Len(roles[t])
    BY <1>0, <1>4
  <2> HIDE DEF role
  <2>4. IsRole(roles'[t][last])
    BY <1>4, <2>1
  <2>5. last > 1 => roles'[t][last].base = roles'[t][last - 1].head
    BY <1>4, <2>1, <2>2, <2>3
  <2>6. roles'[t][last].outcome = "NONE" /\ roles'[t][last].phase # "SUCCEEDED"
    BY <1>4, <2>1
  <2> QED BY <2>4, <2>5, <2>6 DEF RoleOK, IsRole
<1>9. Stage(t)' # "COMPLETE" /\ Sequence(t)' = Sequence(t)
  BY DEF Authorizes, MayAuthorize, RoleStages, Stage, StageBefore, Sequence
<1>10. \A k \in 1 .. Len(roles'[t]) : RoleOK(t, k)'
  <2>1. ASSUME NEW k \in 1 .. Len(roles'[t]) PROVE k \in 1 .. Len(roles[t]) \/ k = last
    BY <1>0, <1>4
  <2> QED BY <1>7, <1>8, <2>1
<1>11. RolesOK(t)'
  BY <1>4, <1>6, <1>9, <1>10 DEF RolesOK, Round, EntrySequence
<1> QED BY <1>2, <1>3, <1>4, <1>11 DEF RolesFollow

LEMMA RolesFollowARole ==
    ASSUME IInv, NEW t \in Tasks, NEW seq \in Nat, NEW new, MovesOn(t, seq, new),
           UNCHANGED history
    PROVE  /\ RolesFollow
           /\ \A u \in Tasks : Len(roles'[u]) = Len(roles[u])
           /\ \A u \in Tasks \ {t} : roles'[u] = roles[u]
           /\ \A k \in (1 .. Len(roles[t])) \ {Round(t, seq)} : roles'[t][k] = roles[t][k]
           /\ roles'[t][Round(t, seq)] = new
<1>1. PICK m : m = Round(t, seq)
  OBVIOUS
<1>2. PICK old : old = Role(t, seq)
  OBVIOUS
<1>3. roles = [u \in Tasks |-> roles[u]] /\ \A u \in Tasks : IsSequence(roles[u])
  BY DEF IInv, StoreTypes
<1>4. m \in 1 .. Len(roles[t]) /\ old = roles[t][m]
  BY <1>1, <1>2 DEF MovesOn, HasRole, Role
<1>5. /\ roles' = [u \in Tasks |-> roles'[u]]
      /\ roles'[t] = [roles[t] EXCEPT ![m] = new]
      /\ \A u \in Tasks \ {t} : roles'[u] = roles[u]
  BY <1>1, <1>3 DEF MovesOn, SetRole
<1>6. /\ IsSequence(roles'[t]) /\ Len(roles'[t]) = Len(roles[t]) /\ roles'[t][m] = new
      /\ \A k \in (1 .. Len(roles[t])) \ {m} : roles'[t][k] = roles[t][k]
  <2>1. PICK s : s = roles[t]
    OBVIOUS
  <2>2. IsSequence(s) /\ m \in 1 .. Len(s) /\ roles'[t] = [s EXCEPT ![m] = new]
    BY <1>3, <1>4, <1>5, <2>1
  <2>3. /\ IsSequence([s EXCEPT ![m] = new]) /\ Len([s EXCEPT ![m] = new]) = Len(s)
        /\ [s EXCEPT ![m] = new][m] = new
        /\ \A k \in (1 .. Len(s)) \ {m} : [s EXCEPT ![m] = new][k] = s[k]
    BY <2>2, Replaced
  <2> QED BY <2>1, <2>2, <2>3
<1>7. /\ IsRole(new) /\ new.base = old.base
      /\ \/ new.head = old.head /\ new.outcome = old.outcome /\ new.phase # "SUCCEEDED"
         \/ /\ Sequence(t) = seq /\ new.outcome \in Outcomes(Stage(t))
            /\ ~RoleWrites(t, Stage(t)) => new.head = new.base
  BY <1>2 DEF MovesOn
<1>8. /\ Len(roles[t]) \in Nat /\ Sequence(t) \in Nat \ {0} /\ EntrySequence(t) \in {1, 2}
      /\ Len(roles[t]) \in {Sequence(t) - EntrySequence(t), Sequence(t) - EntrySequence(t) + 1}
      /\ m = seq - EntrySequence(t) + 1 /\ m + EntrySequence(t) - 1 = seq
  <2>1. /\ Len(roles[t]) \in Nat /\ Sequence(t) \in Nat \ {0} /\ EntrySequence(t) \in {1, 2}
        /\ Len(roles[t]) \in {Sequence(t) - EntrySequence(t), Sequence(t) - EntrySequence(t) + 1}
    BY Counts
  <2> QED BY <1>1, <2>1 DEF Round
<1>9. Sequence(t) = seq => m = Len(roles[t])
  BY <1>4, <1>8
<1>10. new.head = old.head \/ m = Len(roles[t])
  BY <1>7, <1>9
<1>11. Extends(t)
  BY Lengths DEF IInv, WorkflowInv, Extends
<1>12. ASSUME NEW k \in (1 .. Len(roles[t])) \ {m} PROVE RoleOK(t, k)'
  <2>1. k > 1 => k - 1 \in 1 .. Len(roles[t])
    BY <1>8
  <2>2. k > 1 => roles'[t][k - 1].head = roles[t][k - 1].head
    <3>1. CASE k - 1 = m
      <4>1. m # Len(roles[t])
        BY <1>8, <3>1
      <4> QED BY <1>4, <1>6, <1>10, <3>1, <4>1
    <3>2. CASE k - 1 # m
      BY <1>6, <2>1, <3>2
    <3> QED BY <3>1, <3>2
  <2> QED BY <1>6, <1>11, <2>2, RoleStays
<1>13. RoleOK(t, m)'
  <2>1. RoleOK(t, m)
    BY <1>4 DEF IInv, RolesOK
  <2>2. /\ StageBefore(t, m + EntrySequence(t) - 1)' = StageBefore(t, m + EntrySequence(t) - 1)
        /\ EntrySequence(t)' = EntrySequence(t)
    BY DEF StageBefore, EntrySequence
  <2>3. PICK stage : stage = StageBefore(t, m + EntrySequence(t) - 1)
    OBVIOUS
  <2>4. Sequence(t) = seq => stage = Stage(t)
    BY <1>8, <2>3 DEF Stage
  <2>5. IsRole(roles'[t][m])
    BY <1>6, <1>7
  <2>6. new.outcome \in {"NONE"} \cup Outcomes(stage)
    BY <1>4, <1>7, <2>1, <2>3, <2>4 DEF RoleOK, RoleStage
  <2>7. m > 1 => roles'[t][m].base = roles'[t][m - 1].head
    <3>1. m > 1 => m - 1 \in (1 .. Len(roles[t])) \ {m}
      BY <1>4, <1>8
    <3> QED BY <1>4, <1>6, <1>7, <2>1, <3>1 DEF RoleOK
  <2>8. (new.phase = "SUCCEEDED" /\ ~RoleWrites(t, stage)) => new.head = new.base
    BY <1>7, <2>4
  <2> QED BY <1>6, <2>2, <2>3, <2>5, <2>6, <2>7, <2>8 DEF RoleOK, RoleStage, Writes, RoleWrites, IsRole
<1>14. Stage(t)' = Stage(t) /\ Sequence(t)' = Sequence(t) /\ EntrySequence(t)' = EntrySequence(t)
  BY DEF Stage, StageBefore, Sequence, EntrySequence
<1>15. Stage(t) = "COMPLETE" => /\ Len(roles[t]) = Round(t, Sequence(t)) - 1
                                /\ roles'[t][Len(roles[t])].outcome = "PASS"
  <2>1. ASSUME Stage(t) = "COMPLETE"
        PROVE  /\ Len(roles[t]) = Round(t, Sequence(t)) - 1
               /\ roles[t][Len(roles[t])].outcome = "PASS"
    BY <2>1 DEF IInv, RolesOK, LastRole
  <2>2. ASSUME Stage(t) = "COMPLETE" PROVE new.outcome = old.outcome
    <3>1. Sequence(t) # seq
      BY <1>4, <1>8, <1>9, <2>1, <2>2 DEF Round
    <3> QED BY <1>7, <3>1
  <2>3. Len(roles[t]) \in 1 .. Len(roles[t])
    BY <1>4, <1>8
  <2> QED BY <1>4, <1>6, <2>1, <2>2, <2>3
<1>16. RolesOK(t)'
  <2>1. Len(roles[t]) \in {Round(t, Sequence(t)) - 1, Round(t, Sequence(t))}
    BY DEF IInv, RolesOK
  <2> QED BY <1>6, <1>12, <1>13, <1>14, <1>15, <2>1 DEF RolesOK, Round, LastRole
<1>17. \A u \in Tasks \ {t} : IsSequence(roles'[u]) /\ RolesOK(u)'
  BY <1>5, BothStand
<1> QED BY <1>1, <1>5, <1>6, <1>16, <1>17 DEF RolesFollow

(* What callers rely on: nothing is taken back.                            *)
Grows ==
  \A t \in Tasks :
    /\ Sequence(t) \in Nat /\ Sequence(t)' \in Nat /\ Sequence(t) <= Sequence(t)'
    /\ Len(roles[t]) \in Nat /\ Len(roles'[t]) \in Nat /\ Len(roles[t]) <= Len(roles'[t])
    /\ \A k \in 1 .. Len(roles[t]) :
         /\ roles[t][k].claimed => roles'[t][k].claimed
         /\ roles[t][k].outcome # "NONE" => roles'[t][k].outcome # "NONE"

LEMMA RolesKept == ASSUME IInv, Next PROVE RolesFollow /\ Grows
<1>1. ASSUME NEW t \in Tasks
      PROVE  Sequence(t) \in Nat /\ Sequence(t)' \in Nat /\ Sequence(t) <= Sequence(t)'
  <2>1. Sequence(t) \in Nat /\ Sequence(t) = Len(history[t]) + 1
    BY Lengths DEF IInv, WorkflowInv
  <2>2. Sequence(t)' = Sequence(t) \/ Sequence(t)' = Sequence(t) + 1
    BY WorkflowKept DEF OneGoesOn, GoesOn, Sequence
  <2> QED BY <2>1, <2>2
<1>2. \A t \in Tasks : Len(roles[t]) \in Nat
  BY Counts
<1>3. CASE UNCHANGED roles
  <2>1. RolesFollow
    <3>1. CASE UNCHANGED history
      BY <1>3, <3>1, BothStand DEF RolesFollow, IInv, StoreTypes
    <3>2. CASE \E t \in Tasks : GoesOn(t)
      BY <1>3, <3>2, RolesFollowTheWorkflow
    <3> QED BY <3>1, <3>2, WorkflowKept DEF OneGoesOn
  <2>2. Grows
    BY <1>1, <1>2, <1>3 DEF Grows
  <2> QED BY <2>1, <2>2
<1>4. ASSUME NEW t \in Tasks, Authorizes(t), UNCHANGED history PROVE RolesFollow /\ Grows
  <2>1. RolesFollow
    BY <1>4, RolesFollowAuthorization
  <2>2. /\ \A u \in Tasks \ {t} : roles'[u] = roles[u]
        /\ roles'[t] = Append(roles[t], NewRole(tree[t].head))
    BY <1>4 DEF Authorizes, IInv, StoreTypes
  <2>3. /\ Len(roles'[t]) = Len(roles[t]) + 1
        /\ \A k \in 1 .. Len(roles[t]) : roles'[t][k] = roles[t][k]
    BY <2>2, Appended DEF IInv, StoreTypes
  <2>4. Grows
    BY <1>1, <1>2, <2>2, <2>3 DEF Grows
  <2> QED BY <2>1, <2>4
<1>5. ASSUME NEW t \in Tasks, NEW seq \in Nat, NEW new, MovesOn(t, seq, new), UNCHANGED history
      PROVE  RolesFollow /\ Grows
  <2>1. PICK m : m = Round(t, seq)
    OBVIOUS
  <2>2. PICK old : old = Role(t, seq)
    OBVIOUS
  <2>3. /\ RolesFollow
        /\ \A u \in Tasks : Len(roles'[u]) = Len(roles[u])
        /\ \A u \in Tasks \ {t} : roles'[u] = roles[u]
        /\ \A k \in (1 .. Len(roles[t])) \ {m} : roles'[t][k] = roles[t][k]
        /\ roles'[t][m] = new
    BY <1>5, <2>1, RolesFollowARole
  <2>4. /\ old = roles[t][m] /\ (old.claimed => new.claimed)
        /\ old.outcome # "NONE" => new.outcome # "NONE"
    BY <1>5, <2>1, <2>2 DEF MovesOn, Role, Outcomes
  <2>5. Grows
    BY <1>1, <1>2, <2>3, <2>4 DEF Grows
  <2> QED BY <2>3, <2>5
<1> QED BY <1>3, <1>4, <1>5, RolesMove, NotBoth DEF OneRoleMoves
-----------------------------------------------------------------------------
(***************************************************************************)
(* Receipts and checkouts.                                                 *)
(***************************************************************************)
Taking(status) == status \in {"RESERVED", "ACTIVE"}

Open == {t \in Tasks : Taking(receipt[t])}

(* A slot is taken by one dispatch that found it free, and given up by any.*)
TakesSlot(t) ==
  /\ SlotFree(t, 2) \/ SlotFree(t, MaxActive)
  /\ \A u \in Tasks \ {t} : Taking(receipt'[u]) => u \in OccupiedDispatches

SlotsMove ==
  \/ \A u \in Tasks : Taking(receipt'[u]) => Taking(receipt[u])
  \/ \E t \in Tasks : TakesSlot(t)

LEMMA ReceiptsMove ==
    ASSUME receipt \in [Tasks -> Receipts], CallerTypes, \A c \in Callers : CallerOK(c), Next
    PROVE  receipt' \in [Tasks -> Receipts] /\ SlotsMove
<1> DEFINE Goal == receipt' \in [Tasks -> Receipts] /\ SlotsMove
<1>1. Retained \in [Tasks -> Receipts] /\ \A u \in Tasks : Taking(Retained[u]) => Taking(receipt[u])
  BY DEF Retained, Receipts, Taking
<1>2. /\ Reconciled \in [Tasks -> Receipts]
      /\ \A u \in Tasks : Taking(Reconciled[u]) => Taking(receipt[u])
  BY DEF Reconciled, Receipts, Taking
<1>3. ASSUME UNCHANGED receipt \/ receipt' = Retained \/ receipt' = Reconciled PROVE Goal
  BY <1>1, <1>2, <1>3 DEF SlotsMove
<1>4. ASSUME NEW c \in Callers, pc[c] # "IDLE" PROVE at[c].task \in Tasks
  BY <1>4 DEF CallerOK, Fits
<1>5. ASSUME NEW t \in Tasks, NEW status \in Receipts, receipt' = [Retained EXCEPT ![t] = status],
             SlotFree(t, 2) \/ SlotFree(t, MaxActive)
      PROVE  Goal
  <2>1. \A u \in Tasks \ {t} : Taking(receipt'[u]) => u \in OccupiedDispatches
    BY <1>1, <1>5 DEF OccupiedDispatches, Taking
  <2>2. receipt' \in [Tasks -> Receipts]
    BY <1>1, <1>5
  <2> QED BY <1>5, <2>1, <2>2 DEF SlotsMove, TakesSlot
<1>6. ASSUME NEW c \in Callers, ReserveDispatch(c) \/ ResumeDispatch(c) PROVE Goal
  <2>1. PICK t : t = at[c].task
    OBVIOUS
  <2>2. t \in Tasks
    BY <1>4, <1>6, <2>1 DEF ReserveDispatch, ResumeDispatch
  <2>3. /\ SlotFree(t, 2) \/ SlotFree(t, MaxActive)
        /\ \E status \in {"RESERVED", "ACTIVE"} : receipt' = [Retained EXCEPT ![t] = status]
    BY <1>6, <2>1 DEF ReserveDispatch, ResumeDispatch, MayReserveDispatch, MayResumeDispatch
  <2> QED BY <1>5, <2>2, <2>3 DEF Receipts
<1>7. ASSUME NEW t \in Tasks, NEW status, receipt' = [receipt EXCEPT ![t] = status],
             status \in {"COMPLETED", "HUMAN_REQUIRED"} \/
             (receipt[t] = "RESERVED" /\ status = "ACTIVE")
      PROVE  Goal
  BY <1>7 DEF SlotsMove, Taking, Receipts
<1>8. ASSUME NEW c \in Callers, AuthorizeCurrentRole(c) PROVE Goal
  <2>1. PICK t : t = at[c].task
    OBVIOUS
  <2>2. t \in Tasks
    BY <1>4, <1>8, <2>1 DEF AuthorizeCurrentRole
  <2>3. \/ UNCHANGED receipt
        \/ receipt' = [receipt EXCEPT ![t] = IF @ = "RESERVED" THEN "ACTIVE" ELSE @]
    BY <1>8, <2>1 DEF AuthorizeCurrentRole
  <2>4. \/ UNCHANGED receipt
        \/ receipt[t] = "RESERVED" /\ receipt' = [receipt EXCEPT ![t] = "ACTIVE"]
    BY <2>2, <2>3
  <2> QED BY <1>3, <1>7, <2>2, <2>4
<1>9. ASSUME NEW c \in Callers, ReconcileFound(c) \/ ReconcileResult(c) PROVE Goal
  <2>1. PICK t, seq : t = at[c].task /\ seq = at[c].seq
    OBVIOUS
  <2>2. t \in Tasks
    BY <1>4, <1>9, <2>1 DEF ReconcileFound, ReconcileResult
  <2>3. Reconcile(t, seq)
    BY <1>9, <2>1 DEF ReconcileFound, ReconcileResult
  <2>4. \/ UNCHANGED receipt
        \/ \E status \in {"COMPLETED", "HUMAN_REQUIRED"} : Terminalize(t, status)
    BY <2>3 DEF Reconcile
  <2>5. \/ UNCHANGED receipt
        \/ \E status \in {"COMPLETED", "HUMAN_REQUIRED"} : receipt' = [receipt EXCEPT ![t] = status]
    BY <2>4 DEF Terminalize
  <2> QED BY <1>3, <1>7, <2>2, <2>5
<1>10. ASSUME NEW c \in Callers,
              Prepare(c) \/ EnterExecution(c) \/ KeepDispatch(c) \/ InspectRole(c)
       PROVE  Goal
  BY <1>3, <1>10 DEF Prepare, EnterExecution, KeepDispatch, InspectRole, storeVars
<1>11. ASSUME NEW c \in Callers,
              \/ Reserve(c) \/ Claim(c) \/ BindThread(c) \/ ValidateTurnStart(c) \/ StartRun(c)
              \/ PersistResult(c) \/ FinalizeFailed(c) \/ TurnFails(c) \/ Crash(c)
       PROVE  UNCHANGED receipt
  BY <1>11 DEF Reserve, Claim, BindThread, ValidateTurnStart, StartRun, PersistResult,
               FinalizeFailed, TurnFails, Crash, storeVars
<1>12. ASSUME NEW t \in Tasks, AuthorizeManualStart(t) \/ Pause(t) \/ Unpause(t) \/ Drift(t)
       PROVE  UNCHANGED receipt
  BY <1>12 DEF AuthorizeManualStart, Pause, Unpause, Drift, storeVars
<1>13. AskForReplan => UNCHANGED receipt
  BY DEF AskForReplan
<1> QED BY <1>3, <1>6, <1>8, <1>9, <1>10, <1>11, <1>12, <1>13 DEF Next, Preparing, Executing

AreTrees(f) == f = [t \in Tasks |-> f[t]] /\ \A t \in Tasks : IsTree(f[t])

LEMMA TreeChanged ==
    ASSUME AreTrees(tree), NEW t, NEW value
    PROVE  /\ AreTrees([tree EXCEPT ![t].held = value])
           /\ AreTrees([tree EXCEPT ![t].head = value])
           /\ AreTrees([tree EXCEPT ![t].dirty = value])
BY DEF AreTrees, IsTree

LEMMA TreeCleaned ==
    ASSUME AreTrees(tree), NEW t, NEW head
    PROVE  AreTrees([tree EXCEPT ![t].head = head, ![t].dirty = FALSE])
BY DEF AreTrees, IsTree

LEMMA TreesKept == ASSUME AreTrees(tree), Next PROVE AreTrees(tree')
<1>1. ASSUME NEW c \in Callers, NEW i, NEW views, TryFrom(c, i, views) PROVE AreTrees(tree')
  <2>1. UNCHANGED tree \/ \E t : tree' = [tree EXCEPT ![t].held = TRUE]
    BY <1>1 DEF TryFrom, Provisioned
  <2>2. ASSUME NEW t, tree' = [tree EXCEPT ![t].held = TRUE] PROVE AreTrees(tree')
    <3>1. AreTrees([tree EXCEPT ![t].held = TRUE])
      BY TreeChanged
    <3> QED BY <2>2, <3>1
  <2> QED BY <2>1, <2>2
<1>2. ASSUME NEW c \in Callers, Prepare(c) \/ InspectRole(c) PROVE AreTrees(tree')
  <2>1. \/ UNCHANGED tree
        \/ \E i, views : TryFrom(c, i, views)
    BY <1>2 DEF Prepare, InspectRole
  <2> QED BY <1>1, <2>1
<1>3. ASSUME NEW c \in Callers, ReserveDispatch(c) PROVE AreTrees(tree')
  BY <1>3, TreeChanged DEF ReserveDispatch, Provisioned
<1>4. ASSUME NEW c \in Callers, PersistResult(c) PROVE AreTrees(tree')
  <2>1. \/ UNCHANGED tree
        \/ \E t, head : tree' = [tree EXCEPT ![t].head = head, ![t].dirty = FALSE]
    BY <1>4 DEF PersistResult
  <2> QED BY <2>1, TreeCleaned
<1>5. ASSUME NEW c \in Callers, Crash(c) PROVE AreTrees(tree')
  <2>1. \/ UNCHANGED tree
        \/ \E t, head : tree' = [tree EXCEPT ![t].head = head, ![t].dirty = FALSE]
    BY <1>5 DEF Crash
  <2> QED BY <2>1, TreeCleaned
<1>6. ASSUME NEW t \in Tasks, Drift(t) PROVE AreTrees(tree')
  <2>1. \/ \E value : tree' = [tree EXCEPT ![t].dirty = value]
        \/ \E value : tree' = [tree EXCEPT ![t].head = value]
    BY <1>6 DEF Drift
  <2>2. ASSUME NEW value PROVE /\ AreTrees([tree EXCEPT ![t].dirty = value])
                               /\ AreTrees([tree EXCEPT ![t].head = value])
    BY TreeChanged
  <2> QED BY <2>1, <2>2
<1>7. ASSUME NEW c \in Callers,
             \/ EnterExecution(c) \/ ResumeDispatch(c) \/ KeepDispatch(c)
             \/ AuthorizeCurrentRole(c) \/ ReconcileFound(c)
      PROVE  UNCHANGED tree
  BY <1>7 DEF EnterExecution, ResumeDispatch, KeepDispatch, AuthorizeCurrentRole, ReconcileFound,
              storeVars
<1>8. ASSUME NEW c \in Callers,
             \/ Reserve(c) \/ Claim(c) \/ BindThread(c) \/ ValidateTurnStart(c) \/ StartRun(c)
             \/ ReconcileResult(c) \/ FinalizeFailed(c) \/ TurnFails(c)
      PROVE  UNCHANGED tree
  BY <1>8 DEF Reserve, Claim, BindThread, ValidateTurnStart, StartRun, ReconcileResult,
              FinalizeFailed, TurnFails, storeVars
<1>9. ASSUME NEW t \in Tasks, AuthorizeManualStart(t) \/ Pause(t) \/ Unpause(t)
      PROVE  UNCHANGED tree
  BY <1>9 DEF AuthorizeManualStart, Pause, Unpause, storeVars
<1>10. AskForReplan => UNCHANGED tree
  BY DEF AskForReplan
<1> QED BY <1>2, <1>3, <1>4, <1>5, <1>6, <1>7, <1>8, <1>9, <1>10 DEF Next, Preparing, Executing
-----------------------------------------------------------------------------
(***************************************************************************)
(* Callers: where a step leaves the one that took it.                      *)
(***************************************************************************)
Moves(c) ==
  /\ CallerTypes'
  /\ CallerOK(c)'
  /\ \A d \in Callers \ {c} : pc'[d] = pc[d] /\ at'[d] = at[d] /\ seen'[d] = seen[d]
  /\ pc'[c] \in Provider => \/ pc[c] \in Provider /\ at'[c] = at[c]
                            \/ ~Role(at'[c].task, at'[c].seq).claimed

(* Inspected or not, a caller arrives at a place that fits what it holds.  *)
LEMMA Arrives ==
    ASSUME CallerTypes, NEW c \in Callers, NEW place \in Places, NEW t, NEW seq, NEW views,
           GoTo(c, place, t, seq), seen' = [seen EXCEPT ![c] = views],
           Fits(place, t, seq, views)',
           place \in Provider => \/ pc[c] \in Provider /\ at[c] = [task |-> t, seq |-> seq]
                                 \/ ~Role(t, seq).claimed
    PROVE  Moves(c)
<1>1. /\ pc' \in [Callers -> Places] /\ pc'[c] = place
      /\ \A d \in Callers \ {c} : pc'[d] = pc[d]
  BY DEF CallerTypes, GoTo
<1>2. /\ at' = [d \in Callers |-> at'[d]] /\ at'[c] = [task |-> t, seq |-> seq]
      /\ \A d \in Callers \ {c} : at'[d] = at[d]
  BY DEF CallerTypes, GoTo
<1>3. /\ seen' = [d \in Callers |-> seen'[d]] /\ seen'[c] = views
      /\ \A d \in Callers \ {c} : seen'[d] = seen[d]
  BY DEF CallerTypes
<1>4. \A d \in Callers : at[d] = [task |-> at[d].task, seq |-> at[d].seq]
  BY DEF CallerTypes
<1>5. \A d \in Callers : at'[d] = [task |-> at'[d].task, seq |-> at'[d].seq]
  <2>1. at'[c].task = t /\ at'[c].seq = seq
    BY <1>2
  <2> QED BY <1>2, <1>4, <2>1
<1>6. CallerTypes'
  BY <1>1, <1>2, <1>3, <1>5 DEF CallerTypes
<1>7. CallerOK(c)'
  BY <1>1, <1>2, <1>3 DEF CallerOK
<1> QED BY <1>1, <1>2, <1>3, <1>6, <1>7 DEF Moves

(* A caller that keeps what it read.                                       *)
LEMMA ArrivesWithItsViews ==
    ASSUME CallerTypes, NEW c \in Callers, NEW place \in Places, NEW t, NEW seq,
           GoTo(c, place, t, seq), UNCHANGED seen, Fits(place, t, seq, seen[c])',
           place \in Provider => \/ pc[c] \in Provider /\ at[c] = [task |-> t, seq |-> seq]
                                 \/ ~Role(t, seq).claimed
    PROVE  Moves(c)
<1>1. PICK views : views = seen[c]
  OBVIOUS
<1>2. seen'[c] = views
  BY <1>1
<1>3. Fits(place, t, seq, views)'
  BY <1>2
<1>4. seen' = [seen EXCEPT ![c] = views]
  BY <1>1 DEF CallerTypes
<1> QED BY <1>3, <1>4, Arrives

LEMMA Answers == ASSUME CallerTypes, NEW c \in Callers, Answer(c) PROVE Moves(c)
<1>1. "IDLE" \in Places /\ "IDLE" \notin Preparation \cup Execution \cup Provider
  BY DEF Places, Preparation, Execution, Provider
<1>2. PICK t, seq, views : t = Nowhere.task /\ seq = Nowhere.seq /\ views = NothingSeen
  OBVIOUS
<1>3. GoTo(c, "IDLE", t, seq) /\ seen' = [seen EXCEPT ![c] = views]
  BY <1>2 DEF Answer
<1>4. Fits("IDLE", t, seq, views)'
  BY <1>1 DEF Fits
<1> QED BY <1>1, <1>3, <1>4, Arrives

(* What is there stays there.                                              *)
LEMMA RoleRemains ==
    ASSUME Grows, NEW t \in Tasks, NEW seq, HasRole(t, seq)
    PROVE  /\ HasRole(t, seq)'
           /\ Role(t, seq).claimed => Role(t, seq)'.claimed
           /\ Role(t, seq).outcome # "NONE" => Role(t, seq)'.outcome # "NONE"
BY DEF Grows, HasRole, Role, Round, EntrySequence

LEMMA ViewsRemain ==
    ASSUME Grows, NEW views, \A u \in Tasks : views[u] \in 1 .. Sequence(u)
    PROVE  \A u \in Tasks : views[u] \in 1 .. Sequence(u)'
BY DEF Grows

LEMMA FitsRemain ==
    ASSUME Grows, NEW place, NEW t, NEW seq, NEW views, Fits(place, t, seq, views)
    PROVE  Fits(place, t, seq, views)'
<1>1. place # "IDLE" => t \in Tasks /\ seq \in 1 .. Sequence(t)'
  BY DEF Fits, Grows
<1>2. place \in Preparation => \A u \in Tasks : views[u] \in 1 .. Sequence(u)'
  BY ViewsRemain DEF Fits
<1>3. "IDLE" \notin Execution /\ Provider \subseteq Execution /\ "RECONCILE" \in Execution
  BY DEF Execution, Provider
<1>4. EntrySequence(t)' = EntrySequence(t)
  BY DEF EntrySequence
<1>5. place \in Execution =>
        /\ HasRole(t, seq)'
        /\ Role(t, seq).claimed => Role(t, seq)'.claimed
        /\ Role(t, seq).outcome # "NONE" => Role(t, seq)'.outcome # "NONE"
  BY <1>3, RoleRemains DEF Fits
<1> QED BY <1>1, <1>2, <1>3, <1>4, <1>5 DEF Fits

LEMMA LeastElement ==
    ASSUME NEW T, T \subseteq Nat, T # {}
    PROVE  \E x \in T : \A y \in T : x <= y
<1> DEFINE Below == OpToRel(<, Nat)
<1>1. PICK x \in T : \A y \in T : <<y, x>> \notin Below
  BY NatLessThanWellFounded, WFMin
<1>2. ASSUME NEW y \in T PROVE x <= y
  <2>1. x \in Nat /\ y \in Nat
    OBVIOUS
  <2>2. ~(y < x)
    BY <1>1, <2>1 DEF OpToRel
  <2> QED BY <2>1, <2>2
<1> QED BY <1>2

(* The preparation goes on with a Subtask for which there is work, at the  *)
(* stage that the caller read.                                             *)
LEMMA Tries ==
    ASSUME IInv, Grows, NEW c \in Callers, NEW i \in Nat \ {0}, NEW views,
           \A u \in Tasks : views[u] \in 1 .. Sequence(u), TryFrom(c, i, views)
    PROVE  Moves(c)
<1> DEFINE open == {j \in i .. Len(Order) : MayTry(Order[j], views)}
           first == CHOOSE j \in open : \A k \in open : j <= k
<1>1. CallerTypes
  BY DEF IInv
<1>2. CASE Answer(c)
  BY <1>1, <1>2, Answers
<1>3. CASE ~Answer(c)
  <2>1. open # {} /\ open \subseteq Nat
    BY <1>3, OrderAssumption DEF TryFrom
  <2>2. first \in open
    <3>1. \E j \in open : \A k \in open : j <= k
      BY <2>1, LeastElement
    <3> QED BY <3>1
  <2>3. PICK t : t = Order[first]
    OBVIOUS
  <2>4. t \in Tasks
    <3>1. first \in 1 .. Len(Order)
      BY <2>2, OrderAssumption
    <3> QED BY <2>3, <3>1 DEF Tasks
  <2>5. PICK seq : seq = views[t]
    OBVIOUS
  <2>6. PICK place : place = (IF StageBefore(t, seq) = "MATERIALIZE" THEN "ENTER" ELSE "DISPATCH")
    OBVIOUS
  <2>7. GoTo(c, place, t, seq) /\ seen' = [seen EXCEPT ![c] = views]
    BY <1>3, <2>1, <2>3, <2>5, <2>6 DEF TryFrom
  <2>8. seq \in 1 .. Sequence(t) /\ EntrySequence(t) \in {1, 2} /\ Sequence(t) \in Nat
    BY <2>4, <2>5, Lengths DEF IInv, WorkflowInv
  <2>9. IF place = "ENTER" THEN seq + 1 = EntrySequence(t) ELSE seq >= EntrySequence(t)
    <3>1. seq < EntrySequence(t) <=> StageBefore(t, seq) = "MATERIALIZE"
      BY <2>4, <2>8, StagesOf DEF IInv, WorkflowInv
    <3> QED BY <2>6, <2>8, <3>1
  <2>10. place \in {"ENTER", "DISPATCH"} /\ place \in Places
         /\ place \notin Execution /\ place \notin Provider
    BY <2>6 DEF Places, Preparation, Execution, Provider
  <2>11. Fits(place, t, seq, views)
    BY <2>4, <2>8, <2>9, <2>10 DEF Fits, Execution
  <2>12. Fits(place, t, seq, views)'
    BY <2>11, FitsRemain
  <2> QED BY <1>1, <2>7, <2>10, <2>12, Arrives
<1> QED BY <1>2, <1>3

LEMMA PreparingMoves ==
    ASSUME IInv, Next, Grows, RolesFollow, NEW c \in Callers, Preparing(c)
    PROVE  Moves(c)
<1>1. PICK t, seq, views : t = at[c].task /\ seq = at[c].seq /\ views = seen[c]
  OBVIOUS
<1>2. CallerTypes /\ Fits(pc[c], t, seq, views)
  BY <1>1 DEF IInv, CallerOK
<1>3. at[c] = [task |-> t, seq |-> seq]
  BY <1>1 DEF IInv, CallerTypes
<1>4. {"ENTER", "DISPATCH", "ROLE", "RESERVE"} \subseteq Places \ Provider
  BY DEF Places, Preparation, Execution, Provider
<1>5. ASSUME pc[c] \in Preparation
      PROVE  /\ t \in Tasks /\ seq \in 1 .. Sequence(t) /\ seq \in 1 .. Sequence(t)'
             /\ \A u \in Tasks : views[u] \in 1 .. Sequence(u)
             /\ \A u \in Tasks : views[u] \in 1 .. Sequence(u)'
             /\ Sequence(t) \in Nat /\ Sequence(t)' \in Nat /\ Sequence(t) <= Sequence(t)'
             /\ EntrySequence(t) \in {1, 2} /\ EntrySequence(t)' = EntrySequence(t)
  BY <1>2, <1>5, ViewsRemain DEF Fits, Preparation, Grows, EntrySequence
<1>6. ASSUME NEW n, n \in EntrySequence(t) .. Sequence(t)', pc[c] \in Preparation,
             NEW place \in {"DISPATCH", "ROLE"}, GoTo(c, place, t, n), UNCHANGED seen
      PROVE  Moves(c)
  <2>1. Fits(place, t, n, views)'
    BY <1>5, <1>6 DEF Fits, Preparation, Execution, Provider
  <2> QED BY <1>1, <1>2, <1>4, <1>6, <2>1, ArrivesWithItsViews
<1>7. ASSUME NEW n \in 1 .. Sequence(t)', HasRole(t, n)', t \in Tasks, Authorized(c, t, n)
      PROVE  Moves(c)
  <2>1. PICK nothing : nothing = NothingSeen
    OBVIOUS
  <2>2. GoTo(c, "RESERVE", t, n) /\ seen' = [seen EXCEPT ![c] = nothing]
    BY <1>7, <2>1 DEF Authorized
  <2>3. Fits("RESERVE", t, n, nothing)'
    BY <1>7 DEF Fits, Preparation, Provider
  <2> QED BY <1>2, <1>4, <2>2, <2>3, Arrives
<1>8. CASE Prepare(c)
  <2>1. PICK now : now = [u \in Tasks |-> Sequence(u)]
    OBVIOUS
  <2>2. Answer(c) \/ TryFrom(c, 1, now)
    BY <1>8, <2>1 DEF Prepare
  <2>3. \A u \in Tasks : now[u] \in 1 .. Sequence(u)
    BY <2>1, Lengths DEF IInv, WorkflowInv
  <2> QED BY <1>2, <2>2, <2>3, Answers, Tries
<1>9. CASE EnterExecution(c)
  <2>1. pc[c] = "ENTER" /\ pc[c] \in Preparation
    BY <1>9 DEF EnterExecution, Preparation
  <2>2. seq + 1 = EntrySequence(t)
    BY <1>2, <2>1 DEF Fits
  <2>3. CASE AlreadyEntered(t, seq) \/ MayEnter(t, seq)
    <3>1. GoTo(c, "DISPATCH", t, seq + 1) /\ UNCHANGED seen
      BY <1>1, <1>9, <2>3 DEF EnterExecution
    <3>2. Sequence(t)' = seq + 1
      <4>1. CASE AlreadyEntered(t, seq)
        BY <1>1, <1>9, <4>1 DEF EnterExecution, AlreadyEntered, workflowVars, Sequence
      <4>2. CASE ~AlreadyEntered(t, seq)
        <5>1. /\ Stage(t) = "MATERIALIZE" /\ Sequence(t) = seq
              /\ AdvanceDurableWorkflow(t, "EXECUTE", GatesPassed, {})
          BY <1>1, <1>9, <2>3, <4>2 DEF EnterExecution, MayEnter
        <5> QED BY <1>5, <2>1, <5>1, Entered DEF IInv, GoesOn
      <4> QED BY <4>1, <4>2
    <3>3. PICK n : n = seq + 1
      OBVIOUS
    <3>4. n \in EntrySequence(t) .. Sequence(t)'
      BY <1>5, <2>1, <2>2, <3>2, <3>3
    <3> QED BY <1>6, <2>1, <3>1, <3>3, <3>4
  <2>4. CASE ~(AlreadyEntered(t, seq) \/ MayEnter(t, seq))
    BY <1>1, <1>2, <1>9, <2>4, Answers DEF EnterExecution
  <2> QED BY <2>3, <2>4
<1>10. CASE ReserveDispatch(c)
  <2>1. /\ pc[c] = "DISPATCH" /\ Stage(t) = "EXECUTE" /\ UNCHANGED <<history, seen>>
        /\ GoTo(c, "ROLE", t, Sequence(t))
    BY <1>1, <1>10 DEF ReserveDispatch, MayReserveDispatch
  <2>2. pc[c] \in Preparation
    BY <2>1 DEF Preparation
  <2>3. PICK n : n = Sequence(t)
    OBVIOUS
  <2>4. n = EntrySequence(t) /\ Sequence(t)' = n
    BY <1>5, <2>1, <2>2, <2>3, StagesOf DEF IInv, WorkflowInv, Stage, Sequence
  <2> QED BY <1>5, <1>6, <2>1, <2>2, <2>3, <2>4
<1>11. CASE ResumeDispatch(c) \/ KeepDispatch(c)
  <2>1. pc[c] = "DISPATCH" /\ pc[c] \in Preparation
    BY <1>11 DEF ResumeDispatch, KeepDispatch, Preparation
  <2>2. seq \in EntrySequence(t) .. Sequence(t)'
    BY <1>2, <1>5, <2>1 DEF Fits
  <2>3. Answer(c) \/ (GoTo(c, "ROLE", t, seq) /\ UNCHANGED seen)
    BY <1>1, <1>11 DEF ResumeDispatch, KeepDispatch, Continue
  <2> QED BY <1>2, <1>6, <2>1, <2>2, <2>3, Answers
<1>12. CASE AuthorizeCurrentRole(c)
  <2>1. pc[c] = "ROLE" /\ pc[c] \in Preparation /\ UNCHANGED workflowVars
    BY <1>12 DEF AuthorizeCurrentRole, Preparation
  <2>2. CASE MayAuthorize(t)
    <3>1. Authorized(c, t, Sequence(t))
      BY <1>1, <1>12, <2>2 DEF AuthorizeCurrentRole
    <3>2. roles' = [roles EXCEPT ![t] = Append(@, NewRole(tree[t].head))]
      BY <1>1, <1>12, <2>2 DEF AuthorizeCurrentRole
    <3>3. PICK n : n = Sequence(t)
      OBVIOUS
    <3>4. Sequence(t)' = n
      BY <2>1, <3>3 DEF workflowVars, Sequence
    <3>5. Len(roles[t]) \in Nat /\ Len(roles'[t]) = Len(roles[t]) + 1
      <4>1. roles'[t] = Append(roles[t], NewRole(tree[t].head))
        BY <1>5, <2>1, <3>2 DEF IInv, StoreTypes
      <4> QED BY <1>5, <2>1, <4>1, Appended DEF IInv, StoreTypes
    <3>6. /\ Len(roles[t]) \in {n - EntrySequence(t), n - EntrySequence(t) + 1}
          /\ Len(roles'[t]) \in {n - EntrySequence(t), n - EntrySequence(t) + 1}
      <4>1. Len(roles[t]) \in {n - EntrySequence(t), n - EntrySequence(t) + 1}
        BY <1>5, <2>1, <3>3, Counts
      <4>2. Len(roles'[t]) \in {Round(t, n) - 1, Round(t, n)}
        BY <1>5, <2>1, <3>4 DEF RolesFollow, RolesOK, Round, EntrySequence
      <4> QED BY <1>5, <2>1, <3>3, <4>1, <4>2 DEF Round
    <3>7. HasRole(t, n)'
      BY <1>5, <2>1, <3>3, <3>5, <3>6 DEF HasRole, Round
    <3>8. n \in 1 .. Sequence(t)'
      BY <1>5, <2>1, <3>3, <3>4
    <3> QED BY <1>5, <1>7, <2>1, <3>1, <3>3, <3>7, <3>8
  <2>3. CASE ~MayAuthorize(t)
    BY <1>1, <1>2, <1>12, <2>3, Answers DEF AuthorizeCurrentRole
  <2> QED BY <2>2, <2>3
<1>13. CASE InspectRole(c)
  <2>1. pc[c] = "ROLE" /\ pc[c] \in Preparation /\ HasRole(t, seq)
    BY <1>1, <1>13 DEF InspectRole, Preparation
  <2>2. PICK place : place = CHOOSE i \in 1 .. Len(Order) : Order[i] = t
    OBVIOUS
  <2>3. Answer(c) \/ Authorized(c, t, seq) \/ TryFrom(c, place + 1, views)
    BY <1>1, <1>13, <2>2 DEF InspectRole
  <2>4. place + 1 \in Nat \ {0}
    <3>1. \E i \in 1 .. Len(Order) : Order[i] = t
      BY <1>5, <2>1 DEF Tasks
    <3>2. place \in 1 .. Len(Order)
      BY <2>2, <3>1
    <3> QED BY <3>2, OrderAssumption
  <2>5. HasRole(t, seq)'
    BY <1>5, <2>1, RoleRemains
  <2> QED BY <1>2, <1>5, <1>7, <2>1, <2>3, <2>4, <2>5, Answers, Tries
<1>14. CASE ReconcileFound(c)
  <2>1. pc[c] = "ROLE" /\ pc[c] \in Preparation
    BY <1>14 DEF ReconcileFound, Preparation
  <2>2. PICK n : n = Sequence(t)'
    OBVIOUS
  <2>3. Answer(c) \/ (GoTo(c, "DISPATCH", t, n) /\ UNCHANGED seen)
    BY <1>1, <1>14, <2>2 DEF ReconcileFound, Sequence
  <2>4. n \in EntrySequence(t) .. Sequence(t)'
    BY <1>2, <1>5, <2>1, <2>2 DEF Fits
  <2> QED BY <1>2, <1>6, <2>1, <2>3, <2>4, Answers
<1> QED BY <1>8, <1>9, <1>10, <1>11, <1>12, <1>13, <1>14 DEF Preparing

LEMMA ExecutingMoves ==
    ASSUME IInv, Next, Grows, NEW c \in Callers, Executing(c) \/ TurnFails(c) \/ Crash(c)
    PROVE  Moves(c)
<1>1. PICK t, seq, views : t = at[c].task /\ seq = at[c].seq /\ views = seen[c]
  OBVIOUS
<1>2. CallerTypes /\ Fits(pc[c], t, seq, views)
  BY <1>1 DEF IInv, CallerOK
<1>3. at[c] = [task |-> t, seq |-> seq]
  BY <1>1 DEF IInv, CallerTypes
<1>4. ASSUME pc[c] \in Execution
      PROVE  /\ t \in Tasks /\ seq \in 1 .. Sequence(t)' /\ seq \in Nat
             /\ HasRole(t, seq) /\ HasRole(t, seq)'
             /\ Role(t, seq).claimed => Role(t, seq)'.claimed
             /\ pc[c] \in Provider => Role(t, seq)'.claimed
  <2>1. "IDLE" \notin Execution
    BY DEF Execution, Provider
  <2>2. t \in Tasks /\ seq \in 1 .. Sequence(t) /\ HasRole(t, seq)
    BY <1>2, <1>4, <2>1 DEF Fits
  <2> QED BY <1>2, <2>2, RoleRemains DEF Fits, Grows
<1>5. ASSUME NEW place \in Execution, pc[c] \in Execution, Continue(c, place),
             place \in Provider => \/ pc[c] \in Provider
                                   \/ ~Role(t, seq).claimed /\ Role(t, seq)'.claimed,
             place = "RECONCILE" => Role(t, seq)'.outcome # "NONE"
      PROVE  Moves(c)
  <2>1. place \in Places /\ place \notin Preparation /\ place \notin {"ENTER", "DISPATCH", "ROLE"}
    BY DEF Places, Preparation, Execution, Provider
  <2>2. GoTo(c, place, t, seq) /\ UNCHANGED seen
    BY <1>1, <1>5 DEF Continue
  <2>3. Fits(place, t, seq, views)'
    BY <1>4, <1>5, <2>1 DEF Fits
  <2> QED BY <1>1, <1>2, <1>3, <1>5, <2>1, <2>2, <2>3, ArrivesWithItsViews
<1>6. Provider \subseteq Execution /\ {"CLAIM", "RECONCILE"} \subseteq Execution \ Provider
  BY DEF Execution, Provider
<1>7. ASSUME NEW new, SetRole(t, seq, new), HasRole(t, seq), t \in Tasks PROVE Role(t, seq)' = new
  <2>1. PICK m : m = Round(t, seq)
    OBVIOUS
  <2>2. PICK s : s = roles[t]
    OBVIOUS
  <2>3. IsSequence(s) /\ m \in 1 .. Len(s)
    BY <1>7, <2>1, <2>2 DEF HasRole, IInv, StoreTypes
  <2>4. roles'[t] = [s EXCEPT ![m] = new]
    BY <1>7, <2>1, <2>2 DEF SetRole, IInv, StoreTypes
  <2>5. [s EXCEPT ![m] = new][m] = new
    BY <2>3, Replaced
  <2>6. Round(t, seq)' = m
    BY <2>1 DEF Round, EntrySequence
  <2> QED BY <2>4, <2>5, <2>6 DEF Role
<1>8. CASE Reserve(c)
  <2>1. /\ pc[c] \in Execution
        /\ Continue(c, "CLAIM") \/ Answer(c)
    BY <1>8 DEF Reserve, Execution
  <2> QED BY <1>2, <1>5, <1>6, <2>1, Answers
<1>9. CASE Claim(c)
  <2>1. pc[c] \in Execution
    BY <1>9 DEF Claim, Execution
  <2>2. CASE MayClaim(t, seq)
    <3>1. PICK old, new : old = Role(t, seq) /\ new = [old EXCEPT !.claimed = TRUE]
      OBVIOUS
    <3>2. SetRole(t, seq, new) /\ Continue(c, "BIND") /\ ~old.claimed
      BY <1>1, <1>9, <2>2, <3>1 DEF Claim, MayClaim
    <3>3. IsRole(old)
      BY <1>4, <2>1, <3>1 DEF IInv, RolesOK, RoleOK, HasRole, Role
    <3>4. new.claimed
      BY <3>1, <3>3 DEF IsRole
    <3>5. Role(t, seq)'.claimed
      BY <1>4, <1>7, <2>1, <3>2, <3>4
    <3>6. "BIND" \in Execution /\ "BIND" # "RECONCILE"
      BY DEF Execution, Provider
    <3> QED BY <1>5, <2>1, <3>1, <3>2, <3>5, <3>6
  <2>3. CASE ~MayClaim(t, seq)
    BY <1>1, <1>2, <1>9, <2>3, Answers DEF Claim
  <2> QED BY <2>2, <2>3
<1>10. CASE BindThread(c) \/ ValidateTurnStart(c) \/ StartRun(c) \/ TurnFails(c)
  <2>1. /\ pc[c] \in Provider
        /\ \E place \in Provider : Continue(c, place)
    BY <1>10 DEF BindThread, ValidateTurnStart, StartRun, TurnFails, Provider
  <2>2. "RECONCILE" \notin Provider
    BY DEF Provider
  <2> QED BY <1>5, <1>6, <2>1, <2>2
<1>11. CASE PersistResult(c)
  <2>1. pc[c] \in Provider /\ pc[c] \in Execution /\ "FAIL" \in Provider
    BY <1>11 DEF PersistResult, Provider, Execution
  <2>2. CASE MayPersist(t, seq)
    <3>1. PICK outcome, head :
            /\ outcome \in Outcomes(Stage(t))
            /\ SetRole(t, seq, [Role(t, seq) EXCEPT !.phase = "SUCCEEDED", !.outcome = outcome,
                                                    !.head = head])
      BY <1>1, <1>11, <2>2 DEF PersistResult
    <3>2. Continue(c, "RECONCILE")
      BY <1>1, <1>11, <2>2 DEF PersistResult
    <3>3. PICK old, new : /\ old = Role(t, seq)
                          /\ new = [old EXCEPT !.phase = "SUCCEEDED", !.outcome = outcome,
                                               !.head = head]
      OBVIOUS
    <3>4. IsRole(old)
      BY <1>4, <2>1, <3>3 DEF IInv, RolesOK, RoleOK, HasRole, Role
    <3>5. new.outcome = outcome
      BY <3>3, <3>4 DEF IsRole
    <3>6. Role(t, seq)' = new
      BY <1>4, <1>7, <2>1, <3>1, <3>3
    <3>7. outcome # "NONE"
      BY <3>1 DEF Outcomes
    <3> QED BY <1>5, <1>6, <2>1, <3>2, <3>5, <3>6, <3>7
  <2>3. CASE ~MayPersist(t, seq)
    <3>1. Continue(c, "FAIL") /\ "FAIL" # "RECONCILE"
      BY <1>1, <1>11, <2>3 DEF PersistResult
    <3> QED BY <1>5, <1>6, <2>1, <3>1
  <2> QED BY <2>2, <2>3
<1>12. CASE ReconcileResult(c) \/ FinalizeFailed(c) \/ Crash(c)
  BY <1>2, <1>12, Answers DEF ReconcileResult, FinalizeFailed, Crash
<1> QED BY <1>8, <1>9, <1>10, <1>11, <1>12 DEF Executing

CallersKept ==
  /\ CallerTypes'
  /\ \A c \in Callers : CallerOK(c)'
  /\ \A c, d \in Callers : Alone(c, d)'

(* The claim of a role is won by one caller, so the one that wins it finds *)
(* nobody else at its provider.                                            *)
LEMMA OthersStand ==
    ASSUME IInv, Grows, NEW c \in Callers, Moves(c)
    PROVE  CallersKept
<1>1. \A d \in Callers \ {c} : pc'[d] = pc[d] /\ at'[d] = at[d] /\ seen'[d] = seen[d]
  BY DEF Moves
<1>2. ASSUME NEW d \in Callers \ {c} PROVE CallerOK(d)'
  <2>1. PICK place, t, seq, views :
          place = pc[d] /\ t = at[d].task /\ seq = at[d].seq /\ views = seen[d]
    OBVIOUS
  <2>2. Fits(place, t, seq, views)
    BY <2>1 DEF IInv, CallerOK
  <2>3. Fits(place, t, seq, views)'
    BY <2>2, FitsRemain
  <2> QED BY <1>1, <2>1, <2>3 DEF CallerOK
<1>3. ASSUME NEW d \in Callers \ {c}, pc'[c] \in Provider, pc'[d] \in Provider, at'[c] = at'[d]
      PROVE  FALSE
  <2>1. pc[d] \in Provider /\ at[d] = at'[c]
    BY <1>1, <1>3
  <2>2. Role(at[d].task, at[d].seq).claimed
    BY <2>1 DEF IInv, CallerOK, Fits
  <2>3. pc[c] \in Provider /\ at[c] = at[d]
    BY <1>3, <2>1, <2>2 DEF Moves
  <2> QED BY <2>1, <2>3 DEF IInv, Alone
<1>4. ASSUME NEW d \in Callers \ {c}, NEW e \in Callers \ {c} PROVE Alone(d, e)'
  BY <1>1 DEF IInv, Alone
<1>5. \A d, e \in Callers : Alone(d, e)'
  BY <1>3, <1>4 DEF Alone
<1> QED BY <1>2, <1>5 DEF Moves, CallersKept

LEMMA CallersStand == ASSUME IInv, Grows, UNCHANGED callerVars PROVE CallersKept
<1>1. UNCHANGED pc /\ UNCHANGED at /\ UNCHANGED seen
  BY DEF callerVars
<1>2. ASSUME NEW d \in Callers PROVE CallerOK(d)'
  <2>1. PICK place, t, seq, views :
          place = pc[d] /\ t = at[d].task /\ seq = at[d].seq /\ views = seen[d]
    OBVIOUS
  <2>2. Fits(place, t, seq, views)
    BY <2>1 DEF IInv, CallerOK
  <2>3. Fits(place, t, seq, views)'
    BY <2>2, FitsRemain
  <2> QED BY <1>1, <2>1, <2>3 DEF CallerOK
<1> QED BY <1>1, <1>2 DEF CallersKept, IInv, CallerTypes, Alone
-----------------------------------------------------------------------------
(***************************************************************************)
(* The invariant.                                                          *)
(***************************************************************************)
LEMMA InvariantStarts == ASSUME Init PROVE IInv
<1>1. \A t \in Tasks : /\ Sequence(t) = 1 /\ Stage(t) = InitialStage(Profile[t])
                       /\ Stage(t) \in {"MATERIALIZE", "EXECUTE"}
                       /\ EntrySequence(t) = IF Stage(t) = "EXECUTE" THEN 1 ELSE 2
  BY DEF Init, WorkflowInit, Sequence, Stage, StageBefore, InitialStage, EntrySequence
<1>2. WorkflowTypes
  <2>1. board \in [Tasks -> Boards] /\ replan \in BOOLEAN
    BY DEF Init, WorkflowInit, Boards, Statuses, Maturities
  <2>2. history = [t \in Tasks |-> history[t]] /\ \A t \in Tasks : IsSequence(history[t])
    BY DEF Init, WorkflowInit, IsSequence
  <2>3. demand = [t \in Tasks |-> demand[t]]
    BY DEF Init, WorkflowInit
  <2> QED BY <2>1, <2>2, <2>3 DEF WorkflowTypes
<1>3. ASSUME NEW t \in Tasks PROVE ShapeOK(t) /\ DemandOK(t) /\ Readable(t)
  <2>1. history[t] = << >> /\ demand[t] = NoDemand
        /\ board[t] = [status |-> "TODO", maturity |-> "NOT_STARTED"]
    BY DEF Init, WorkflowInit
  <2>2. ShapeOK(t) /\ DemandOK(t) /\ DemandReadable(t) /\ MaturityReadable(t)
    BY <1>1, <2>1 DEF ShapeOK, DemandOK, DemandReadable, MaturityReadable
  <2>3. CompositionFits(Stage(t), Profile[t], board[t].status, board[t].maturity)
    BY <1>1, <2>1 DEF CompositionFits
  <2> QED BY <2>1, <2>2, <2>3 DEF Readable
<1>4. StoreTypes /\ \A t \in Tasks : RolesOK(t)
  <2>1. StoreTypes
    BY DEF Init, StoreTypes, Receipts, IsSequence, IsTree
  <2>2. ASSUME NEW t \in Tasks PROVE RolesOK(t)
    <3>1. roles[t] = << >>
      BY DEF Init
    <3> QED BY <1>1, <3>1 DEF RolesOK, Round
  <2> QED BY <2>1, <2>2
<1>5. CallerTypes /\ \A c \in Callers : pc[c] = "IDLE"
  BY DEF Init, CallerTypes, Places, Nowhere
<1>6. "IDLE" \notin Preparation \cup Execution \cup Provider
  BY DEF Preparation, Execution, Provider
<1> QED BY <1>2, <1>3, <1>4, <1>5, <1>6 DEF IInv, WorkflowInv, CallerOK, Fits, Alone

LEMMA InvariantKept == ASSUME IInv, [Next]_vars PROVE IInv'
<1>1. CASE Next
  <2>1. WorkflowInv'
    BY <1>1, WorkflowKept
  <2>2. RolesFollow /\ Grows
    BY <1>1, RolesKept
  <2>3. StoreTypes'
    <3>1. receipt' \in [Tasks -> Receipts]
      BY <1>1, ReceiptsMove DEF IInv, StoreTypes
    <3>2. AreTrees(tree')
      BY <1>1, TreesKept DEF IInv, StoreTypes, AreTrees
    <3> QED BY <2>2, <3>1, <3>2 DEF StoreTypes, RolesFollow, AreTrees
  <2>4. CallersKept
    <3>1. ASSUME NEW c \in Callers, Preparing(c) \/ Executing(c) \/ TurnFails(c) \/ Crash(c)
          PROVE  CallersKept
      BY <1>1, <2>2, <3>1, PreparingMoves, ExecutingMoves, OthersStand
    <3>2. ASSUME NEW t \in Tasks, AuthorizeManualStart(t) \/ Pause(t) \/ Unpause(t) \/ Drift(t)
          PROVE  UNCHANGED callerVars
      BY <3>2 DEF AuthorizeManualStart, Pause, Unpause, Drift, callerVars
    <3>3. AskForReplan => UNCHANGED callerVars
      BY DEF AskForReplan, callerVars
    <3> QED BY <1>1, <2>2, <3>1, <3>2, <3>3, CallersStand DEF Next
  <2> QED BY <2>1, <2>2, <2>3, <2>4 DEF IInv, RolesFollow, CallersKept
<1>2. CASE UNCHANGED vars
  <2>1. /\ UNCHANGED workflowVars /\ UNCHANGED roles /\ UNCHANGED tree /\ UNCHANGED receipt
        /\ UNCHANGED callerVars /\ UNCHANGED history
    BY <1>2 DEF vars, storeVars, workflowVars
  <2>2. WorkflowInv'
    BY <2>1, WorkflowStands DEF IInv
  <2>3. StoreTypes' /\ \A t \in Tasks : RolesOK(t)'
    BY <2>1, BothStand DEF IInv, StoreTypes
  <2>4. Grows
    BY <2>1, Counts DEF Grows, Sequence
  <2>5. CallersKept
    BY <2>1, <2>4, CallersStand
  <2> QED BY <2>2, <2>3, <2>5 DEF IInv, CallersKept
<1> QED BY <1>1, <1>2

THEOREM WorkflowInvariant == Spec => []IInv
<1>1. Init => IInv
  BY InvariantStarts
<1>2. IInv /\ [Next]_vars => IInv'
  BY InvariantKept
<1> QED BY <1>1, <1>2, PTL DEF Spec

(***************************************************************************)
(* What follows.                                                           *)
(***************************************************************************)

(* However many callers read the same role and shared its run, one of them *)
(* at most starts the provider: the claim is won once, and nobody else     *)
(* reaches the provider (claimRoleProviderExecution).                      *)
THEOREM OneCallerRunsARole == Spec => []OneProvider
<1>1. IInv => OneProvider
  BY DEF IInv, CallerOK, Fits, Alone, Provider, OneProvider
<1> QED BY <1>1, WorkflowInvariant, PTL

(* Every role began on what its predecessor left, a judging role left the  *)
(* candidate as it was, and a completed Subtask was judged last            *)
(* (#authorizeCurrentRole, persistSuccessfulRoleResult,                    *)
(* #reconcilePersistedRoleResult), whatever was edited in between.         *)
THEOREM CandidatesAreChained == Spec => []CandidateChain
<1>1. IInv => CandidateChain
  BY DEF IInv, RolesOK, RoleOK, LastRole, CandidateChain
<1> QED BY <1>1, WorkflowInvariant, PTL

(* Every history that storage wrote is accepted by every later read        *)
(* (#readWorkflowControlViews): none of the steps, nor the demand or the   *)
(* board, is ever other than what the rules decide about it now.           *)
THEOREM HistoriesAreReadable == Spec => []HistoryReadable
<1>1. IInv => HistoryReadable
  BY DEF IInv, WorkflowInv, HistoryReadable
<1> QED BY <1>1, WorkflowInvariant, PTL

(* A dependency that was satisfied once is satisfied forever, so a caller  *)
(* that acts on an old answer to this question does nothing wrong, and the *)
(* replay of an old entry into execution decides as the entry did          *)
(* (evaluateStoredSubtaskDependencyReadiness).                             *)
THEOREM DependenciesStaySatisfied ==
    Spec => [][\A t \in Tasks : Ready(t) => Ready(t)']_vars
<1>1. IInv /\ [Next]_vars => [\A t \in Tasks : Ready(t) => Ready(t)']_vars
  BY WorkflowKept, ReadyStays DEF IInv, WorkflowInv
<1> QED BY <1>1, WorkflowInvariant, PTL DEF Spec

-----------------------------------------------------------------------------
(***************************************************************************)
(* The capacity of the Project.                                            *)
(***************************************************************************)
LEMMA TasksAreFinite == IsFiniteSet(Tasks)
<1>1. Len(Order) \in Nat /\ Order \in [1 .. Len(Order) -> Tasks]
  BY OrderAssumption
<1>2. Order \in Surjection(1 .. Len(Order), Tasks)
  BY <1>1 DEF Surjection, Tasks
<1>3. IsFiniteSet(1 .. Len(Order))
  BY <1>1, FS_Interval
<1> QED BY <1>2, <1>3, FS_Surjection

Bounded(open) == Cardinality(open \cap Writers) <= 1 /\ Cardinality(open) <= 2

LEMMA FewerFit ==
    ASSUME NEW open \in SUBSET Tasks, NEW fewer \in SUBSET open, Bounded(open)
    PROVE  Bounded(fewer)
<1>1. IsFiniteSet(open) /\ IsFiniteSet(open \cap Writers) /\ IsFiniteSet(fewer)
      /\ IsFiniteSet(fewer \cap Writers)
  BY TasksAreFinite, FS_Subset
<1>2. /\ Cardinality(fewer) <= Cardinality(open)
      /\ Cardinality(fewer \cap Writers) <= Cardinality(open \cap Writers)
  <2>1. fewer \cap Writers \in SUBSET (open \cap Writers)
    OBVIOUS
  <2> QED BY <1>1, <2>1, FS_Subset
<1>3. /\ Cardinality(open) \in Nat /\ Cardinality(open \cap Writers) \in Nat
      /\ Cardinality(fewer) \in Nat /\ Cardinality(fewer \cap Writers) \in Nat
  BY <1>1, FS_CardinalityType
<1> QED BY <1>2, <1>3 DEF Bounded

(* A dispatch that found a free slot fits.                                 *)
LEMMA OneMoreFits ==
    ASSUME NEW occupied \in SUBSET Tasks, NEW t \in Tasks, Bounded(occupied),
           Cardinality(occupied) < 2, t \in Writers => occupied \cap Writers = {}
    PROVE  Bounded(occupied \cup {t})
<1>1. IsFiniteSet(occupied) /\ Cardinality(occupied) \in Nat
  BY TasksAreFinite, FS_Subset, FS_CardinalityType
<1>2. Cardinality(occupied \cup {t}) <= 2
  BY <1>1, FS_AddElement
<1>3. CASE t \in Writers
  <2>1. (occupied \cup {t}) \cap Writers = {t}
    BY <1>3
  <2>2. Cardinality((occupied \cup {t}) \cap Writers) = 1
    BY <2>1, FS_Singleton
  <2> QED BY <1>2, <2>2 DEF Bounded
<1>4. CASE t \notin Writers
  <2>1. (occupied \cup {t}) \cap Writers = occupied \cap Writers
    BY <1>4
  <2> QED BY <1>2, <2>1 DEF Bounded
<1> QED BY <1>3, <1>4

LEMMA SlotsKept ==
    ASSUME Bounded(Open), SlotsMove
    PROVE  Bounded(Open)'
<1>1. PICK open, next : open = Open /\ next = Open'
  OBVIOUS
<1>2. open \in SUBSET Tasks /\ next \in SUBSET Tasks
  BY <1>1 DEF Open
<1>3. Bounded(open)
  BY <1>1
<1>4. Bounded(next)
  <2>1. CASE \A u \in Tasks : Taking(receipt'[u]) => Taking(receipt[u])
    <3>1. next \in SUBSET open
      BY <1>1, <2>1 DEF Open, Taking
    <3> QED BY <1>2, <1>3, <3>1, FewerFit
  <2>2. ASSUME NEW t \in Tasks, TakesSlot(t) PROVE Bounded(next)
    <3>1. PICK occupied : occupied = OccupiedDispatches
      OBVIOUS
    <3>2. occupied \in SUBSET open
      BY <1>1, <3>1 DEF OccupiedDispatches, Retained, Open, Taking
    <3>3. Bounded(occupied) /\ occupied \in SUBSET Tasks
      BY <1>2, <1>3, <3>2, FewerFit
    <3>4. /\ Cardinality(occupied) < 2 \/ Cardinality(occupied) < MaxActive
          /\ t \in Writers => occupied \cap Writers = {}
      BY <2>2, <3>1 DEF TakesSlot, SlotFree
    <3>5. Cardinality(occupied) < 2
      <4>1. Cardinality(occupied) \in Nat
        BY <3>3, TasksAreFinite, FS_Subset, FS_CardinalityType
      <4> QED BY <3>4, <4>1, ActiveAssumption
    <3>6. Bounded(occupied \cup {t})
      BY <3>3, <3>4, <3>5, OneMoreFits
    <3>7. next \in SUBSET (occupied \cup {t})
      BY <1>1, <2>2, <3>1 DEF TakesSlot, Open, Taking
    <3>8. occupied \cup {t} \in SUBSET Tasks
      BY <3>3
    <3> QED BY <3>6, <3>7, <3>8, FewerFit
  <2> QED BY <2>1, <2>2 DEF SlotsMove
<1> QED BY <1>1, <1>4 DEF Bounded

(* Two dispatches at most are not paused, the constant #deriveDispatchGates *)
(* has, whatever smaller limit the Project itself names.                   *)
AtMostTwo == Cardinality(Open) <= 2

(* At most one dispatch that writes and two in all hold a slot, although a *)
(* paused Subtask gives its slot up and takes it back                      *)
(* (#deriveDispatchGates, #resumePausedDispatch).                          *)
THEOREM DispatchesFit == Spec => [](OneWriteDispatch /\ AtMostTwo)
<1>1. Init => Bounded(Open)
  <2> SUFFICES ASSUME Init PROVE Bounded(Open)
    OBVIOUS
  <2>1. Open = {}
    BY DEF Init, Open, Taking
  <2>2. {} \cap Writers = {}
    OBVIOUS
  <2> QED BY <2>1, <2>2, FS_EmptySet DEF Bounded
<1>2. IInv /\ Bounded(Open) /\ [Next]_vars => Bounded(Open)'
  <2> SUFFICES ASSUME IInv, Bounded(Open), [Next]_vars PROVE Bounded(Open)'
    OBVIOUS
  <2>1. CASE Next
    BY <2>1, ReceiptsMove, SlotsKept DEF IInv, StoreTypes
  <2>2. CASE UNCHANGED vars
    BY <2>2 DEF vars, storeVars, Bounded, Open
  <2> QED BY <2>1, <2>2
<1>3. Bounded(Open) => OneWriteDispatch /\ AtMostTwo
  <2>1. Writers \subseteq Tasks
    BY WritersAssumption
  <2>2. {t \in Writers : receipt[t] \in {"RESERVED", "ACTIVE"}} = Open \cap Writers
    BY <2>1 DEF Open, Taking
  <2> QED BY <2>2 DEF Bounded, OneWriteDispatch, AtMostTwo
<1> QED BY <1>1, <1>2, <1>3, WorkflowInvariant, PTL DEF Spec
-----------------------------------------------------------------------------
(***************************************************************************)
(* Results.                                                                *)
(***************************************************************************)

(* A provider is at work on a role without a result.                       *)
Working ==
  \A c \in Callers :
    pc[c] \in Provider => Role(at[c].task, at[c].seq).phase \in {"CREATED", "RUNNING"}

Marked ==
  \A t \in Tasks : \A k \in 1 .. Len(roles[t]) :
    roles[t][k].outcome # "NONE" => roles[t][k].phase = "SUCCEEDED"

(* The roles with a result stay as they are.                               *)
ResultsStay ==
  \A t \in Tasks : \A k \in 1 .. Len(roles[t]) :
    roles[t][k].outcome # "NONE" =>
      k \in 1 .. Len(roles'[t]) /\ roles'[t][k] = roles[t][k]

(* What caller c makes of the role that it carries out.                    *)
Carries(c, t, seq, old, new) ==
  /\ t \in Tasks /\ t = at[c].task /\ seq = at[c].seq
  /\ HasRole(t, seq) /\ old = Role(t, seq) /\ SetRole(t, seq, new)
  /\ old.phase # "SUCCEEDED"
  /\ new.outcome = old.outcome \/ new.phase = "SUCCEEDED"
  /\ pc[c] \notin Provider => new.phase = "CREATED"
  /\ pc'[c] \in Provider => new.phase \in {"CREATED", "RUNNING"}

LEMMA WorkGoesOn ==
    ASSUME IInv, Working, Marked, NEW c \in Callers,
           \/ Reserve(c) \/ Claim(c) \/ BindThread(c) \/ StartRun(c) \/ PersistResult(c)
           \/ FinalizeFailed(c)
    PROVE  UNCHANGED roles \/ \E t, seq, old, new : Carries(c, t, seq, old, new)
<1>1. PICK t, seq, old : t = at[c].task /\ seq = at[c].seq /\ old = Role(t, seq)
  OBVIOUS
<1>2. pc[c] \in Execution /\ "RESERVE" \notin Provider /\ "CLAIM" \notin Provider
      /\ "RECONCILE" \notin Provider /\ "IDLE" \notin Provider
  BY DEF Reserve, Claim, BindThread, StartRun, PersistResult, FinalizeFailed, Execution, Provider
<1>3. t \in Tasks /\ seq \in Nat /\ HasRole(t, seq)
  BY <1>1, <1>2 DEF IInv, CallerOK, Fits, Execution, Provider
<1>4. IsRole(old)
  BY <1>1, <1>3 DEF IInv, RolesOK, RoleOK, HasRole, Role
<1>5. \A place : GoTo(c, place, t, seq) => pc'[c] = place
  BY DEF GoTo, IInv, CallerTypes
<1>6. ASSUME NEW new, SetRole(t, seq, new), old.phase # "SUCCEEDED",
             new.outcome = old.outcome \/ new.phase = "SUCCEEDED",
             pc[c] \notin Provider => new.phase = "CREATED",
             pc'[c] \in Provider => new.phase \in {"CREATED", "RUNNING"}
      PROVE  \E x, n, o, w : Carries(c, x, n, o, w)
  BY <1>1, <1>3, <1>6 DEF Carries
<1>7. CASE Reserve(c)
  <2>1. CASE MayReserve(t, seq)
    <3>1. PICK new : new = [old EXCEPT !.phase = "CREATED"]
      OBVIOUS
    <3>2. SetRole(t, seq, new) /\ pc'[c] = "CLAIM"
      BY <1>1, <1>5, <1>7, <2>1, <3>1 DEF Reserve, Continue
    <3>3. new.phase = "CREATED" /\ new.outcome = old.outcome
      BY <1>4, <3>1 DEF IsRole
    <3>4. old.phase \in {"AUTHORIZED", "CREATED"}
      BY <1>1, <2>1 DEF MayReserve
    <3> QED BY <1>2, <1>6, <3>2, <3>3, <3>4
  <2>2. CASE ~MayReserve(t, seq)
    BY <1>1, <1>7, <2>2 DEF Reserve
  <2> QED BY <2>1, <2>2
<1>8. CASE Claim(c)
  <2>1. CASE MayClaim(t, seq)
    <3>1. PICK new : new = [old EXCEPT !.claimed = TRUE]
      OBVIOUS
    <3>2. SetRole(t, seq, new) /\ old.phase = "CREATED"
      BY <1>1, <1>8, <2>1, <3>1 DEF Claim, MayClaim
    <3>3. new.phase = old.phase /\ new.outcome = old.outcome
      BY <1>4, <3>1 DEF IsRole
    <3> QED BY <1>6, <3>2, <3>3
  <2>2. CASE ~MayClaim(t, seq)
    BY <1>1, <1>8, <2>2 DEF Claim
  <2> QED BY <2>1, <2>2
<1>9. CASE BindThread(c)
  <2>1. pc[c] \in Provider
    BY <1>9 DEF BindThread, Provider
  <2>2. CASE MayBind(t, seq)
    <3>1. PICK new : new = [old EXCEPT !.bound = TRUE]
      OBVIOUS
    <3>2. SetRole(t, seq, new) /\ old.phase = "CREATED"
      BY <1>1, <1>9, <2>2, <3>1 DEF BindThread, MayBind
    <3>3. new.phase = old.phase /\ new.outcome = old.outcome
      BY <1>4, <3>1 DEF IsRole
    <3> QED BY <1>6, <3>2, <3>3
  <2>3. CASE ~MayBind(t, seq)
    BY <1>1, <1>9, <2>3 DEF BindThread
  <2> QED BY <2>2, <2>3
<1>10. CASE StartRun(c)
  <2>1. pc[c] \in Provider
    BY <1>10 DEF StartRun, Provider
  <2>2. CASE MayBind(t, seq)
    <3>1. PICK new : new = [old EXCEPT !.phase = "RUNNING"]
      OBVIOUS
    <3>2. SetRole(t, seq, new) /\ old.phase = "CREATED"
      BY <1>1, <1>10, <2>2, <3>1 DEF StartRun, MayBind
    <3>3. new.phase = "RUNNING" /\ new.outcome = old.outcome
      BY <1>4, <3>1 DEF IsRole
    <3> QED BY <1>6, <2>1, <3>2, <3>3
  <2>3. CASE ~MayBind(t, seq)
    BY <1>1, <1>10, <2>3 DEF StartRun
  <2> QED BY <2>2, <2>3
<1>11. CASE PersistResult(c)
  <2>1. pc[c] \in Provider
    BY <1>11 DEF PersistResult, Provider
  <2>2. CASE MayPersist(t, seq)
    <3>1. PICK outcome, head : SetRole(t, seq, [old EXCEPT !.phase = "SUCCEEDED",
                                                           !.outcome = outcome, !.head = head])
      BY <1>1, <1>11, <2>2 DEF PersistResult
    <3>2. PICK new : new = [old EXCEPT !.phase = "SUCCEEDED", !.outcome = outcome, !.head = head]
      OBVIOUS
    <3>3. new.phase = "SUCCEEDED"
      BY <1>4, <3>2 DEF IsRole
    <3>4. old.phase = "RUNNING"
      BY <1>1, <2>2 DEF MayPersist
    <3>5. pc'[c] = "RECONCILE"
      BY <1>1, <1>5, <1>11, <2>2 DEF PersistResult, Continue
    <3> QED BY <1>2, <1>6, <2>1, <3>1, <3>2, <3>3, <3>4, <3>5
  <2>3. CASE ~MayPersist(t, seq)
    BY <1>1, <1>11, <2>3 DEF PersistResult
  <2> QED BY <2>2, <2>3
<1>12. CASE FinalizeFailed(c)
  <2>1. pc[c] \in Provider
    BY <1>12 DEF FinalizeFailed, Provider
  <2>2. old.phase \in {"CREATED", "RUNNING"}
    BY <1>1, <2>1 DEF Working
  <2>3. PICK new : new = [old EXCEPT !.phase = "FAILED"]
    OBVIOUS
  <2>4. SetRole(t, seq, new)
    BY <1>1, <1>12, <2>3 DEF FinalizeFailed
  <2>5. new.outcome = old.outcome
    BY <1>4, <2>3 DEF IsRole
  <2>6. pc'[c] = "IDLE"
    BY <1>12 DEF FinalizeFailed, Answer, GoTo, IInv, CallerTypes
  <2> QED BY <1>2, <1>6, <2>1, <2>2, <2>4, <2>5, <2>6
<1> QED BY <1>7, <1>8, <1>9, <1>10, <1>11, <1>12

LEMMA SomebodyMoves ==
    ASSUME IInv, Next, Grows, RolesFollow
    PROVE  UNCHANGED callerVars \/ \E c \in Callers : Moves(c)
<1>1. ASSUME NEW c \in Callers, Preparing(c) \/ Executing(c) \/ TurnFails(c) \/ Crash(c)
      PROVE  Moves(c)
  BY <1>1, PreparingMoves, ExecutingMoves
<1>2. ASSUME NEW t \in Tasks, AuthorizeManualStart(t) \/ Pause(t) \/ Unpause(t) \/ Drift(t)
      PROVE  UNCHANGED callerVars
  BY <1>2 DEF AuthorizeManualStart, Pause, Unpause, Drift, callerVars
<1>3. AskForReplan => UNCHANGED callerVars
  BY DEF AskForReplan, callerVars
<1> QED BY <1>1, <1>2, <1>3 DEF Next

LEMMA WorkStands ==
    ASSUME IInv, IInv', Working, Marked, UNCHANGED roles,
           UNCHANGED callerVars \/ \E c \in Callers : Moves(c)
    PROVE  Working' /\ Marked' /\ ResultsStay
<1>1. Marked' /\ ResultsStay
  BY DEF Marked, ResultsStay
<1>2. ASSUME NEW d \in Callers, pc'[d] \in Provider PROVE pc[d] \in Provider /\ at'[d] = at[d]
  <2>1. CASE UNCHANGED callerVars
    BY <1>2, <2>1 DEF callerVars
  <2>2. ASSUME NEW c \in Callers, Moves(c) PROVE pc[d] \in Provider /\ at'[d] = at[d]
    <3>1. CASE d # c
      BY <1>2, <2>2, <3>1 DEF Moves
    <3>2. CASE d = c
      <4>1. PICK t, seq : t = at'[c].task /\ seq = at'[c].seq
        OBVIOUS
      <4>2. CallerOK(c)'
        BY DEF IInv
      <4>3. Role(t, seq)'.claimed
        BY <1>2, <3>2, <4>1, <4>2 DEF CallerOK, Fits
      <4>4. Role(t, seq).claimed
        BY <4>3 DEF Role, Round, EntrySequence
      <4> QED BY <1>2, <2>2, <3>2, <4>1, <4>4 DEF Moves
    <3> QED BY <3>1, <3>2
  <2> QED BY <2>1, <2>2
<1>3. Working'
  <2> SUFFICES ASSUME NEW d \in Callers, pc'[d] \in Provider
               PROVE  Role(at[d].task, at[d].seq)'.phase \in {"CREATED", "RUNNING"}
    BY DEF Working
  <2>1. Role(at[d].task, at[d].seq).phase \in {"CREATED", "RUNNING"} /\ at'[d] = at[d]
    BY <1>2 DEF Working
  <2> QED BY <2>1 DEF Role, Round, EntrySequence
<1> QED BY <1>1, <1>3

LEMMA WorkIsAuthorized ==
    ASSUME IInv, Working, Marked, NEW c \in Callers, AuthorizeCurrentRole(c),
           NEW t \in Tasks, Authorizes(t), Moves(c)
    PROVE  Working' /\ Marked' /\ ResultsStay
<1> DEFINE role == NewRole(tree[t].head)
<1>1. /\ \A u \in Tasks \ {t} : roles'[u] = roles[u]
      /\ roles'[t] = Append(roles[t], role)
  BY DEF Authorizes, IInv, StoreTypes
<1>2. role.outcome = "NONE"
  BY DEF NewRole
<1> HIDE DEF role
<1>3. /\ Len(roles'[t]) = Len(roles[t]) + 1 /\ Len(roles[t]) \in Nat
      /\ roles'[t][Len(roles[t]) + 1] = role
      /\ \A k \in 1 .. Len(roles[t]) : roles'[t][k] = roles[t][k]
  BY <1>1, Appended DEF IInv, StoreTypes
<1>4. Marked'
  <2> SUFFICES ASSUME NEW u \in Tasks, NEW k \in 1 .. Len(roles'[u]), roles'[u][k].outcome # "NONE"
               PROVE  roles'[u][k].phase = "SUCCEEDED"
    BY DEF Marked
  <2>1. CASE u = t /\ k = Len(roles[t]) + 1
    BY <1>2, <1>3, <2>1
  <2>2. CASE ~(u = t /\ k = Len(roles[t]) + 1)
    <3>1. k \in 1 .. Len(roles[u]) /\ roles'[u][k] = roles[u][k]
      BY <1>1, <1>3, <2>2
    <3> QED BY <3>1 DEF Marked
  <2> QED BY <2>1, <2>2
<1>5. ResultsStay
  BY <1>1, <1>3 DEF ResultsStay
<1>6. pc'[c] \notin Provider
  <2>1. pc'[c] \in {"IDLE", "RESERVE"}
    BY DEF AuthorizeCurrentRole, Authorized, Answer, GoTo, IInv, CallerTypes
  <2> QED BY <2>1 DEF Provider
<1>7. Working'
  <2> SUFFICES ASSUME NEW d \in Callers, pc'[d] \in Provider
               PROVE  Role(at[d].task, at[d].seq)'.phase \in {"CREATED", "RUNNING"}
    BY DEF Working
  <2>1. pc[d] \in Provider /\ at'[d] = at[d]
    BY <1>6 DEF Moves
  <2>2. PICK u, seq : u = at[d].task /\ seq = at[d].seq
    OBVIOUS
  <2>3. /\ u \in Tasks /\ HasRole(u, seq)
        /\ Role(u, seq).phase \in {"CREATED", "RUNNING"}
    BY <2>1, <2>2 DEF Working, IInv, CallerOK, Fits, Execution, Provider
  <2>4. Role(u, seq)' = Role(u, seq)
    BY <1>1, <1>3, <2>3 DEF HasRole, Role, Round, EntrySequence
  <2> QED BY <2>1, <2>2, <2>3, <2>4
<1> QED BY <1>4, <1>5, <1>7

(* Nobody else is at the provider of the role that a caller carries out,   *)
(* unless the caller has not come to the provider yet.                     *)
LEMMA WorkIsCarried ==
    ASSUME IInv, Working, Marked, NEW c \in Callers, NEW t, NEW seq, NEW old, NEW new,
           Carries(c, t, seq, old, new), Moves(c), pc'[c] \in Provider => at'[c] = at[c]
    PROVE  Working' /\ Marked' /\ ResultsStay
<1>1. PICK m : m = Round(t, seq)
  OBVIOUS
<1>2. PICK s : s = roles[t]
  OBVIOUS
<1>3. /\ t \in Tasks /\ m \in 1 .. Len(s) /\ old = s[m] /\ old.phase # "SUCCEEDED"
      /\ IsSequence(s)
  BY <1>1, <1>2 DEF Carries, HasRole, Role, IInv, StoreTypes
<1>4. /\ \A u \in Tasks \ {t} : roles'[u] = roles[u]
      /\ roles'[t] = [s EXCEPT ![m] = new]
  BY <1>1, <1>2 DEF Carries, SetRole, IInv, StoreTypes
<1>5. /\ Len(roles'[t]) = Len(s) /\ roles'[t][m] = new
      /\ \A k \in (1 .. Len(s)) \ {m} : roles'[t][k] = s[k]
  BY <1>3, <1>4, Replaced
<1>6. old.outcome = "NONE"
  BY <1>2, <1>3 DEF Marked
<1>7. ResultsStay
  BY <1>2, <1>3, <1>4, <1>5, <1>6 DEF ResultsStay
<1>8. Marked'
  <2> SUFFICES ASSUME NEW u \in Tasks, NEW k \in 1 .. Len(roles'[u]), roles'[u][k].outcome # "NONE"
               PROVE  roles'[u][k].phase = "SUCCEEDED"
    BY DEF Marked
  <2>1. CASE u = t /\ k = m
    BY <1>5, <1>6, <2>1 DEF Carries
  <2>2. CASE ~(u = t /\ k = m)
    BY <1>2, <1>4, <1>5, <2>2 DEF Marked
  <2> QED BY <2>1, <2>2
<1>9. Working'
  <2> SUFFICES ASSUME NEW d \in Callers, pc'[d] \in Provider
               PROVE  Role(at[d].task, at[d].seq)'.phase \in {"CREATED", "RUNNING"}
    BY DEF Working
  <2>1. PICK u, n : u = at'[d].task /\ n = at'[d].seq
    OBVIOUS
  <2>2. CASE d = c
    <3>1. u = t /\ n = seq
      BY <2>1, <2>2 DEF Carries
    <3>2. Role(u, n)' = new
      BY <1>1, <1>5, <3>1 DEF Role, Round, EntrySequence
    <3>3. new.phase \in {"CREATED", "RUNNING"}
      BY <2>2 DEF Carries
    <3> QED BY <2>1, <3>2, <3>3
  <2>3. CASE d # c
    <3>1. pc[d] \in Provider /\ at'[d] = at[d]
      BY <2>3 DEF Moves
    <3>2. /\ u \in Tasks /\ HasRole(u, n) /\ n \in Nat
          /\ Role(u, n).phase \in {"CREATED", "RUNNING"}
      BY <2>1, <3>1 DEF Working, IInv, CallerOK, Fits, Execution, Provider
    <3>3. CASE u = t /\ Round(u, n) = m
      <4>1. seq \in Nat \/ pc[c] = "IDLE"
        BY DEF Carries, IInv, CallerOK, Fits
      <4>2. CASE pc[c] \in Provider
        <5>1. seq = n
          <6>1. seq \in Nat /\ EntrySequence(t) \in {1, 2}
            BY <1>3, <4>1, <4>2, Counts DEF Provider
          <6> QED BY <1>1, <3>2, <3>3, <6>1 DEF Round
        <5>2. at[c] = at[d]
          BY <2>1, <3>1, <3>3, <5>1 DEF Carries, IInv, CallerTypes
        <5> QED BY <2>3, <3>1, <4>2, <5>2 DEF IInv, Alone
      <4>3. CASE pc[c] \notin Provider
        <5>1. Role(u, n)' = new
          BY <1>1, <1>5, <3>3 DEF Role, Round, EntrySequence
        <5> QED BY <2>1, <4>3, <5>1 DEF Carries
      <4> QED BY <4>2, <4>3
    <3>4. CASE ~(u = t /\ Round(u, n) = m)
      <4>1. Role(u, n)' = Role(u, n)
        BY <1>2, <1>4, <1>5, <3>2, <3>4 DEF HasRole, Role, Round, EntrySequence
      <4> QED BY <2>1, <3>2, <4>1
    <3> QED BY <3>3, <3>4
  <2> QED BY <2>2, <2>3
<1> QED BY <1>7, <1>8, <1>9

LEMMA WorkKept ==
    ASSUME IInv, IInv', Working, Marked, Next
    PROVE  Working' /\ Marked' /\ ResultsStay
<1>1. Grows /\ RolesFollow
  BY RolesKept
<1>2. CASE UNCHANGED roles
  BY <1>1, <1>2, SomebodyMoves, WorkStands
<1>3. ASSUME NEW c \in Callers, AuthorizeCurrentRole(c), ~UNCHANGED roles
      PROVE  Working' /\ Marked' /\ ResultsStay
  <2>1. Moves(c)
    BY <1>1, <1>3, PreparingMoves DEF Preparing
  <2>2. \E t \in Tasks : Authorizes(t)
    <3>1. PICK t, seq : t = at[c].task /\ seq = at[c].seq
      OBVIOUS
    <3>2. t \in Tasks /\ seq \in 1 .. Sequence(t) /\ seq >= EntrySequence(t) /\ ~HasRole(t, seq)
      BY <1>3, <3>1 DEF AuthorizeCurrentRole, IInv, CallerOK, Fits, Preparation
    <3>3. MayAuthorize(t) /\ roles' = [roles EXCEPT ![t] = Append(@, NewRole(tree[t].head))]
      BY <1>3, <3>1 DEF AuthorizeCurrentRole
    <3>4. ~HasRole(t, Sequence(t))
      BY <3>2, LaterToo
    <3> QED BY <3>2, <3>3, <3>4 DEF Authorizes
  <2> QED BY <1>3, <2>1, <2>2, WorkIsAuthorized
<1>4. ASSUME NEW c \in Callers, ~UNCHANGED roles,
             \/ Reserve(c) \/ Claim(c) \/ BindThread(c) \/ StartRun(c) \/ PersistResult(c)
             \/ FinalizeFailed(c)
      PROVE  Working' /\ Marked' /\ ResultsStay
  <2>1. Moves(c)
    BY <1>1, <1>4, ExecutingMoves DEF Executing
  <2>2. PICK t, seq, old, new : Carries(c, t, seq, old, new)
    BY <1>4, WorkGoesOn
  <2>3. pc'[c] \in Provider => at'[c] = at[c]
    <3>1. (\E place : Continue(c, place)) \/ Answer(c)
      BY <1>4 DEF Reserve, Claim, BindThread, StartRun, PersistResult, FinalizeFailed
    <3>2. Answer(c) => pc'[c] \notin Provider
      BY DEF Answer, GoTo, IInv, CallerTypes, Provider
    <3>3. (\E place : Continue(c, place)) => at'[c] = at[c]
      BY DEF Continue, GoTo, IInv, CallerTypes
    <3> QED BY <3>1, <3>2, <3>3
  <2> QED BY <2>1, <2>2, <2>3, WorkIsCarried
<1>5. \/ UNCHANGED roles
      \/ \E c \in Callers :
            \/ AuthorizeCurrentRole(c)
            \/ Reserve(c) \/ Claim(c) \/ BindThread(c) \/ StartRun(c) \/ PersistResult(c)
            \/ FinalizeFailed(c)
  BY RolesMoveOnlyHere
<1> QED BY <1>2, <1>3, <1>4, <1>5

(* A result that was persisted is final: whatever the other callers still  *)
(* do with the role, it is never overwritten and its run never marked      *)
(* failed (persistSuccessfulRoleResult, finalizePrimaryExecutionAttempt).  *)
THEOREM ResultsAreFinal == Spec => [][ResultsStay]_vars
<1>1. Init => Working /\ Marked
  BY DEF Init, Working, Marked, Provider
<1>2. IInv /\ IInv' /\ Working /\ Marked /\ [Next]_vars
        => Working' /\ Marked' /\ [ResultsStay]_vars
  <2> SUFFICES ASSUME IInv, IInv', Working, Marked, [Next]_vars
               PROVE  Working' /\ Marked' /\ [ResultsStay]_vars
    OBVIOUS
  <2>1. CASE Next
    BY <2>1, WorkKept
  <2>2. CASE UNCHANGED vars
    <3>1. UNCHANGED pc /\ UNCHANGED at /\ UNCHANGED roles
      BY <2>2 DEF vars, storeVars, callerVars
    <3> QED BY <2>2, <3>1 DEF Working, Marked, Role, Round, EntrySequence
  <2> QED BY <2>1, <2>2
<1> QED BY <1>1, <1>2, WorkflowInvariant, PTL DEF Spec
-----------------------------------------------------------------------------
(***************************************************************************)
(* The repairs of a Subtask are limited, and with them its roles.          *)
(***************************************************************************)

(* The most steps after the entry that lead to a stage with that many      *)
(* repairs.                                                                *)
Spent(stage, cycles) ==
  CASE stage \in {"VERIFY", "HARDEN"} -> 1
    [] stage = "FRESH_QA"      -> 2
    [] stage = "REPAIR"        -> 1 + 2 * cycles
    [] stage = "FOCUSED_RE_QA" -> 2 + 2 * cycles
    [] stage = "COMPLETE"      -> 3 + 2 * cycles
    [] OTHER                   -> 0

Paced(t) ==
  /\ Cycles(t) \in 0 .. Limit[t]
  /\ Sequence(t) <= EntrySequence(t) + Spent(Stage(t), Cycles(t))

LEMMA PathsLead ==
    ASSUME NEW profile \in Profiles, NEW stage \in {"EXECUTE"} \cup Later,
           NextStageFor(profile, stage) # NoStage
    PROVE  <<stage, NextStageFor(profile, stage)>> \in
             {<<"EXECUTE", "VERIFY">>, <<"EXECUTE", "HARDEN">>, <<"VERIFY", "COMPLETE">>,
              <<"HARDEN", "FRESH_QA">>, <<"FRESH_QA", "COMPLETE">>}
<1> DEFINE path == StagePath(profile)
           following == {path[i + 1] : i \in {j \in 1 .. Len(path) - 1 : path[j] = stage}}
<1>1. NextStageFor(profile, stage) \in following
  BY DEF NextStageFor
<1>2. PICK j \in 1 .. Len(path) - 1 : path[j] = stage /\ path[j + 1] = NextStageFor(profile, stage)
  BY <1>1
<1>3. CASE profile = "LOW"
  <2>1. path = <<"EXECUTE", "VERIFY", "COMPLETE">>
    BY <1>3 DEF StagePath
  <2> HIDE DEF path
  <2> QED BY <1>2, <2>1
<1>4. CASE profile = "STANDARD"
  <2>1. path = <<"PLAN", "REVIEW", "MATERIALIZE", "EXECUTE", "VERIFY", "COMPLETE">>
    BY <1>4 DEF StagePath
  <2> HIDE DEF path
  <2> QED BY <1>2, <2>1 DEF Later
<1>5. CASE profile = "HIGH_RISK_FOUNDATION"
  <2>1. path = <<"PLAN", "REVIEW", "MATERIALIZE", "EXECUTE", "HARDEN", "FRESH_QA",
                 "COMPLETE">>
    BY <1>5 DEF StagePath
  <2> HIDE DEF path
  <2> QED BY <1>2, <2>1 DEF Later
<1> QED BY <1>3, <1>4, <1>5 DEF Profiles

(* A transition that is eligible follows the path, or is a repair within   *)
(* the limit, or its new assessment.                                       *)
LEMMA StepsAreSpent ==
    ASSUME NEW profile \in Profiles, NEW stage \in {"EXECUTE"} \cup Later, NEW to, NEW facts,
           NEW limit \in 0 .. 2, NEW cycles \in 0 .. limit, NEW after,
           EvaluateStageTransition(profile, stage, to, facts, cycles, limit)
             = Eligible(to, after)
    PROVE  after \in 0 .. limit /\ Spent(stage, cycles) + 1 <= Spent(to, after)
<1>1. /\ \A reason : /\ Blocked(reason).kind = "BLOCKED"
                     /\ HumanRequired(reason).kind = "HUMAN_REQUIRED"
      /\ Eligible(to, after).kind = "ELIGIBLE" /\ Eligible(to, after).cycles = after
      /\ \A next, more : Eligible(next, more).cycles = more
  BY DEF Blocked, HumanRequired, Eligible, Decision
<1>2. CyclesFit(profile, stage, cycles, limit)
  BY <1>1 DEF EvaluateStageTransition
<1>3. JudgeNext(profile, stage, to, facts, cycles) = Eligible(to, after)
  BY <1>1 DEF EvaluateStageTransition, JudgeQa
<1>4. /\ to = ExpectedNext(profile, stage, to, facts) /\ to # NoStage /\ stage # "COMPLETE"
      /\ after = CyclesAfter(stage, to, cycles)
  BY <1>1, <1>3 DEF JudgeNext
<1>5. CASE profile # "LOW" /\ stage \in QaStages
  <2>1. /\ to \in {"REPAIR", "COMPLETE"}
        /\ to = "REPAIR" => facts[QaCode(stage)] = "BLOCKING_FAIL"
    BY <1>4, <1>5 DEF ExpectedNext
  <2>2. to = "REPAIR" => ~RepairsExhausted(stage, cycles, limit)
    BY <1>1, <1>2, <1>5, <2>1 DEF EvaluateStageTransition, JudgeQa
  <2>3. IF stage = "FRESH_QA" THEN cycles = 0 ELSE stage = "FOCUSED_RE_QA" /\ cycles \in {1, 2}
    BY <1>2, <1>5 DEF CyclesFit, QaStages, RepairStages
  <2> QED BY <1>4, <2>1, <2>2, <2>3 DEF RepairsExhausted, CyclesAfter, Spent
<1>6. CASE profile # "LOW" /\ stage = "REPAIR"
  BY <1>4, <1>6 DEF ExpectedNext, QaStages, CyclesAfter, Spent
<1>7. CASE profile = "STANDARD" /\ stage = "EXECUTE" /\ to = "FRESH_QA"
  BY <1>4, <1>7 DEF CyclesAfter, Spent
<1>8. CASE /\ ~(profile # "LOW" /\ stage \in QaStages) /\ ~(profile # "LOW" /\ stage = "REPAIR")
           /\ ~(profile = "STANDARD" /\ stage = "EXECUTE" /\ to = "FRESH_QA")
  <2>1. to = NextStageFor(profile, stage)
    BY <1>4, <1>8 DEF ExpectedNext
  <2>2. <<stage, to>> \in {<<"EXECUTE", "VERIFY">>, <<"EXECUTE", "HARDEN">>,
           <<"VERIFY", "COMPLETE">>, <<"HARDEN", "FRESH_QA">>, <<"FRESH_QA", "COMPLETE">>}
    BY <1>4, <2>1, PathsLead
  <2>3. after = cycles
    BY <1>4, <2>2 DEF CyclesAfter
  <2> QED BY <2>2, <2>3 DEF Spent
<1> QED BY <1>5, <1>6, <1>7, <1>8

LEMMA PaceStarts == ASSUME Init, NEW t \in Tasks PROVE Paced(t)
<1>1. history[t] = << >> /\ Sequence(t) = 1 /\ Cycles(t) = 0
  BY DEF Init, WorkflowInit, Sequence, Cycles, CyclesBefore
<1>2. Stage(t) \in {"EXECUTE", "MATERIALIZE"} /\ EntrySequence(t) \in {1, 2}
  BY <1>1 DEF Stage, StageBefore, InitialStage, EntrySequence
<1> QED BY <1>1, <1>2, LimitAssumption DEF Paced, Spent

LEMMA PaceKept ==
    ASSUME IInv, IInv', [Next]_vars, \A u \in Tasks : Paced(u), NEW t \in Tasks
    PROVE  Paced(t)'
<1>1. CASE history'[t] = history[t]
  BY <1>1 DEF Paced, Sequence, Stage, Cycles, StageBefore, CyclesBefore
<1>2. CASE history'[t] # history[t]
  <2>1. GoesOn(t)
    <3>1. UNCHANGED history \/ \E u \in Tasks : GoesOn(u)
      BY <1>2, WorkflowKept DEF OneGoesOn, vars, storeVars
    <3> QED BY <1>2, <3>1 DEF GoesOn
  <2>2. /\ Sequence(t) \in Nat /\ Sequence(t)' = Sequence(t) + 1
        /\ EntrySequence(t) \in {1, 2} /\ EntrySequence(t)' = EntrySequence(t)
        /\ Sequence(t) = Len(history[t]) + 1 /\ Len(history[t]) \in Nat
        /\ Sequence(t)' = Len(history'[t]) + 1 /\ Len(history'[t]) \in Nat
    BY <2>1, Lengths DEF GoesOn, IInv, WorkflowInv, EntrySequence, Sequence, Extends
  <2>3. PICK n : n = Sequence(t)
    OBVIOUS
  <2>4. n \in 1 .. Len(history'[t]) /\ Sequence(t)' = n + 1 /\ n # 0
    BY <2>2, <2>3
  <2>5. StageBefore(t, n)' = Stage(t) /\ CyclesBefore(t, n)' = Cycles(t)
    BY <2>1, <2>2, <2>3, StagesStay DEF GoesOn, IInv, WorkflowInv, Stage, Cycles
  <2>6. PICK step : step = history'[t][n]
    OBVIOUS
  <2>7. Stage(t)' = step.to /\ Cycles(t)' = step.cycles
    BY <2>2, <2>4, <2>6 DEF Stage, Cycles, StageBefore, CyclesBefore
  <2>8. PICK facts : EvaluateStageTransition(Profile[t], Stage(t), step.to, facts, Cycles(t), Limit[t])
                       = Eligible(step.to, step.cycles)
    <3>1. StepReadable(t, n)'
      BY <2>4 DEF IInv, WorkflowInv, Readable
    <3> QED BY <2>5, <2>6, <3>1 DEF StepReadable, Decide
  <2>9. Limit[t] \in 0 .. 2 /\ Cycles(t) \in 0 .. Limit[t] /\ Profile[t] \in Profiles
    BY LimitAssumption, ProfileAssumption DEF Paced
  <2>10. CASE Stage(t) = "MATERIALIZE"
    <3>1. n < EntrySequence(t)
      BY <2>2, <2>3, <2>10, StagesOf DEF IInv, WorkflowInv, Stage
    <3>2. step.to = "EXECUTE"
      <4>1. n + 1 = EntrySequence(t)'
        BY <2>2, <2>3, <3>1
      <4> QED BY <2>4, <2>6, <4>1 DEF IInv, WorkflowInv, ShapeOK
    <3>3. step.cycles = Cycles(t)
      <4>1. /\ Eligible(step.to, step.cycles).kind = "ELIGIBLE"
            /\ Eligible(step.to, step.cycles).cycles = step.cycles
            /\ \A reason : /\ Blocked(reason).kind = "BLOCKED"
                           /\ HumanRequired(reason).kind = "HUMAN_REQUIRED"
            /\ \A next, more : Eligible(next, more).cycles = more
        BY DEF Blocked, HumanRequired, Eligible, Decision
      <4>2. JudgeNext(Profile[t], Stage(t), step.to, facts, Cycles(t)) = Eligible(step.to, step.cycles)
        BY <2>8, <4>1 DEF EvaluateStageTransition, JudgeQa
      <4>3. step.cycles = CyclesAfter(Stage(t), step.to, Cycles(t))
        BY <4>1, <4>2 DEF JudgeNext
      <4> QED BY <3>2, <4>3 DEF CyclesAfter
    <3> QED BY <2>2, <2>3, <2>7, <2>9, <3>1, <3>2, <3>3 DEF Paced, Spent
  <2>11. CASE Stage(t) # "MATERIALIZE"
    <3>1. Stage(t) \in {"EXECUTE"} \cup Later
      BY <2>2, <2>11, StagesOf DEF IInv, WorkflowInv, Stage
    <3>2. /\ step.cycles \in 0 .. Limit[t]
          /\ Spent(Stage(t), Cycles(t)) + 1 <= Spent(step.to, step.cycles)
      BY <2>8, <2>9, <3>1, StepsAreSpent
    <3>3. /\ Spent(Stage(t), Cycles(t)) \in Nat /\ Spent(step.to, step.cycles) \in Nat
          /\ Sequence(t) <= EntrySequence(t) + Spent(Stage(t), Cycles(t))
      BY <2>9, <3>2 DEF Paced, Spent
    <3>4. Sequence(t)' <= EntrySequence(t)' + Spent(step.to, step.cycles)
      BY <2>2, <3>2, <3>3
    <3>5. Spent(Stage(t), Cycles(t))' = Spent(step.to, step.cycles)
      BY <2>7 DEF Spent
    <3> QED BY <2>7, <3>2, <3>4, <3>5 DEF Paced
  <2> QED BY <2>10, <2>11
<1> QED BY <1>1, <1>2

(* What the limit of repairs means for the work on a Subtask.              *)
WorkLimited ==
  \A t \in Tasks : Cycles(t) <= Limit[t] /\ Len(roles[t]) <= 3 + 2 * Limit[t]

(* However callers compete, repeat and fail, no Subtask is repaired more   *)
(* often than its limit, and its work ends: three roles, and two for each  *)
(* repair, is the most that is ever authorized for it                      *)
(* (evaluateStageTransition, #authorizeCurrentRole).                       *)
THEOREM RepairsAreLimited == Spec => []WorkLimited
<1>1. Init => \A t \in Tasks : Paced(t)
  BY PaceStarts
<1>2. IInv /\ IInv' /\ (\A t \in Tasks : Paced(t)) /\ [Next]_vars => (\A t \in Tasks : Paced(t))'
  BY PaceKept
<1>3. Spec => [](\A t \in Tasks : Paced(t))
  BY <1>1, <1>2, WorkflowInvariant, PTL DEF Spec
<1>4. IInv /\ (\A t \in Tasks : Paced(t)) => WorkLimited
  <2> SUFFICES ASSUME IInv, NEW t \in Tasks, Paced(t)
               PROVE  Cycles(t) <= Limit[t] /\ Len(roles[t]) <= 3 + 2 * Limit[t]
    BY DEF WorkLimited
  <2>1. /\ Sequence(t) \in Nat /\ EntrySequence(t) \in {1, 2}
        /\ Limit[t] \in 0 .. 2 /\ Cycles(t) \in 0 .. Limit[t]
        /\ Sequence(t) <= EntrySequence(t) + Spent(Stage(t), Cycles(t))
    BY Lengths, LimitAssumption DEF IInv, WorkflowInv, Paced
  <2>2. Spent(Stage(t), Cycles(t)) <= (IF Stage(t) = "COMPLETE" THEN 3 ELSE 2) + 2 * Limit[t]
    BY <2>1 DEF Spent
  <2>3. /\ Len(roles[t]) \in {Round(t, Sequence(t)) - 1, Round(t, Sequence(t))}
        /\ Stage(t) = "COMPLETE" => Len(roles[t]) = Round(t, Sequence(t)) - 1
    BY DEF IInv, RolesOK
  <2>4. Spent(Stage(t), Cycles(t)) \in Nat
    BY <2>1 DEF Spent
  <2>5. PICK spent \in Nat : spent = Spent(Stage(t), Cycles(t))
    BY <2>4
  <2>6. /\ Len(roles[t]) <= Sequence(t) - EntrySequence(t) + 1
        /\ Stage(t) = "COMPLETE" => Len(roles[t]) <= Sequence(t) - EntrySequence(t)
        /\ Sequence(t) - EntrySequence(t) <= spent
    BY <2>1, <2>3, <2>5 DEF Round
  <2>7. Len(roles[t]) \in Int
    BY <2>1, <2>3 DEF Round
  <2>8. spent <= (IF Stage(t) = "COMPLETE" THEN 3 ELSE 2) + 2 * Limit[t]
    BY <2>2, <2>5
  <2> QED BY <2>1, <2>6, <2>7, <2>8
<1> QED BY <1>3, <1>4, WorkflowInvariant, PTL
=============================================================================
